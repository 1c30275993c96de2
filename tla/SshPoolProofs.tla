---------------------------- MODULE SshPoolProofs ----------------------------
(***************************************************************************)
(* The pool's inductive invariant, and its safety properties for any       *)
(* number of processes, workers, tokens and batches.                       *)
(***************************************************************************)
EXTENDS SshPool, SequenceTheorems, TLAPS

\* Where a call has no session, and where it has not sent a command since it
\* took its session.
NoSession == {"idle", "acquire", "scan", "glob", "judge", "try", "full", "gone"}
Early == {"idle", "acquire", "scan", "glob", "judge", "try", "full", "write", "connect", "abort"}

\* A call has sent each command behind those completed at most once, and the
\* first one once more if it is repeated.
SendOK(w) ==
  /\ pc[w] \in Early => done[w] = 0
  /\ pc[w] \in {"run", "sent"} => done[w] < Batch
  /\ pc[w] \in Early \cup {"run"} => \A k \in 1..Batch :
       k > done[w] => sends[w][k] <= IF k = 1 /\ retried[w] THEN 1 ELSE 0
  /\ pc[w] \notin Early \cup {"run", "gone"} => \A k \in 1..Batch :
       k > done[w] + 1 => sends[w][k] = 0
  /\ \A k \in 1..Batch : sends[w][k] <= IF k = 1 /\ retried[w] THEN 2 ELSE 1
SendInv == \A w \in Workers : SendOK(w)

\* The sessions the pool of a process keeps.
Kept(p) == {idle[p][k] : k \in DOMAIN idle[p]}

\* No session is kept twice.
Once(p) == \A j, k \in DOMAIN idle[p] : idle[p][j] = idle[p][k] => j = k

\* The sessions in use and in the pool belong to their process.
HandInv ==
  /\ \A w \in Workers :
       /\ pc[w] \in NoSession <=> cur[w] = None
       /\ cur[w] # None => st[cur[w]] # "unused" /\ Pid(cur[w]) = ProcOf[w]
       /\ pc[w] = "untoken" => st[cur[w]] = "closed"
       /\ pc[w] = "abort" => \A i \in Tokens : file[i] # cur[w]
  /\ \A p \in Procs : \A s \in Kept(p) : st[s] # "unused" /\ Pid(s) = p

\* Nobody has a session that somebody else has.
ApartInv ==
  /\ \A v, w \in Workers : (cur[v] = cur[w] /\ cur[v] # None) => v = w
  /\ \A w \in Workers : \A p \in Procs : cur[w] \notin Kept(p)
  /\ \A p \in Procs : Once(p)

\* A token file is at its creator's path.
FileInv ==
  \A i \in Tokens : file[i] \in Sess => tok[file[i]] = i /\ st[file[i]] # "unused"

\* Whoever holds a session has its file, unless somebody took it away.
Backed(s) == file[tok[s]] = s \/ s \in stolen
HoldInv ==
  /\ \A w \in Workers : cur[w] # None /\ pc[w] # "abort" => Backed(cur[w])
  /\ \A p \in Procs : \A s \in Kept(p) : Backed(s)

\* A session open on the node is backed, or is being closed.
OpenInv ==
  \A s \in Sess : st[s] = "up" => Backed(s) \/ \E w \in Workers : pc[w] = "abort" /\ cur[w] = s

\* A living process's file belongs to a session it holds or keeps.
LeakInv ==
  \A i \in Tokens : (file[i] \in Sess /\ Pid(file[i]) \in alive) =>
    \/ \E w \in Workers : cur[w] = file[i]
    \/ \E p \in Procs : file[i] \in Kept(p)
    \/ file[i] \in lost

IInv ==
  TypeOK /\ SendInv /\ HandInv /\ ApartInv /\ FileInv /\ HoldInv /\ OpenInv /\ LeakInv

-----------------------------------------------------------------------------
(* What the steps do to the variables the invariant is about *)

\* None and Old are neither numbers nor workers.
LEMMA Nulls == /\ None \notin Nat /\ Old \notin Nat /\ None # Old
               /\ None \notin Sess /\ Old \notin Sess /\ None \notin Workers
  BY NullAssumption, BoundAssumption DEF NullAssumption, BoundAssumption, Sess

\* Every process has the token 0, and the tokens are numbers.
LEMMA TokenZero == Tokens \subseteq Nat /\ \A p \in Procs : 0 \in Tokens
<1> SUFFICES ASSUME NEW p \in Procs PROVE 0 \in Tokens
  BY ProcAssumption DEF ProcAssumption
<1>1. Max[p] \in Nat \ {0} /\ 0 .. Max[p] - 1 \subseteq Tokens
  BY ProcAssumption DEF ProcAssumption
<1> QED
  BY <1>1

\* Unlinking the files of sessions S takes away no other file unnoticed.
LEMMA UnlinkKeeps ==
  ASSUME TypeOK, FileInv, 0 \in Tokens, NEW S \in SUBSET Sess, Unlink(S, S)
  PROVE  /\ file' \in [Tokens -> Sess \cup {None, Old}] /\ written' \subseteq Tokens
         /\ stolen' \subseteq Sess /\ stolen \subseteq stolen'
         /\ \A i \in Tokens : file'[i] \in {file[i], None}
         /\ \A s \in S : \A i \in Tokens : file'[i] # s
         /\ \A s \in Sess \ S : Backed(s) => file'[tok[s]] = s \/ s \in stolen'
         /\ \A s \in stolen' \ stolen :
              s \notin S /\ \E x \in S : tok[x] = tok[s] /\ file[tok[x]] # x
<1> DEFINE paths == {tok[s] : s \in S}
<1> USE Nulls DEF TypeOK, FileInv
<1>1. /\ file' = [i \in Tokens |-> IF i \in paths THEN None ELSE file[i]]
      /\ written' = written \ paths
      /\ stolen' = stolen \cup ({file[i] : i \in paths} \ (S \cup {None, Old}))
  BY DEF Unlink
<1>2. paths \subseteq Tokens
  OBVIOUS
<1>3. \A i \in Tokens : file'[i] = IF i \in paths THEN None ELSE file[i]
  BY <1>1
<1>4. ASSUME NEW s \in S, NEW i \in Tokens PROVE file'[i] # s
  <2>1. file[i] = s => i \in paths
    OBVIOUS
  <2> HIDE DEF paths
  <2> QED
    BY <1>3, <2>1
<1>5. ASSUME NEW s \in Sess \ S, Backed(s) PROVE file'[tok[s]] = s \/ s \in stolen'
  <2>1. CASE s \in stolen
    BY <1>1, <2>1
  <2>2. CASE s \notin stolen /\ tok[s] \in paths
    <3>1. file[tok[s]] = s
      BY <1>5, <2>2 DEF Backed
    <3>2. s \in {file[i] : i \in paths}
      BY <2>2, <3>1
    <3> QED
      BY <1>1, <3>2
  <2>3. CASE s \notin stolen /\ tok[s] \notin paths
    BY <1>3, <1>5, <2>3 DEF Backed
  <2> QED
    BY <2>1, <2>2, <2>3
<1>6. ASSUME NEW s \in stolen' \ stolen
      PROVE  s \notin S /\ s \in Sess /\ \E x \in S : tok[x] = tok[s] /\ file[tok[x]] # x
  <2>1. PICK i \in paths : file[i] = s
    BY <1>1
  <2>2. s \notin S \cup {None, Old}
    BY <1>1
  <2>3. PICK x \in S : tok[x] = i
    BY <2>1
  <2> QED
    BY <1>2, <2>1, <2>2, <2>3
<1>7. stolen' \subseteq Sess
  BY <1>6
<1>8. stolen \subseteq stolen' /\ written' \subseteq Tokens
  BY <1>1
<1> HIDE DEF paths
<1>9. file' \in [Tokens -> Sess \cup {None, Old}]
  BY <1>1
<1> QED
  BY <1>3, <1>4, <1>5, <1>6, <1>7, <1>8, <1>9

\* The members of a list, and that none of them is there twice.
Members(q) == {q[k] : k \in DOMAIN q}
Distinct(q) == \A j, k \in DOMAIN q : q[j] = q[k] => j = k

\* What Kept and Once of a process say about its idle sessions.
LEMMA KeptIs == \A p \in Procs : Kept(p) = Members(idle[p]) /\ (Once(p) <=> Distinct(idle[p]))
  BY DEF Kept, Once, Members, Distinct

\* What is left of a list without its elements from k on.
LEMMA PrefixOf ==
  ASSUME NEW q \in Seq(Sess), Distinct(q), NEW k \in DOMAIN q
  PROVE  LET S == {q[j] : j \in k + 1 .. Len(q)}
             r == SubSeq(q, 1, k - 1)
         IN  /\ r \in Seq(Sess) /\ Distinct(r)
             /\ S \subseteq Members(q) /\ q[k] \in Members(q) \ S
             /\ Members(r) = Members(q) \ (S \cup {q[k]})
<1> DEFINE S == {q[j] : j \in k + 1 .. Len(q)}
           r == SubSeq(q, 1, k - 1)
<1>1. Len(q) \in Nat /\ DOMAIN q = 1 .. Len(q) /\ \A i \in 1 .. Len(q) : q[i] \in Sess
  BY LenProperties, ElementOfSeq
<1>2. k \in 1 .. Len(q) /\ k - 1 \in Int /\ 1 \in Int /\ \A i \in 1 .. k - 1 : q[i] \in Sess
  BY <1>1
<1>3. /\ r \in Seq(Sess)
      /\ Len(r) = IF 1 <= k - 1 THEN (k - 1) - 1 + 1 ELSE 0
      /\ \A i \in 1 .. (k - 1) - 1 + 1 : r[i] = q[1 + i - 1]
  BY <1>2, SubSeqProperties
<1>4. DOMAIN r = 1 .. k - 1 /\ \A i \in 1 .. k - 1 : r[i] = q[i]
  <2>1. Len(r) = k - 1
    BY <1>2, <1>3
  <2>2. DOMAIN r = 1 .. Len(r)
    BY <1>3, LenProperties
  <2>3. \A i \in 1 .. k - 1 : i \in 1 .. (k - 1) - 1 + 1 /\ 1 + i - 1 = i
    BY <1>2
  <2> QED
    BY <1>3, <2>1, <2>2, <2>3
<1> HIDE DEF r
<1>5. Distinct(r)
  BY <1>1, <1>2, <1>4 DEF Distinct
<1>6. S \subseteq Members(q) /\ q[k] \in Members(q) \ S
  BY <1>1, <1>2 DEF Distinct, Members
<1>7. Members(r) = Members(q) \ (S \cup {q[k]})
  <2>1. ASSUME NEW i \in 1 .. k - 1 PROVE q[i] \in Members(q) \ (S \cup {q[k]})
    BY <1>1, <1>2 DEF Distinct, Members
  <2>2. ASSUME NEW i \in 1 .. Len(q), q[i] \notin S \cup {q[k]} PROVE i \in 1 .. k - 1
    <3>1. i # k /\ i \notin k + 1 .. Len(q)
      BY <2>2
    <3> QED
      BY <1>1, <1>2, <3>1
  <2> QED
    BY <1>1, <1>4, <2>1, <2>2 DEF Members
<1> QED
  BY <1>3, <1>5, <1>6, <1>7 DEF r

\* A list without its first element.
LEMMA TailOf ==
  ASSUME NEW q \in Seq(Sess), Distinct(q), q # <<>>
  PROVE  /\ Tail(q) \in Seq(Sess) /\ Distinct(Tail(q)) /\ Head(q) \in Members(q)
         /\ Members(Tail(q)) = Members(q) \ {Head(q)}
<1> DEFINE n == Len(q)
<1>1. n \in Nat \ {0} /\ DOMAIN q = 1 .. n /\ Head(q) = q[1]
  <2>1. n \in Nat \ {0} /\ DOMAIN q = 1 .. n
    BY LenProperties, EmptySeq
  <2>2. Head(q) = q[1]
    OBVIOUS
  <2> QED
    BY <2>1, <2>2
<1>2. /\ Tail(q) \in Seq(Sess) /\ DOMAIN Tail(q) = 1 .. n - 1
      /\ \A i \in 1 .. n - 1 : Tail(q)[i] = q[i + 1]
  BY HeadTailProperties, LenProperties
<1> HIDE DEF n
<1>3. \A i \in 1 .. n : i # 1 => i - 1 \in 1 .. n - 1 /\ (i - 1) + 1 = i
  BY <1>1
<1>4. \A i \in 1 .. n - 1 : i + 1 \in 1 .. n /\ i + 1 # 1
  BY <1>1
<1>5. Distinct(Tail(q))
  BY <1>1, <1>2, <1>4 DEF Distinct
<1>6. Members(Tail(q)) = Members(q) \ {Head(q)}
  <2>1. ASSUME NEW i \in 1 .. n - 1 PROVE Tail(q)[i] \in Members(q) \ {Head(q)}
    BY <1>1, <1>2, <1>4 DEF Distinct, Members
  <2>2. ASSUME NEW i \in 1 .. n, q[i] # Head(q) PROVE q[i] \in Members(Tail(q))
    <3>1. i - 1 \in 1 .. n - 1 /\ (i - 1) + 1 = i
      BY <1>1, <1>3, <2>2
    <3>2. Tail(q)[i - 1] = q[i]
      BY <1>2, <3>1
    <3> QED
      BY <1>2, <3>1, <3>2 DEF Members
  <2>3. Members(Tail(q)) \subseteq Members(q) \ {Head(q)}
    BY <1>2, <2>1 DEF Members
  <2>4. Members(q) \ {Head(q)} \subseteq Members(Tail(q))
    <3>1. ASSUME NEW x \in Members(q), x # Head(q) PROVE x \in Members(Tail(q))
      <4>1. PICK i \in 1 .. n : x = q[i]
        BY <1>1, <3>1 DEF Members
      <4> QED
        BY <2>2, <3>1, <4>1
    <3> QED
      BY <3>1
  <2> QED
    BY <2>3, <2>4
<1>7. 1 \in 1 .. n
  BY <1>1
<1> QED
  BY <1>1, <1>2, <1>5, <1>6, <1>7 DEF Members

\* A list with one more element.
LEMMA Appended ==
  ASSUME NEW q \in Seq(Sess), Distinct(q), NEW s \in Sess, s \notin Members(q)
  PROVE  /\ Append(q, s) \in Seq(Sess) /\ Distinct(Append(q, s))
         /\ Members(Append(q, s)) = Members(q) \cup {s}
<1> DEFINE n == Len(q)
           r == Append(q, s)
<1>1. n \in Nat /\ DOMAIN q = 1 .. n
  BY LenProperties
<1>2. r \in Seq(Sess) /\ DOMAIN r = 1 .. n + 1 /\ r[n + 1] = s /\ \A i \in 1 .. n : r[i] = q[i]
  BY AppendProperties, LenProperties
<1> HIDE DEF n, r
<1>3. \A i \in 1 .. n + 1 : i \in 1 .. n \/ i = n + 1
  BY <1>1
<1>4. 1 .. n \subseteq 1 .. n + 1 /\ n + 1 \in 1 .. n + 1
  BY <1>1
<1>5. Distinct(r)
  <2>1. \A i \in 1 .. n : r[i] # s
    BY <1>1, <1>2 DEF Members
  <2> QED
    BY <1>1, <1>2, <1>3, <2>1 DEF Distinct
<1>6. Members(r) = Members(q) \cup {s}
  BY <1>1, <1>2, <1>3, <1>4 DEF Members
<1> QED
  BY <1>2, <1>5, <1>6 DEF r

\* The empty list.
LEMMA EmptyList == <<>> \in Seq(Sess) /\ Distinct(<<>>) /\ Members(<<>>) = {}
<1>1. DOMAIN <<>> = {}
  OBVIOUS
<1> QED
  BY <1>1, EmptySeq DEF Distinct, Members

\* Taking the last healthy session: those behind it are dropped.
LEMMA TakeIdleTakes ==
  ASSUME TypeOK, ApartInv, NEW w \in Workers, TakeIdle(w)
  PROVE  \E S \in SUBSET Sess, s \in Sess :
           /\ S \cup {s} \subseteq Kept(ProcOf[w]) /\ s \notin S /\ st[s] = "up"
           /\ cur' = [cur EXCEPT ![w] = s]
           /\ DropIdle(w, S)
           /\ idle' \in [Procs -> Seq(Sess)]
           /\ \A q \in Procs : Once(q)'
           /\ \A q \in Procs :
                Kept(q)' = IF q = ProcOf[w] THEN Kept(q) \ (S \cup {s}) ELSE Kept(q)
<1> DEFINE p == ProcOf[w]
<1>1. p \in Procs /\ idle[p] \in Seq(Sess) /\ Distinct(idle[p]) /\ Members(idle[p]) \subseteq Sess
  BY ProcAssumption, KeptIs, ElementOfSeq, LenProperties DEF ProcAssumption, TypeOK, ApartInv, Members
<1>2. PICK k \in Healthy(p) :
        /\ cur' = [cur EXCEPT ![w] = idle[p][k]]
        /\ DropIdle(w, {idle[p][j] : j \in k + 1 .. Len(idle[p])})
        /\ idle' = [idle EXCEPT ![p] = SubSeq(@, 1, k - 1)]
  BY DEF TakeIdle
<1> DEFINE S == {idle[p][j] : j \in k + 1 .. Len(idle[p])}
           s == idle[p][k]
           r == SubSeq(idle[p], 1, k - 1)
<1>3. k \in DOMAIN idle[p] /\ st[s] = "up"
  BY <1>2 DEF Healthy
<1>4. /\ r \in Seq(Sess) /\ Distinct(r)
      /\ S \subseteq Members(idle[p]) /\ s \in Members(idle[p]) \ S
      /\ Members(r) = Members(idle[p]) \ (S \cup {s})
  BY <1>1, <1>3, PrefixOf
<1>5. cur' = [cur EXCEPT ![w] = s] /\ DropIdle(w, S) /\ idle' = [idle EXCEPT ![p] = r]
  BY <1>2
<1> HIDE DEF S, s, r
<1>6. idle' \in [Procs -> Seq(Sess)] /\ idle'[p] = r /\ \A q \in Procs \ {p} : idle'[q] = idle[q]
  BY <1>1, <1>4, <1>5 DEF TypeOK
<1>7. \A q \in Procs : Kept(q)' = Members(idle'[q]) /\ (Distinct(idle'[q]) => Once(q)')
  BY DEF Kept, Once, Members, Distinct
<1>8. \A q \in Procs : Once(q)'
  BY <1>4, <1>6, <1>7, KeptIs DEF ApartInv
<1>9. \A q \in Procs : Kept(q)' = IF q = p THEN Kept(q) \ (S \cup {s}) ELSE Kept(q)
  BY <1>4, <1>6, <1>7, KeptIs
<1>10. S \in SUBSET Sess /\ s \in Sess /\ S \cup {s} \subseteq Kept(p) /\ s \notin S
  BY <1>1, <1>4, KeptIs
<1>11. st[s] = "up"
  BY <1>3 DEF s
<1> HIDE DEF p
<1> QED
  BY <1>5, <1>6, <1>8, <1>9, <1>10, <1>11 DEF p

\* A pool that loses all its sessions.
LEMMA IdleEmptied ==
  ASSUME TypeOK, ApartInv, NEW p \in Procs, idle' = [idle EXCEPT ![p] = <<>>]
  PROVE  /\ idle' \in [Procs -> Seq(Sess)]
         /\ Kept(p) \subseteq Sess
         /\ \A q \in Procs : Once(q)'
         /\ \A q \in Procs : Kept(q)' = IF q = p THEN {} ELSE Kept(q)
<1>1. \A q \in Procs : Kept(q)' = Members(idle'[q]) /\ (Distinct(idle'[q]) => Once(q)')
  BY DEF Kept, Once, Members, Distinct
<1>2. idle'[p] = <<>> /\ \A q \in Procs \ {p} : idle'[q] = idle[q]
  BY DEF TypeOK
<1>3. idle' \in [Procs -> Seq(Sess)]
  BY EmptyList DEF TypeOK
<1>4. Kept(p) \subseteq Sess
  BY ElementOfSeq, LenProperties DEF TypeOK, Kept
<1>5. \A q \in Procs : Once(q)'
  BY <1>1, <1>2, EmptyList, KeptIs DEF ApartInv
<1>6. \A q \in Procs : Kept(q)' = IF q = p THEN {} ELSE Kept(q)
  BY <1>1, <1>2, EmptyList, KeptIs
<1> QED
  BY <1>3, <1>4, <1>5, <1>6

\* A pool that loses its first session.
LEMMA IdleHeadGone ==
  ASSUME TypeOK, ApartInv, NEW p \in Procs, idle[p] # <<>>,
         idle' = [idle EXCEPT ![p] = Tail(@)]
  PROVE  /\ idle' \in [Procs -> Seq(Sess)]
         /\ Head(idle[p]) \in Kept(p) \cap Sess
         /\ \A q \in Procs : Once(q)'
         /\ \A q \in Procs :
              Kept(q)' = IF q = p THEN Kept(q) \ {Head(idle[p])} ELSE Kept(q)
<1>1. \A q \in Procs : Kept(q)' = Members(idle'[q]) /\ (Distinct(idle'[q]) => Once(q)')
  BY DEF Kept, Once, Members, Distinct
<1>2. idle[p] \in Seq(Sess) /\ Distinct(idle[p])
  BY KeptIs DEF TypeOK, ApartInv
<1>3. /\ Tail(idle[p]) \in Seq(Sess) /\ Distinct(Tail(idle[p]))
      /\ Head(idle[p]) \in Members(idle[p])
      /\ Members(Tail(idle[p])) = Members(idle[p]) \ {Head(idle[p])}
  BY <1>2, TailOf
<1>4. Head(idle[p]) \in Sess
  BY <1>2, <1>3, ElementOfSeq, LenProperties DEF Members
<1>5. /\ idle' \in [Procs -> Seq(Sess)]
      /\ idle'[p] = Tail(idle[p]) /\ \A q \in Procs \ {p} : idle'[q] = idle[q]
  BY <1>3 DEF TypeOK
<1>6. \A q \in Procs : Once(q)'
  BY <1>1, <1>3, <1>5, KeptIs DEF ApartInv
<1> QED
  BY <1>1, <1>3, <1>4, <1>5, <1>6, KeptIs

\* A pool that takes a session back.
LEMMA IdleGrows ==
  ASSUME TypeOK, ApartInv, NEW p \in Procs, NEW s \in Sess, s \notin Kept(p),
         idle' = [idle EXCEPT ![p] = Append(@, s)]
  PROVE  /\ idle' \in [Procs -> Seq(Sess)]
         /\ \A q \in Procs : Once(q)'
         /\ \A q \in Procs : Kept(q)' = IF q = p THEN Kept(q) \cup {s} ELSE Kept(q)
<1>1. \A q \in Procs : Kept(q)' = Members(idle'[q]) /\ (Distinct(idle'[q]) => Once(q)')
  BY DEF Kept, Once, Members, Distinct
<1>2. idle[p] \in Seq(Sess) /\ Distinct(idle[p]) /\ s \notin Members(idle[p])
  BY KeptIs DEF TypeOK, ApartInv
<1>3. /\ Append(idle[p], s) \in Seq(Sess) /\ Distinct(Append(idle[p], s))
      /\ Members(Append(idle[p], s)) = Members(idle[p]) \cup {s}
  BY <1>2, Appended
<1>4. /\ idle' \in [Procs -> Seq(Sess)]
      /\ idle'[p] = Append(idle[p], s) /\ \A q \in Procs \ {p} : idle'[q] = idle[q]
  BY <1>3 DEF TypeOK
<1>5. \A q \in Procs : Once(q)'
  BY <1>1, <1>3, <1>4, KeptIs DEF ApartInv
<1> QED
  BY <1>1, <1>3, <1>4, <1>5, KeptIs

\* A step of a worker leaves the calls of all other workers alone.
LEMMA CallsApart ==
  ASSUME TypeOK, NEW w \in Workers, RunCommands(w) \/ Step(w) \/ Deadline(w)
  PROVE  /\ pc[w] # "gone" /\ pc'[w] # "gone"
         /\ \A v \in Workers \ {w} :
              UNCHANGED <<pc[v], cur[v], reused[v], retried[v], err[v], done[v], sends[v]>>
<1> USE DEF TypeOK, Goto, Finish, call, Raises
<1>1. CASE RunCommands(w) \/ Deadline(w)
  BY <1>1 DEF RunCommands, Deadline
<1>2. CASE ScanStart(w) \/ ScanRead(w) \/ ScanJudge(w) \/ ScanEnd(w)
  BY <1>2 DEF ScanStart, ScanRead, ScanJudge, ScanEnd
<1>3. CASE Create(w) \/ Exists(w) \/ Write(w) \/ Wait(w)
  BY <1>3 DEF Create, Exists, Write, Wait
<1>4. CASE TakeIdle(w) \/ NoIdle(w)
  BY <1>4 DEF TakeIdle, NoIdle
<1>5. CASE Connect(w) \/ ConnectRaises(w) \/ Abort(w)
  BY <1>5 DEF Connect, ConnectRaises, Abort
<1>6. CASE Send(w) \/ CommandFails(w) \/ Output(w) \/ Release(w)
  BY <1>6 DEF Send, CommandFails, Output, Release
<1>7. CASE Logout(w) \/ LogoutRaises(w) \/ Discard(w) \/ ReleaseToken(w)
  BY <1>7 DEF Logout, LogoutRaises, Discard, ReleaseToken
<1> QED
  BY <1>1, <1>2, <1>3, <1>4, <1>5, <1>6, <1>7 DEF Step

\* The token a worker looks at is one of the node's.
LEMMA TokenLookedAt ==
  ASSUME TypeOK, NEW w \in Workers
  PROVE  ProcOf[w] \in Procs /\ 0 \in Tokens /\ at[w] \in Tokens /\ at[w] \in Nat
  BY ProcAssumption, TokenZero DEF ProcAssumption, TypeOK

\* Counting a command up.
LEMMA Counted ==
  ASSUME NEW f \in [1..Batch -> Nat], NEW n \in 1..Batch
  PROVE  [f EXCEPT ![n] = @ + 1] \in [1..Batch -> Nat]
  OBVIOUS

\* Every step of a worker leaves every variable in its type.
LEMMA TypeWorker ==
  ASSUME IInv, NEW w \in Workers, RunCommands(w) \/ Step(w) \/ Deadline(w)
  PROVE  TypeOK'
<1>t. TypeOK
  BY DEF IInv
<1>a. ProcOf[w] \in Procs /\ 0 \in Tokens /\ at[w] \in Tokens /\ at[w] \in Nat
  BY <1>t, TokenLookedAt
<1>f. Finish(w) => /\ pc' \in [Workers -> PC] /\ cur' \in [Workers -> Sess \cup {None}]
                   /\ reused' \in [Workers -> BOOLEAN] /\ retried' \in [Workers -> BOOLEAN]
                   /\ err' \in [Workers -> {"none", "closed", "other"}]
                   /\ done' \in [Workers -> 0..Batch]
                   /\ sends' \in [Workers -> [1..Batch -> Nat]]
  BY <1>t, BoundAssumption DEF Finish, Goto, PC, TypeOK, BoundAssumption
<1>h. cur[w] \in Sess \/ pc[w] \in NoSession
  BY <1>t DEF IInv, HandInv, TypeOK
<1> USE <1>t DEF TypeOK, Goto, PC, files, sessions, procs, call, scan
<1>1. CASE RunCommands(w) \/ Deadline(w)
  <2>1. CASE RunCommands(w)
    BY <2>1, BoundAssumption DEF RunCommands, BoundAssumption
  <2>2. CASE Deadline(w)
    BY <2>2 DEF Deadline
  <2> QED
    BY <1>1, <2>1, <2>2
<1>2. CASE ScanStart(w) \/ ScanRead(w)
  <2>1. CASE ScanStart(w)
    BY <1>2, <2>1 DEF ScanStart
  <2>2. CASE ScanRead(w)
    BY <1>2, <2>2 DEF ScanRead
  <2> QED
    BY <1>2, <2>1, <2>2
<1>3. CASE ScanJudge(w) \/ ScanEnd(w)
  <2>1. CASE ScanJudge(w)
    <3>1. stolen' \subseteq Sess /\ written' \subseteq Tokens
      BY <2>1, <1>a DEF ScanJudge
    <3>2. file' \in [Tokens -> Sess \cup {None, Old}]
      BY <2>1 DEF ScanJudge
    <3>3. at' \in [Workers -> Tokens \cup {0}] /\ saw' \in [Workers -> Sess \cup {None, Old}]
      BY <2>1 DEF ScanJudge
    <3> QED
      BY <2>1, <3>1, <3>2, <3>3 DEF ScanJudge
  <2>2. CASE ScanEnd(w)
    BY <2>2 DEF ScanEnd
  <2> QED
    BY <1>3, <2>1, <2>2
<1>4. CASE Create(w)
  BY <1>4, <1>a DEF Create
<1>5. CASE Exists(w)
  <2>1. ASSUME at[w] + 1 < Max[ProcOf[w]] PROVE at[w] + 1 \in Tokens
    <3>1. Max[ProcOf[w]] \in Nat \ {0} /\ 0 .. Max[ProcOf[w]] - 1 \subseteq Tokens
      BY <1>a, ProcAssumption DEF ProcAssumption
    <3>2. at[w] + 1 \in 0 .. Max[ProcOf[w]] - 1
      BY <1>a, <2>1, <3>1
    <3> QED
      BY <3>1, <3>2
  <2> QED
    BY <1>5, <1>a, <2>1 DEF Exists
<1>6. CASE Write(w) \/ Wait(w)
  <2>1. CASE Write(w)
    BY <2>1 DEF Write
  <2>2. CASE Wait(w)
    <3>1. CASE expired[w]
      BY <2>2, <3>1, <1>f DEF Wait
    <3>2. CASE ~expired[w]
      BY <2>2, <3>2 DEF Wait
    <3> QED
      BY <3>1, <3>2
  <2> QED
    BY <1>6, <2>1, <2>2
<1>7. CASE TakeIdle(w)
  <2>1. PICK S \in SUBSET Sess, s \in Sess :
          /\ cur' = [cur EXCEPT ![w] = s] /\ DropIdle(w, S)
          /\ idle' \in [Procs -> Seq(Sess)]
    BY <1>7, TakeIdleTakes DEF IInv
  <2>2. /\ file' \in [Tokens -> Sess \cup {None, Old}] /\ written' \subseteq Tokens
        /\ stolen' \subseteq Sess
    BY <1>a, <2>1, UnlinkKeeps DEF DropIdle, IInv
  <2> QED
    BY <1>7, <2>1, <2>2 DEF TakeIdle, DropIdle
<1>8. CASE NoIdle(w)
  <2>1. /\ Kept(ProcOf[w]) \in SUBSET Sess /\ DropIdle(w, Kept(ProcOf[w]))
        /\ idle' \in [Procs -> Seq(Sess)]
    BY <1>8, <1>a, IdleEmptied DEF IInv, NoIdle, Kept
  <2>2. /\ file' \in [Tokens -> Sess \cup {None, Old}] /\ written' \subseteq Tokens
        /\ stolen' \subseteq Sess
    BY <1>a, <2>1, UnlinkKeeps DEF DropIdle, IInv
  <2> QED
    BY <1>8, <2>1, <2>2 DEF NoIdle, DropIdle
<1>9. CASE Connect(w) \/ Abort(w)
  <2>1. CASE Connect(w)
    BY <2>1 DEF Connect
  <2>2. CASE Abort(w)
    BY <2>2, <1>f DEF Abort
  <2> QED
    BY <1>9, <2>1, <2>2
<1>10. CASE ConnectRaises(w) \/ ReleaseToken(w)
  <2>1. cur[w] \in Sess /\ Unlink({cur[w]}, {cur[w]})
    BY <1>10, <1>h DEF ConnectRaises, ReleaseToken, NoSession
  <2>2. /\ file' \in [Tokens -> Sess \cup {None, Old}] /\ written' \subseteq Tokens
        /\ stolen' \subseteq Sess
    BY <1>a, <2>1, UnlinkKeeps DEF IInv
  <2>3. CASE ConnectRaises(w)
    BY <2>1, <2>2, <2>3 DEF ConnectRaises
  <2>4. CASE ReleaseToken(w)
    <3>1. CASE MayRetry(w)
      <4>0. /\ pc' = [pc EXCEPT ![w] = "acquire"]
            /\ err' = [err EXCEPT ![w] = "none"]
            /\ done' = [done EXCEPT ![w] = 0]
        BY <2>4, <3>1 DEF ReleaseToken
      <4>1. cur' \in [Workers -> Sess \cup {None}] /\ retried' \in [Workers -> BOOLEAN]
        BY <2>4, <3>1 DEF ReleaseToken
      <4>2. err' \in [Workers -> {"none", "closed", "other"}] /\ done' \in [Workers -> 0..Batch]
        BY <4>0, BoundAssumption DEF BoundAssumption
      <4>3. pc' \in [Workers -> PC]
        BY <4>0
      <4> QED
        BY <2>2, <2>4, <3>1, <4>1, <4>2, <4>3 DEF ReleaseToken
    <3>2. CASE ~MayRetry(w)
      BY <1>f, <2>2, <2>4, <3>2 DEF ReleaseToken
    <3> QED
      BY <3>1, <3>2
  <2> QED
    BY <1>10, <2>3, <2>4
<1>11. CASE Send(w)
  <2>1. done[w] + 1 \in 1..Batch
    BY <1>11, BoundAssumption DEF Send, IInv, SendInv, SendOK, BoundAssumption
  <2>2. sends[w] \in [1..Batch -> Nat]
    OBVIOUS
  <2>3. [sends[w] EXCEPT ![done[w] + 1] = @ + 1] \in [1..Batch -> Nat]
    BY <2>1, <2>2, Counted
  <2>4. sends' = [sends EXCEPT ![w] = [sends[w] EXCEPT ![done[w] + 1] = @ + 1]]
    BY <1>11 DEF Send
  <2>5. sends' \in [Workers -> [1..Batch -> Nat]]
    BY <2>3, <2>4
  <2> QED
    BY <1>11, <2>5 DEF Send
<1>12. CASE CommandFails(w)
  BY <1>12 DEF CommandFails, Raises
<1>13. CASE Output(w)
  <2>1. done[w] + 1 \in 0..Batch
    BY <1>13, BoundAssumption DEF Output, IInv, SendInv, SendOK, BoundAssumption
  <2> QED
    BY <1>13, <2>1 DEF Output
<1>14. CASE Release(w)
  <2>1. cur[w] \in Sess /\ cur[w] \notin Kept(ProcOf[w])
    BY <1>14, <1>a, <1>h DEF Release, NoSession, IInv, ApartInv
  <2>2. idle' \in [Procs -> Seq(Sess)]
    BY <1>14, <1>a, <2>1, IdleGrows DEF Release, IInv
  <2> QED
    BY <1>14, <1>f, <2>2 DEF Release
<1>15. CASE Logout(w) \/ Discard(w)
  <2>1. CASE Logout(w)
    BY <2>1 DEF Logout
  <2>2. CASE Discard(w)
    BY <2>2 DEF Discard
  <2> QED
    BY <1>15, <2>1, <2>2
<1>16. CASE LogoutRaises(w)
  BY <1>16, <1>f, <1>h DEF LogoutRaises, NoSession
<1> QED
  BY <1>1, <1>2, <1>3, <1>4, <1>5, <1>6, <1>7, <1>8, <1>9, <1>10, <1>11, <1>12, <1>13,
     <1>14, <1>15, <1>16 DEF Step

\* So does every step of a process and of the node.
LEMMA TypeOthers ==
  ASSUME IInv,
         \/ \E p \in Procs : Leave(p) \/ CloseIdle(p) \/ Exit(p) \/ Crash(p)
         \/ \E s \in Sess : Drop(s)
         \/ Finished \/ UNCHANGED vars
  PROVE  TypeOK'
<1>t. TypeOK
  BY DEF IInv
<1> USE <1>t DEF TypeOK, PC, files, sessions, procs, call, scan
<1>1. ASSUME NEW p \in Procs, Leave(p) PROVE TypeOK'
  BY <1>1 DEF Leave
<1>2. ASSUME NEW p \in Procs, CloseIdle(p) PROVE TypeOK'
  <2>1. CASE /\ st' = [st EXCEPT ![Head(idle[p])] = "closed"]
             /\ Unlink({Head(idle[p])}, {Head(idle[p])})
             /\ idle' = [idle EXCEPT ![p] = Tail(@)] /\ UNCHANGED lost
    <3>1. Head(idle[p]) \in Sess /\ idle' \in [Procs -> Seq(Sess)]
      BY <1>2, <2>1, IdleHeadGone DEF CloseIdle, IInv
    <3>2. /\ file' \in [Tokens -> Sess \cup {None, Old}] /\ written' \subseteq Tokens
          /\ stolen' \subseteq Sess
      BY <2>1, <3>1, UnlinkKeeps, TokenZero DEF IInv
    <3> QED
      BY <1>2, <2>1, <3>1, <3>2 DEF CloseIdle
  <2>2. CASE /\ idle' = [idle EXCEPT ![p] = <<>>]
             /\ lost' = lost \cup {idle[p][k] : k \in DOMAIN idle[p]} /\ UNCHANGED <<st, files>>
    <3>1. Kept(p) \subseteq Sess /\ idle' \in [Procs -> Seq(Sess)]
      BY <2>2, IdleEmptied DEF IInv
    <3> QED
      BY <1>2, <2>2, <3>1 DEF CloseIdle, Kept
  <2> QED
    BY <1>2, <2>1, <2>2 DEF CloseIdle
<1>3. ASSUME NEW p \in Procs, Exit(p) \/ Crash(p) PROVE TypeOK'
  <2>1. idle' \in [Procs -> Seq(Sess)]
    BY <1>3, IdleEmptied DEF IInv, Exit, Crash, Ends
  <2>2. CASE Exit(p)
    BY <2>1, <2>2 DEF Exit, Ends
  <2>3. CASE Crash(p)
    <3>1. /\ pc' \in [Workers -> PC] /\ cur' \in [Workers -> Sess \cup {None}]
          /\ st' \in [Sess -> {"unused", "new", "up", "dead", "closed"}]
      BY <2>3 DEF Crash, Ends
    <3> QED
      BY <2>1, <2>3, <3>1 DEF Crash, Ends
  <2> QED
    BY <1>3, <2>2, <2>3
<1>4. ASSUME NEW s \in Sess, Drop(s) PROVE TypeOK'
  BY <1>4 DEF Drop
<1>5. CASE Finished \/ UNCHANGED vars
  BY <1>5 DEF Finished, vars
<1> QED
  BY <1>1, <1>2, <1>3, <1>4, <1>5

\* A step of a worker keeps the bounds on what it has sent.
LEMMA SendWorker ==
  ASSUME IInv, NEW w \in Workers, RunCommands(w) \/ Step(w) \/ Deadline(w)
  PROVE  SendInv'
<1>t. /\ pc \in [Workers -> PC] /\ done \in [Workers -> 0..Batch] /\ Batch \in Nat \ {0}
      /\ retried \in [Workers -> BOOLEAN] /\ sends \in [Workers -> [1..Batch -> Nat]]
  BY BoundAssumption DEF IInv, TypeOK, BoundAssumption
<1>s. SendOK(w)
  BY DEF IInv, SendInv
<1>v. ASSUME NEW v \in Workers \ {w} PROVE SendOK(v)'
  <2>1. UNCHANGED <<pc[v], retried[v], done[v], sends[v]>>
    BY CallsApart DEF IInv
  <2>2. SendOK(v)
    BY DEF IInv, SendInv
  <2> QED
    BY <2>1, <2>2 DEF SendOK
<1>f. ASSUME Finish(w) PROVE SendOK(w)'
  <2>1. /\ pc'[w] = "idle" /\ done'[w] = 0 /\ ~retried'[w]
        /\ \A k \in 1..Batch : sends'[w][k] = 0
    BY <1>f, <1>t DEF Finish, Goto
  <2> QED
    BY <2>1 DEF SendOK, Early
<1>u. ASSUME UNCHANGED <<done, retried, sends>>, pc[w] \in Early, pc'[w] \in Early \cup {"run"}
      PROVE  SendOK(w)'
  BY <1>s, <1>t, <1>u DEF SendOK, Early
<1>w. ASSUME UNCHANGED <<done, retried, sends>>, pc[w] \notin Early \cup {"gone"},
             pc'[w] \in {"release", "logout", "discard", "untoken"}
      PROVE  SendOK(w)'
  <2>1. ASSUME NEW k \in 1..Batch, k > done[w] + 1 PROVE sends[w][k] = 0
    <3>1. done[w] \in Nat /\ sends[w][k] \in Nat
      BY <1>t
    <3>2. k > done[w] /\ k # 1
      BY <2>1, <3>1
    <3>3. pc[w] = "run" => sends[w][k] <= 0
      BY <1>s, <3>2 DEF SendOK
    <3>4. pc[w] # "run" => sends[w][k] = 0
      BY <1>s, <1>w, <2>1 DEF SendOK
    <3> QED
      BY <3>1, <3>3, <3>4
  <2> QED
    BY <1>s, <1>w, <2>1 DEF SendOK, Early
<1> SUFFICES SendOK(w)'
  BY <1>v DEF SendInv
<1> USE DEF Goto, call
<1>1. CASE RunCommands(w) \/ Deadline(w)
  <2>1. UNCHANGED <<done, retried, sends>> /\ pc[w] \in Early /\ pc'[w] \in Early
    BY <1>1, <1>t DEF RunCommands, Deadline, Early
  <2> QED
    BY <1>u, <2>1
<1>2. CASE ScanStart(w) \/ ScanRead(w) \/ ScanJudge(w) \/ ScanEnd(w)
  <2>1. UNCHANGED <<done, retried, sends>> /\ pc[w] \in Early /\ pc'[w] \in Early
    BY <1>2, <1>t DEF ScanStart, ScanRead, ScanJudge, ScanEnd, Early
  <2> QED
    BY <1>u, <2>1
<1>3. CASE Create(w) \/ Exists(w) \/ Write(w)
  <2>1. UNCHANGED <<done, retried, sends>> /\ pc[w] \in Early /\ pc'[w] \in Early
    BY <1>3, <1>t DEF Create, Exists, Write, Early
  <2> QED
    BY <1>u, <2>1
<1>4. CASE Wait(w)
  <2>1. ~Finish(w) => UNCHANGED <<done, retried, sends>> /\ pc[w] \in Early /\ pc'[w] \in Early
    BY <1>4, <1>t DEF Wait, Early
  <2> QED
    BY <1>f, <1>u, <2>1
<1>5. CASE TakeIdle(w) \/ NoIdle(w) \/ Connect(w) \/ ConnectRaises(w)
  <2>1. /\ UNCHANGED <<done, retried, sends>>
        /\ pc[w] \in Early /\ pc'[w] \in Early \cup {"run"}
    BY <1>5, <1>t DEF TakeIdle, NoIdle, Connect, ConnectRaises, Early
  <2> QED
    BY <1>u, <2>1
<1>6. CASE Abort(w) \/ LogoutRaises(w)
  BY <1>6, <1>f DEF Abort, LogoutRaises
<1>7. CASE Send(w)
  <2>1. /\ pc[w] = "run" /\ pc'[w] = "sent" /\ done' = done /\ retried' = retried
        /\ sends'[w] = [sends[w] EXCEPT ![done[w] + 1] = @ + 1]
    BY <1>7, <1>t DEF Send
  <2>2. done[w] \in Nat /\ done[w] < Batch /\ sends[w] \in [1..Batch -> Nat]
    BY <1>s, <1>t, <2>1 DEF SendOK
  <2>3. ASSUME NEW k \in 1..Batch
        PROVE  sends'[w][k] = IF k = done[w] + 1 THEN sends[w][k] + 1 ELSE sends[w][k]
    BY <2>1, <2>2
  <2>4. ASSUME NEW k \in 1..Batch
        PROVE  /\ sends[w][k] \in Nat
               /\ k > done[w] => sends[w][k] <= IF k = 1 /\ retried[w] THEN 1 ELSE 0
               /\ sends[w][k] <= IF k = 1 /\ retried[w] THEN 2 ELSE 1
    BY <1>s, <2>1, <2>2 DEF SendOK
  <2>5. ASSUME NEW k \in 1..Batch
        PROVE  /\ k > done[w] + 1 => sends'[w][k] = 0
               /\ sends'[w][k] <= IF k = 1 /\ retried[w] THEN 2 ELSE 1
    <3>1. k > done[w] + 1 => k > 1
      BY <2>2
    <3> QED
      BY <2>2, <2>3, <2>4, <3>1
  <2> QED
    BY <2>1, <2>2, <2>5 DEF SendOK, Early
<1>8. CASE CommandFails(w)
  <2>1. /\ UNCHANGED <<done, retried, sends>> /\ pc[w] \notin Early \cup {"gone"}
        /\ pc'[w] = "discard"
    BY <1>8, <1>t DEF CommandFails, Raises, Early
  <2> QED
    BY <1>w, <2>1
<1>9. CASE Output(w)
  <2>1. /\ pc[w] = "sent" /\ done'[w] = done[w] + 1 /\ UNCHANGED <<retried, sends>>
        /\ pc'[w] = IF done[w] + 1 = Batch THEN "release" ELSE "run"
        /\ done[w] \in Nat /\ done[w] < Batch
    BY <1>9, <1>s, <1>t DEF Output, SendOK
  <2>2. ASSUME NEW k \in 1..Batch
        PROVE  /\ k > done[w] + 1 => sends[w][k] = 0
               /\ sends[w][k] <= IF k = 1 /\ retried[w] THEN 2 ELSE 1
    BY <1>s, <2>1 DEF SendOK, Early
  <2>3. ASSUME NEW k \in 1..Batch
        PROVE  /\ k > done'[w] => sends'[w][k] <= IF k = 1 /\ retried'[w] THEN 1 ELSE 0
               /\ k > done'[w] + 1 => sends'[w][k] = 0
               /\ sends'[w][k] <= IF k = 1 /\ retried'[w] THEN 2 ELSE 1
    <3>1. k > done'[w] => k > 1
      BY <2>1
    <3>2. k > done'[w] + 1 => k > done[w] + 1
      BY <2>1
    <3> QED
      BY <2>1, <2>2, <3>1, <3>2
  <2>4. done'[w] < Batch \/ pc'[w] = "release"
    BY <1>t, <2>1
  <2> QED
    BY <2>1, <2>3, <2>4 DEF SendOK, Early
<1>10. CASE Release(w)
  <2>1. \/ Finish(w)
        \/ /\ UNCHANGED <<done, retried, sends>> /\ pc[w] \notin Early \cup {"gone"}
           /\ pc'[w] = "logout"
    BY <1>10, <1>t DEF Release, Early
  <2> QED
    BY <1>f, <1>w, <2>1
<1>11. CASE Logout(w) \/ Discard(w)
  <2>1. /\ UNCHANGED <<done, retried, sends>> /\ pc[w] \notin Early \cup {"gone"}
        /\ pc'[w] = "untoken"
    BY <1>11, <1>t DEF Logout, Discard, Early
  <2> QED
    BY <1>w, <2>1
<1>12. CASE ReleaseToken(w)
  <2>1. CASE MayRetry(w)
    <3>1. /\ pc[w] = "untoken" /\ pc'[w] = "acquire" /\ done'[w] = 0 /\ retried'[w]
          /\ sends' = sends /\ done[w] = 0 /\ ~retried[w]
      BY <1>12, <1>t, <2>1 DEF ReleaseToken, MayRetry
    <3>2. ASSUME NEW k \in 1..Batch
          PROVE  sends[w][k] <= IF k = 1 THEN 1 ELSE 0
      BY <1>s, <3>1 DEF SendOK, Early
    <3>3. ASSUME NEW k \in 1..Batch
          PROVE  /\ k > 0 => sends'[w][k] <= IF k = 1 /\ retried'[w] THEN 1 ELSE 0
                 /\ sends'[w][k] <= IF k = 1 /\ retried'[w] THEN 2 ELSE 1
      <4>1. sends[w][k] \in Nat
        BY <1>t
      <4> QED
        BY <3>1, <3>2, <4>1
    <3> QED
      BY <3>1, <3>3 DEF SendOK, Early
  <2>2. CASE ~MayRetry(w)
    BY <1>12, <1>f, <2>2 DEF ReleaseToken
  <2> QED
    BY <2>1, <2>2
<1> QED
  BY <1>1, <1>2, <1>3, <1>4, <1>5, <1>6, <1>7, <1>8, <1>9, <1>10, <1>11, <1>12 DEF Step

\* Processes and the node send no commands.
LEMMA SendOthers ==
  ASSUME IInv,
         \/ \E p \in Procs : Leave(p) \/ CloseIdle(p) \/ Exit(p) \/ Crash(p)
         \/ \E s \in Sess : Drop(s)
         \/ Finished \/ UNCHANGED vars
  PROVE  SendInv'
<1>t. pc \in [Workers -> PC]
  BY DEF IInv, TypeOK
<1>1. /\ UNCHANGED <<retried, done, sends>>
      /\ \A w \in Workers : pc'[w] \in {pc[w], "gone"}
  BY <1>t DEF Leave, CloseIdle, Exit, Crash, Ends, Drop, Finished, vars, call
<1>2. ASSUME NEW w \in Workers PROVE SendOK(w)'
  <2>1. SendOK(w) /\ pc'[w] \in {pc[w], "gone"}
    BY <1>1 DEF IInv, SendInv
  <2> QED
    BY <1>1, <2>1 DEF SendOK, Early
<1> QED
  BY <1>2 DEF SendInv

-----------------------------------------------------------------------------
(* Sessions and their files *)

\* What the invariant says about sessions.
SessInv == HandInv /\ ApartInv /\ FileInv /\ HoldInv /\ OpenInv /\ LeakInv

\* A step that moves no session and touches no file.
Still ==
  /\ UNCHANGED <<file, stolen, st, tok, maker, alive, idle, cur, lost>>
  /\ \A v \in Workers :
       /\ pc'[v] \in NoSession <=> pc[v] \in NoSession
       /\ pc'[v] = "abort" <=> pc[v] = "abort"
       /\ pc'[v] = "untoken" => pc[v] = "untoken"

\* A step that leaves the sessions and their holders alone keeps SessInv.
LEMMA StillKeeps == IInv /\ Still => SessInv'
<1> SUFFICES ASSUME IInv, Still PROVE SessInv'
  OBVIOUS
<1> USE DEF Still
<1>1. \A q \in Procs : Kept(q)' = Kept(q) /\ (Once(q)' <=> Once(q))
  BY DEF Kept, Once
<1>2. \A s \in Sess : Pid(s)' = Pid(s) /\ (Backed(s)' <=> Backed(s))
  BY DEF Pid, Backed
<1>3. \A v \in Workers : cur[v] \in Sess \cup {None}
  BY DEF IInv, TypeOK
<1>4. \A q \in Procs : \A s \in Kept(q) : s \in Sess
  BY ElementOfSeq, LenProperties DEF Kept, IInv, TypeOK
<1>5. HandInv'
  BY <1>1, <1>2, <1>3, <1>4 DEF HandInv, IInv
<1>6. ApartInv'
  BY <1>1 DEF ApartInv, IInv
<1>7. FileInv'
  BY DEF FileInv, IInv
<1>8. HoldInv'
  BY <1>1, <1>2, <1>3, <1>4 DEF HoldInv, IInv
<1>9. OpenInv'
  BY <1>2 DEF OpenInv, IInv
<1>10. LeakInv'
  BY <1>1, <1>2 DEF LeakInv, IInv
<1> QED
  BY <1>5, <1>6, <1>7, <1>8, <1>9, <1>10 DEF SessInv

\* A step that closes sessions S and unlinks their files, and moves others
\* from the pool to a call at most.
LEMMA ClosedSpares ==
  ASSUME IInv, 0 \in Tokens, NEW S \in SUBSET Sess, Unlink(S, S), TypeOK', ApartInv',
         UNCHANGED <<tok, maker, alive, lost>>,
         \A s \in Sess : st'[s] = IF s \in S THEN "closed" ELSE st[s],
         \A v \in Workers :
           /\ pc'[v] \in NoSession <=> cur'[v] = None
           /\ cur'[v] # None => /\ cur'[v] \notin S
                                /\ \/ cur'[v] = cur[v] /\ (pc[v] = "abort" <=> pc'[v] = "abort")
                                   \/ cur'[v] \in Kept(ProcOf[v]) /\ pc'[v] # "abort"
           /\ pc[v] = "abort" => cur'[v] = cur[v] /\ pc'[v] = "abort"
           /\ pc'[v] = "untoken" => pc[v] = "untoken" /\ cur'[v] = cur[v],
         \A q \in Procs : Kept(q)' \subseteq Kept(q) \ S,
         \A q \in Procs : \A s \in Kept(q) \ S : s \in Kept(q)' \/ \E v \in Workers : cur'[v] = s,
         \A v \in Workers : cur[v] \notin S \cup {None} => cur'[v] = cur[v]
  PROVE  SessInv'
<1>1. /\ \A i \in Tokens : file'[i] \in {file[i], None}
      /\ \A s \in S : \A i \in Tokens : file'[i] # s
      /\ \A s \in Sess \ S : Backed(s) => Backed(s)'
  BY UnlinkKeeps DEF IInv, Backed
<1>2. \A s \in Sess : Pid(s)' = Pid(s)
  BY DEF Pid
<1>3. \A v \in Workers : cur[v] \in Sess \cup {None} /\ cur'[v] \in Sess \cup {None} /\ ProcOf[v] \in Procs
  BY ProcAssumption DEF IInv, TypeOK, ProcAssumption
<1>4. \A q \in Procs : \A s \in Kept(q) : s \in Sess
  BY ElementOfSeq, LenProperties DEF Kept, IInv, TypeOK
<1>5. HandInv'
  <2>1. ASSUME NEW v \in Workers, cur'[v] # None
        PROVE  st'[cur'[v]] # "unused" /\ Pid(cur[v])' = ProcOf[v]
    <3>1. cur'[v] \in Sess \ S /\ (cur'[v] = cur[v] \/ cur'[v] \in Kept(ProcOf[v]))
      BY <1>3, <2>1
    <3>2. st[cur'[v]] # "unused" /\ Pid(cur'[v]) = ProcOf[v]
      BY <1>3, <2>1, <3>1 DEF IInv, HandInv
    <3> QED
      BY <3>1, <3>2 DEF Pid
  <2>2. ASSUME NEW v \in Workers, pc'[v] = "untoken" PROVE st'[cur'[v]] = "closed"
    <3>1. cur'[v] = cur[v] /\ cur'[v] \in Sess /\ st[cur[v]] = "closed"
      BY <1>3, <2>2 DEF IInv, HandInv, NoSession
    <3> QED
      BY <3>1
  <2>3. ASSUME NEW v \in Workers, pc'[v] = "abort", NEW i \in Tokens PROVE file'[i] # cur'[v]
    <3>1. cur'[v] # None /\ cur'[v] \in Sess
      BY <1>3, <2>3 DEF NoSession
    <3>2. CASE cur'[v] = cur[v] /\ pc[v] = "abort"
      BY <1>1, <3>1, <3>2 DEF IInv, HandInv
    <3> QED
      BY <2>3, <3>1, <3>2
  <2>4. ASSUME NEW q \in Procs, NEW s \in Kept(q)' PROVE st'[s] # "unused" /\ Pid(s)' = q
    BY <1>2, <1>4 DEF IInv, HandInv
  <2> QED
    BY <2>1, <2>2, <2>3, <2>4 DEF HandInv
<1>6. FileInv'
  BY <1>1, Nulls DEF IInv, FileInv
<1>7. HoldInv'
  <2>1. ASSUME NEW v \in Workers, cur'[v] # None, pc'[v] # "abort" PROVE Backed(cur[v])'
    <3>1. Backed(cur'[v]) /\ cur'[v] \in Sess \ S
      BY <1>3, <2>1 DEF IInv, HoldInv
    <3>2. Backed(cur'[v])  => (file'[tok[cur'[v]]] = cur'[v] \/ cur'[v] \in stolen')
      BY <1>1, <3>1 DEF Backed
    <3> QED
      BY <3>1, <3>2 DEF Backed
  <2>2. ASSUME NEW q \in Procs, NEW s \in Kept(q)' PROVE Backed(s)'
    BY <1>1, <1>4 DEF IInv, HoldInv
  <2> QED
    BY <2>1, <2>2 DEF HoldInv
<1>8. OpenInv'
  BY <1>1 DEF IInv, OpenInv
<1>9. LeakInv'
  <2>1. SUFFICES ASSUME NEW i \in Tokens, file'[i] \in Sess, Pid(file[i])' \in alive'
                 PROVE  \/ \E v \in Workers : cur'[v] = file'[i]
                        \/ \E q \in Procs : file'[i] \in Kept(q)'
                        \/ file'[i] \in lost'
    BY DEF LeakInv
  <2>2. file'[i] = file[i] /\ file[i] \notin S /\ Pid(file[i]) \in alive
    BY <1>1, <2>1, Nulls DEF Pid
  <2>3. \/ \E v \in Workers : cur[v] = file[i]
        \/ \E q \in Procs : file[i] \in Kept(q)
        \/ file[i] \in lost
    BY <2>1, <2>2 DEF IInv, LeakInv
  <2> QED
    BY <2>1, <2>2, <2>3, Nulls
<1> QED
  BY <1>5, <1>6, <1>7, <1>8, <1>9 DEF SessInv

\* Most steps of a call move no session.
LEMMA StillSteps ==
  ASSUME IInv, NEW w \in Workers,
         \/ RunCommands(w) \/ Deadline(w) \/ ScanStart(w) \/ ScanRead(w) \/ ScanEnd(w)
         \/ Exists(w) \/ Write(w) \/ Wait(w) \/ Send(w) \/ CommandFails(w) \/ Output(w)
         \/ Release(w) /\ pc'[w] = "logout"
  PROVE  Still
<1>t. pc \in [Workers -> PC] /\ cur \in [Workers -> Sess \cup {None}]
      /\ (pc[w] = "full" => cur[w] = None)
  BY DEF IInv, TypeOK, HandInv, NoSession
<1> USE DEF Still, NoSession, Goto, files, sessions, procs, call, scan
<1>1. CASE RunCommands(w) \/ Deadline(w) \/ ScanStart(w) \/ ScanRead(w) \/ ScanEnd(w)
  BY <1>1, <1>t DEF RunCommands, Deadline, ScanStart, ScanRead, ScanEnd
<1>2. CASE Exists(w)
  BY <1>2, <1>t DEF Exists
<1>3. CASE Write(w)
  BY <1>3, <1>t DEF Write
<1>4. CASE Wait(w)
  <2>1. [cur EXCEPT ![w] = None] = cur
    BY <1>4, <1>t DEF Wait
  <2> QED
    BY <1>4, <1>t, <2>1 DEF Wait, Finish
<1>5. CASE Send(w) \/ CommandFails(w)
  BY <1>5, <1>t DEF Send, CommandFails, Raises
<1>6. CASE Output(w)
  BY <1>6, <1>t DEF Output
<1>7. CASE Release(w) /\ pc'[w] = "logout"
  BY <1>7, <1>t DEF Release, Finish
<1> QED
  BY <1>1, <1>2, <1>3, <1>4, <1>5, <1>6, <1>7

\* Taking an idle session, or none, closes dead ones; a call that is over
\* closes its own.
LEMMA ClosingSteps ==
  ASSUME IInv, TypeOK', NEW w \in Workers, TakeIdle(w) \/ NoIdle(w) \/ ReleaseToken(w)
  PROVE  SessInv'
<1>t. /\ pc \in [Workers -> PC] /\ cur \in [Workers -> Sess \cup {None}]
      /\ st \in [Sess -> {"unused", "new", "up", "dead", "closed"}]
      /\ ProcOf \in [Workers -> Procs] /\ 0 \in Tokens
  BY ProcAssumption, TokenLookedAt DEF IInv, TypeOK, ProcAssumption
<1>h. /\ HandInv /\ ApartInv
  BY DEF IInv
<1>1. CASE TakeIdle(w)
  <2>1. PICK S \in SUBSET Sess, s \in Sess :
           /\ S \cup {s} \subseteq Kept(ProcOf[w]) /\ s \notin S /\ st[s] = "up"
           /\ cur' = [cur EXCEPT ![w] = s]
           /\ DropIdle(w, S)
           /\ \A q \in Procs : Once(q)'
           /\ \A q \in Procs :
                Kept(q)' = IF q = ProcOf[w] THEN Kept(q) \ (S \cup {s}) ELSE Kept(q)
    BY <1>1, TakeIdleTakes DEF IInv
  <2>2. /\ pc[w] = "acquire" /\ pc' = [pc EXCEPT ![w] = "run"] /\ cur[w] = None
        /\ UNCHANGED <<tok, maker, alive, lost>>
        /\ \A x \in Sess : st'[x] = IF x \in S THEN "closed" ELSE st[x]
        /\ Unlink(S, S)
    BY <1>1, <1>h, <2>1 DEF TakeIdle, Goto, DropIdle, HandInv, NoSession
  <2>3. \A q \in Procs : q # ProcOf[w] => Kept(q) \cap (S \cup {s}) = {}
    BY <1>h, <1>t, <2>1 DEF HandInv
  <2>4. ApartInv'
    BY <1>h, <1>t, <2>1, <2>3, Nulls DEF ApartInv
  <2>5. \A v \in Workers :
           /\ pc'[v] \in NoSession <=> cur'[v] = None
           /\ cur'[v] # None => /\ cur'[v] \notin S
                                /\ \/ cur'[v] = cur[v] /\ (pc[v] = "abort" <=> pc'[v] = "abort")
                                   \/ cur'[v] \in Kept(ProcOf[v]) /\ pc'[v] # "abort"
           /\ pc[v] = "abort" => cur'[v] = cur[v] /\ pc'[v] = "abort"
           /\ pc'[v] = "untoken" => pc[v] = "untoken" /\ cur'[v] = cur[v]
    BY <1>h, <1>t, <2>1, <2>2, Nulls DEF HandInv, ApartInv, NoSession
  <2>6. \A q \in Procs : Kept(q)' \subseteq Kept(q) \ S
    BY <2>1, <2>3
  <2>7. \A q \in Procs : \A x \in Kept(q) \ S : x \in Kept(q)' \/ \E v \in Workers : cur'[v] = x
    BY <1>t, <2>1
  <2>8. \A v \in Workers : cur[v] \notin S \cup {None} => cur'[v] = cur[v]
    BY <1>t, <2>1, <2>2
  <2> QED
    BY <1>t, <2>2, <2>4, <2>5, <2>6, <2>7, <2>8, ClosedSpares
<1>2. CASE NoIdle(w)
  <2> DEFINE S == Kept(ProcOf[w])
  <2>1. /\ S \in SUBSET Sess /\ DropIdle(w, S)
        /\ \A q \in Procs : Once(q)'
        /\ \A q \in Procs : Kept(q)' = IF q = ProcOf[w] THEN {} ELSE Kept(q)
    BY <1>2, <1>t, IdleEmptied DEF NoIdle, Kept, IInv
  <2>2. /\ pc[w] = "acquire" /\ pc' = [pc EXCEPT ![w] = "scan"] /\ cur' = cur
        /\ UNCHANGED <<tok, maker, alive, lost>>
        /\ \A x \in Sess : st'[x] = IF x \in S THEN "closed" ELSE st[x]
        /\ Unlink(S, S)
    BY <1>2, <2>1 DEF NoIdle, Goto, DropIdle
  <2>3. \A q \in Procs : q # ProcOf[w] => Kept(q) \cap S = {}
    BY <1>h, <1>t DEF HandInv
  <2>4. ApartInv'
    BY <1>h, <1>t, <2>1, <2>2 DEF ApartInv
  <2>5. \A v \in Workers :
           /\ pc'[v] \in NoSession <=> cur'[v] = None
           /\ cur'[v] # None => /\ cur'[v] \notin S
                                /\ \/ cur'[v] = cur[v] /\ (pc[v] = "abort" <=> pc'[v] = "abort")
                                   \/ cur'[v] \in Kept(ProcOf[v]) /\ pc'[v] # "abort"
           /\ pc[v] = "abort" => cur'[v] = cur[v] /\ pc'[v] = "abort"
           /\ pc'[v] = "untoken" => pc[v] = "untoken" /\ cur'[v] = cur[v]
    BY <1>h, <1>t, <2>2 DEF HandInv, ApartInv, NoSession
  <2>6. \A q \in Procs : Kept(q)' \subseteq Kept(q) \ S
    BY <2>1, <2>3
  <2>7. \A q \in Procs : \A x \in Kept(q) \ S : x \in Kept(q)' \/ \E v \in Workers : cur'[v] = x
    BY <2>1
  <2> HIDE DEF S
  <2> QED
    BY <1>t, <2>1, <2>2, <2>4, <2>5, <2>6, <2>7, ClosedSpares
<1>3. CASE ReleaseToken(w)
  <2>1. /\ pc[w] = "untoken" /\ pc' \in {[pc EXCEPT ![w] = "acquire"], [pc EXCEPT ![w] = "idle"]}
        /\ cur' = [cur EXCEPT ![w] = None] /\ Unlink({cur[w]}, {cur[w]})
        /\ UNCHANGED <<st, tok, maker, alive, idle, lost>>
    BY <1>3 DEF ReleaseToken, Finish, Goto, sessions, procs
  <2>2. cur[w] \in Sess /\ st[cur[w]] = "closed"
    BY <1>h, <1>t, <2>1 DEF HandInv, NoSession
  <2>3. \A q \in Procs : Kept(q)' = Kept(q) /\ (Once(q)' <=> Once(q)) /\ cur[w] \notin Kept(q)
    BY <1>h, <2>1 DEF Kept, Once, ApartInv
  <2>4. ApartInv'
    <3>1. \A v \in Workers : cur'[v] \in {cur[v], None}
      BY <1>t, <2>1
    <3>2. \A q \in Procs : None \notin Kept(q)
      BY ElementOfSeq, LenProperties, Nulls DEF Kept, IInv, TypeOK
    <3>3. \A v \in Workers : \A q \in Procs : cur'[v] \notin Kept(q)'
      BY <1>h, <2>3, <3>1, <3>2 DEF ApartInv
    <3> QED
      BY <1>h, <2>3, <3>1, <3>3 DEF ApartInv
  <2>5. \A v \in Workers :
           /\ pc'[v] \in NoSession <=> cur'[v] = None
           /\ cur'[v] # None => /\ cur'[v] # cur[w]
                                /\ \/ cur'[v] = cur[v] /\ (pc[v] = "abort" <=> pc'[v] = "abort")
                                   \/ cur'[v] \in Kept(ProcOf[v]) /\ pc'[v] # "abort"
           /\ pc[v] = "abort" => cur'[v] = cur[v] /\ pc'[v] = "abort"
           /\ pc'[v] = "untoken" => pc[v] = "untoken" /\ cur'[v] = cur[v]
    BY <1>h, <1>t, <2>1, <2>2 DEF HandInv, ApartInv, NoSession
  <2>6. \A v \in Workers : cur[v] \notin {cur[w], None} => cur'[v] = cur[v]
    BY <1>t, <2>1
  <2> DEFINE S == {cur[w]}
  <2>7. /\ S \in SUBSET Sess /\ Unlink(S, S)
        /\ \A s \in Sess : st'[s] = IF s \in S THEN "closed" ELSE st[s]
        /\ \A v \in Workers : cur'[v] # None => cur'[v] \notin S
        /\ \A v \in Workers : cur[v] \notin S \cup {None} => cur'[v] = cur[v]
        /\ \A q \in Procs : Kept(q)' \subseteq Kept(q) \ S
        /\ \A q \in Procs : \A s \in Kept(q) \ S : s \in Kept(q)'
    BY <2>1, <2>2, <2>3, <2>5, <2>6
  <2> HIDE DEF S
  <2> QED
    BY <1>t, <2>1, <2>4, <2>5, <2>7, ClosedSpares
<1> QED
  BY <1>1, <1>2, <1>3

\* A scan that removes a file takes it from its session.
LEMMA JudgeStep ==
  ASSUME IInv, TypeOK', NEW w \in Workers, ScanJudge(w)
  PROVE  SessInv'
<1>t. /\ pc \in [Workers -> PC] /\ at[w] \in Tokens
      /\ file \in [Tokens -> Sess \cup {None, Old}]
      /\ HandInv /\ ApartInv /\ FileInv /\ HoldInv /\ OpenInv /\ LeakInv
  BY TokenLookedAt DEF IInv, TypeOK
<1>1. /\ UNCHANGED <<st, tok, maker, alive, idle, cur, lost>>
      /\ pc[w] = "judge" /\ pc' = [pc EXCEPT ![w] = "glob"]
  BY DEF ScanJudge, sessions, procs, call, Goto
<1>2. /\ \A i \in Tokens : file'[i] \in {file[i], None}
      /\ stolen \subseteq stolen'
      /\ \A i \in Tokens : file[i] \in Sess /\ file'[i] # file[i] => file[i] \in stolen'
  BY <1>t, Nulls DEF ScanJudge, files
<1>3. \A q \in Procs : Kept(q)' = Kept(q) /\ (Once(q)' <=> Once(q))
  BY <1>1 DEF Kept, Once
<1>4. \A s : Pid(s)' = Pid(s)
  BY <1>1 DEF Pid
<1>5. \A s \in Sess : tok[s] \in Tokens
  BY <1>t, ProcAssumption, TokenZero DEF IInv, TypeOK, ProcAssumption
<1>6. \A s \in Sess : Backed(s) => Backed(s)'
  BY <1>1, <1>2, <1>5 DEF Backed
<1>7. \A v \in Workers : cur[v] \in Sess \cup {None}
  BY DEF IInv, TypeOK
<1>8. \A q \in Procs : \A s \in Kept(q) : s \in Sess
  BY ElementOfSeq, LenProperties DEF Kept, IInv, TypeOK
<1>9. HandInv'
  <2>1. ASSUME NEW v \in Workers, pc'[v] = "abort", NEW i \in Tokens PROVE file'[i] # cur'[v]
    <3>1. pc[v] = "abort" /\ cur'[v] = cur[v] /\ cur[v] # None
      BY <1>t, <1>1, <2>1 DEF HandInv, NoSession
    <3> QED
      BY <1>t, <1>2, <3>1 DEF HandInv
  <2>2. ASSUME NEW v \in Workers
        PROVE  /\ pc'[v] \in NoSession <=> cur'[v] = None
               /\ cur'[v] # None => st'[cur'[v]] # "unused" /\ Pid(cur[v])' = ProcOf[v]
               /\ pc'[v] = "untoken" => st'[cur'[v]] = "closed"
    BY <1>t, <1>1, <1>4 DEF HandInv, NoSession
  <2>3. \A v \in Workers : cur'[v] # None => Pid(cur[v])' = Pid(cur'[v])
    BY <1>1, <1>4
  <2> QED
    BY <1>t, <1>1, <1>3, <1>4, <2>1, <2>2, <2>3 DEF HandInv
<1>10. ApartInv'
  BY <1>t, <1>1, <1>3 DEF ApartInv
<1>11. FileInv'
  BY <1>t, <1>1, <1>2, Nulls DEF FileInv
<1>12. HoldInv'
  BY <1>t, <1>1, <1>3, <1>6, <1>7, <1>8 DEF HoldInv
<1>13. OpenInv'
  BY <1>t, <1>1, <1>6 DEF OpenInv
<1>14. LeakInv'
  BY <1>t, <1>1, <1>2, <1>3, <1>4, Nulls DEF LeakInv
<1> QED
  BY <1>9, <1>10, <1>11, <1>12, <1>13, <1>14 DEF SessInv

\* A new token's session is the creator's.
LEMMA CreateStep ==
  ASSUME IInv, TypeOK', NEW w \in Workers, Create(w)
  PROVE  SessInv'
<1>t. /\ pc \in [Workers -> PC] /\ at[w] \in Tokens /\ cur \in [Workers -> Sess \cup {None}]
      /\ file \in [Tokens -> Sess \cup {None, Old}] /\ tok \in [Sess -> Tokens \cup {0}]
      /\ st \in [Sess -> {"unused", "new", "up", "dead", "closed"}]
      /\ maker \in [Sess -> Workers \cup {None}]
      /\ HandInv /\ ApartInv /\ FileInv /\ HoldInv /\ OpenInv /\ LeakInv
  BY TokenLookedAt DEF IInv, TypeOK
<1>1. PICK n \in Sess \ Used :
        /\ file' = [file EXCEPT ![at[w]] = n]
        /\ st' = [st EXCEPT ![n] = "new"]
        /\ tok' = [tok EXCEPT ![n] = at[w]]
        /\ maker' = [maker EXCEPT ![n] = w]
        /\ cur' = [cur EXCEPT ![w] = n]
  BY DEF Create
<1>2. /\ pc[w] = "try" /\ file[at[w]] = None /\ st[n] = "unused" /\ cur[w] = None
      /\ pc' = [pc EXCEPT ![w] = "write"]
      /\ UNCHANGED <<stolen, alive, idle, lost>>
  BY <1>t, <1>1 DEF Create, Used, Goto, procs, HandInv, NoSession
<1>3. \A q \in Procs : Kept(q)' = Kept(q) /\ (Once(q)' <=> Once(q)) /\ n \notin Kept(q)
  BY <1>t, <1>2 DEF Kept, Once, HandInv
<1>4. \A v \in Workers : cur[v] # n
  BY <1>t, <1>2, Nulls DEF HandInv
<1>5. \A i \in Tokens : file[i] # n
  BY <1>t, <1>2 DEF FileInv
<1>6. /\ \A s \in Sess \ {n} : st'[s] = st[s] /\ tok'[s] = tok[s] /\ maker'[s] = maker[s]
      /\ st'[n] = "new" /\ tok'[n] = at[w] /\ maker'[n] = w
      /\ \A i \in Tokens \ {at[w]} : file'[i] = file[i]
      /\ file'[at[w]] = n
      /\ cur'[w] = n /\ pc'[w] = "write"
      /\ \A v \in Workers \ {w} : cur'[v] = cur[v] /\ pc'[v] = pc[v]
  BY <1>t, <1>1, <1>2
<1>7. \A q \in Procs : \A s \in Kept(q) : s \in Sess
  BY ElementOfSeq, LenProperties DEF Kept, IInv, TypeOK
<1>8. \A s \in Sess : tok[s] \in Tokens
  BY <1>t, ProcAssumption, TokenZero DEF ProcAssumption
<1>9. \A s \in Sess \ {n} : Pid(s)' = Pid(s) /\ (Backed(s) => Backed(s)')
  BY <1>2, <1>6, <1>8, Nulls DEF Pid, Backed
<1>10. Pid(n)' = ProcOf[w] /\ Backed(n)'
  BY <1>6 DEF Pid, Backed
<1>11. HandInv'
  <2>1. ASSUME NEW v \in Workers
        PROVE  /\ pc'[v] \in NoSession <=> cur'[v] = None
               /\ cur'[v] # None => st'[cur'[v]] # "unused" /\ ProcOf[maker'[cur'[v]]] = ProcOf[v]
               /\ pc'[v] = "untoken" => st'[cur'[v]] = "closed"
               /\ pc'[v] = "abort" => \A i \in Tokens : file'[i] # cur'[v]
    <3>1. CASE v = w
      BY <1>1, <1>6, <3>1, Nulls DEF NoSession
    <3>2. CASE v # w
      <4>1. cur[v] \in (Sess \ {n}) \cup {None}
        BY <1>t, <1>4
      <4>2. pc[v] = "abort" => cur[v] # n
        BY <1>4
      <4> QED
        BY <1>t, <1>6, <3>2, <4>1, <4>2 DEF HandInv, NoSession, Pid
    <3> QED
      BY <3>1, <3>2
  <2>2. ASSUME NEW q \in Procs, NEW s \in Kept(q)' PROVE st'[s] # "unused" /\ Pid(s)' = q
    BY <1>t, <1>3, <1>6, <1>7, <1>9 DEF HandInv
  <2> QED
    BY <2>1, <2>2 DEF HandInv, Pid
<1>12. ApartInv'
  BY <1>t, <1>3, <1>4, <1>6 DEF ApartInv
<1>13. FileInv'
  BY <1>t, <1>5, <1>6 DEF FileInv
<1>14. HoldInv'
  <2>1. ASSUME NEW v \in Workers, cur'[v] # None, pc'[v] # "abort"
        PROVE  file'[tok'[cur'[v]]] = cur'[v] \/ cur'[v] \in stolen'
    <3>1. CASE v = w
      BY <1>6, <3>1
    <3>2. CASE v # w
      BY <1>t, <1>4, <1>6, <1>9, <2>1, <3>2 DEF HoldInv, Backed
    <3> QED
      BY <3>1, <3>2
  <2>2. ASSUME NEW q \in Procs, NEW s \in Kept(q)' PROVE Backed(s)'
    BY <1>t, <1>3, <1>7, <1>9 DEF HoldInv
  <2> QED
    BY <2>1, <2>2 DEF HoldInv, Backed
<1>15. OpenInv'
  <2>1. ASSUME NEW s \in Sess, st'[s] = "up"
        PROVE  Backed(s)' \/ \E v \in Workers : pc'[v] = "abort" /\ cur'[v] = s
    <3>1. s # n /\ st[s] = "up"
      BY <1>6, <2>1
    <3>2. CASE Backed(s)
      BY <1>9, <3>1, <3>2
    <3>3. ASSUME NEW v \in Workers, pc[v] = "abort", cur[v] = s
          PROVE  pc'[v] = "abort" /\ cur'[v] = s
      BY <1>2, <1>6, <3>3
    <3> QED
      BY <1>t, <3>1, <3>2, <3>3 DEF OpenInv
  <2> QED
    BY <2>1 DEF OpenInv
<1>16. LeakInv'
  <2>1. ASSUME NEW i \in Tokens, file'[i] \in Sess, ProcOf[maker'[file'[i]]] \in alive'
        PROVE  \/ \E v \in Workers : cur'[v] = file'[i]
               \/ \E q \in Procs : file'[i] \in Kept(q)'
               \/ file'[i] \in lost'
    <3>1. CASE i = at[w]
      BY <1>6, <3>1
    <3>2. CASE i # at[w]
      <4>1. file'[i] = file[i] /\ file[i] \in Sess \ {n} /\ Pid(file[i]) \in alive
        BY <1>2, <1>5, <1>6, <2>1, <3>2 DEF Pid
      <4>2. \A v \in Workers : cur[v] = file[i] => cur'[v] = file[i]
        BY <1>2, <1>6, <4>1, Nulls
      <4> QED
        BY <1>t, <1>2, <1>3, <4>1, <4>2 DEF LeakInv
    <3> QED
      BY <3>1, <3>2
  <2> QED
    BY <2>1 DEF LeakInv, Pid
<1> QED
  BY <1>11, <1>12, <1>13, <1>14, <1>15, <1>16 DEF SessInv

\* A step that leaves the files alone keeps the invariant if sessions open
\* only where they are backed and no file loses its session.
LEMMA FilesStay ==
  ASSUME IInv, TypeOK', ApartInv', UNCHANGED <<file, stolen, tok, maker>>, alive' \subseteq alive,
         \A s \in Sess :
           /\ st'[s] = "unused" <=> st[s] = "unused"
           /\ st'[s] = "up" /\ st[s] # "up" => \E v \in Workers : cur[v] = s /\ pc[v] # "abort",
         \A v \in Workers :
           /\ pc'[v] \in NoSession <=> cur'[v] = None
           /\ cur'[v] # None => cur'[v] = cur[v] /\ (pc'[v] = "abort" <=> pc[v] = "abort")
           /\ pc'[v] = "untoken" => st'[cur'[v]] = "closed"
           /\ pc[v] = "abort" => \/ pc'[v] = "abort" /\ cur'[v] = cur[v]
                                 \/ st'[cur[v]] # "up",
         \A q \in Procs : \A s \in Kept(q)' :
           \/ s \in Kept(q)
           \/ \E v \in Workers : ProcOf[v] = q /\ cur[v] = s /\ pc[v] # "abort",
         \A s \in Sess : \/ \A i \in Tokens : file[i] # s
                         \/ Pid(s) \notin alive'
                         \/ /\ \A v \in Workers : cur[v] # s
                            /\ \A q \in Procs : s \notin Kept(q)
                            /\ s \notin lost
                         \/ \E v \in Workers : cur'[v] = s
                         \/ \E q \in Procs : s \in Kept(q)'
                         \/ s \in lost'
  PROVE  SessInv'
<1>1. \A s : Pid(s)' = Pid(s) /\ (Backed(s)' <=> Backed(s))
  BY DEF Pid, Backed
<1>2. /\ HandInv /\ FileInv /\ HoldInv /\ OpenInv /\ LeakInv
      /\ \A v \in Workers : cur[v] \in Sess \cup {None} /\ cur'[v] \in Sess \cup {None}
  BY DEF IInv, TypeOK
<1>3. \A q \in Procs : \A s \in Kept(q)' : s \in Sess
  BY ElementOfSeq, LenProperties DEF Kept, TypeOK
<1>4. HandInv'
  <2>1. ASSUME NEW v \in Workers
        PROVE  /\ cur'[v] # None => st'[cur'[v]] # "unused" /\ ProcOf[maker'[cur'[v]]] = ProcOf[v]
               /\ pc'[v] = "abort" => \A i \in Tokens : file'[i] # cur'[v]
    BY <1>2, Nulls DEF HandInv, Pid, NoSession
  <2>2. ASSUME NEW q \in Procs, NEW s \in Kept(q)' PROVE st'[s] # "unused" /\ Pid(s)' = q
    <3>1. s \in Sess
      BY <1>3
    <3> QED
      BY <1>1, <1>2, <3>1, Nulls DEF HandInv
  <2> QED
    BY <2>1, <2>2 DEF HandInv, Pid
<1>5. FileInv'
  BY <1>2 DEF FileInv
<1>6. HoldInv'
  <2>1. ASSUME NEW v \in Workers, cur'[v] # None, pc'[v] # "abort"
        PROVE  file'[tok'[cur'[v]]] = cur'[v] \/ cur'[v] \in stolen'
    BY <1>2, <2>1 DEF HoldInv, Backed
  <2>2. ASSUME NEW q \in Procs, NEW s \in Kept(q)' PROVE Backed(s)'
    <3>1. s \in Sess
      BY <1>3
    <3> QED
      BY <1>1, <1>2, <3>1, Nulls DEF HoldInv
  <2> QED
    BY <2>1, <2>2 DEF HoldInv, Backed
<1>7. OpenInv'
  <2>1. ASSUME NEW s \in Sess, st'[s] = "up"
        PROVE  Backed(s)' \/ \E v \in Workers : pc'[v] = "abort" /\ cur'[v] = s
    <3>1. CASE st[s] # "up"
      BY <1>1, <1>2, <2>1, <3>1, Nulls DEF HoldInv
    <3>2. CASE st[s] = "up"
      BY <1>1, <1>2, <2>1, <3>2 DEF OpenInv
    <3> QED
      BY <3>1, <3>2
  <2> QED
    BY <2>1 DEF OpenInv
<1>8. LeakInv'
  <2>1. ASSUME NEW i \in Tokens, file[i] \in Sess, Pid(file[i]) \in alive'
        PROVE  \/ \E v \in Workers : cur'[v] = file[i]
               \/ \E q \in Procs : file[i] \in Kept(q)'
               \/ file[i] \in lost'
    <3>1. Pid(file[i]) \in alive
      BY <2>1
    <3> QED
      BY <1>2, <2>1, <3>1 DEF LeakInv
  <2> QED
    BY <1>1, <2>1 DEF LeakInv
<1> QED
  BY <1>4, <1>5, <1>6, <1>7, <1>8 DEF SessInv

\* Connecting, closing and logging out; keeping the session for the next call.
LEMMA FilesStaySteps ==
  ASSUME IInv, TypeOK', NEW w \in Workers,
         \/ Connect(w) \/ Abort(w) \/ Logout(w) \/ Discard(w) \/ LogoutRaises(w)
         \/ Release(w) /\ pc'[w] # "logout"
  PROVE  SessInv'
<1>t. /\ pc \in [Workers -> PC] /\ cur \in [Workers -> Sess \cup {None}]
      /\ st \in [Sess -> {"unused", "new", "up", "dead", "closed"}]
      /\ ProcOf \in [Workers -> Procs] /\ HandInv /\ ApartInv
  BY ProcAssumption DEF IInv, TypeOK, ProcAssumption
<1>k. \A q \in Procs : None \notin Kept(q)
  BY ElementOfSeq, LenProperties, Nulls DEF Kept, IInv, TypeOK
<1>i. idle' = idle => \A q \in Procs : Kept(q)' = Kept(q) /\ (Once(q)' <=> Once(q))
  BY DEF Kept, Once
<1>c. cur[w] \in Sess
  BY <1>t DEF HandInv, NoSession, Connect, Abort, Logout, Discard, LogoutRaises, Release
<1> USE DEF Goto, Finish, files, sessions, procs, call
<1>1. CASE Connect(w) \/ Logout(w) \/ Discard(w)
  <2>1. /\ UNCHANGED <<file, stolen, tok, maker, alive, idle, cur, lost>>
        /\ pc[w] \notin NoSession \cup {"abort"}
        /\ \/ pc' = [pc EXCEPT ![w] = "run"] /\ st' = [st EXCEPT ![cur[w]] = "up"]
           \/ pc' = [pc EXCEPT ![w] = "untoken"] /\ st' = [st EXCEPT ![cur[w]] = "closed"]
    BY <1>1 DEF Connect, Logout, Discard, NoSession
  <2>2. ApartInv'
    BY <1>t, <1>i, <2>1 DEF ApartInv
  <2>3. \A s \in Sess \ {cur[w]} : st'[s] = st[s]
    BY <1>t, <2>1
  <2>4. st[cur[w]] # "unused" /\ st'[cur[w]] \in {"up", "closed"}
    BY <1>t, <1>c, <2>1, Nulls DEF HandInv
  <2>5. ASSUME NEW v \in Workers
        PROVE  /\ pc'[v] \in NoSession <=> cur'[v] = None
               /\ cur'[v] # None => cur'[v] = cur[v] /\ (pc'[v] = "abort" <=> pc[v] = "abort")
               /\ pc'[v] = "untoken" => st'[cur'[v]] = "closed"
               /\ pc[v] = "abort" => pc'[v] = "abort" /\ cur'[v] = cur[v]
    <3>1. CASE v = w
      BY <1>t, <1>c, <2>1, <3>1, Nulls DEF NoSession
    <3>2. CASE v # w
      <4>1. cur[v] # None => cur[v] # cur[w] /\ cur[v] \in Sess
        BY <1>t, <3>2 DEF ApartInv
      <4>2. pc'[v] = pc[v] /\ cur'[v] = cur[v]
        BY <1>t, <2>1, <3>2
      <4> QED
        BY <1>t, <2>3, <4>1, <4>2 DEF HandInv, NoSession
    <3> QED
      BY <3>1, <3>2
  <2> QED
    BY <1>i, <2>1, <2>2, <2>3, <2>4, <2>5, FilesStay
<1>2. CASE Abort(w) \/ LogoutRaises(w)
  <2>1. /\ UNCHANGED <<file, stolen, tok, maker, alive, idle>>
        /\ cur' = [cur EXCEPT ![w] = None] /\ pc' = [pc EXCEPT ![w] = "idle"]
        /\ \/ pc[w] = "abort" /\ st' = [st EXCEPT ![cur[w]] = "closed"] /\ lost' = lost
           \/ pc[w] = "logout" /\ st' = st /\ lost' = lost \cup {cur[w]}
    BY <1>2 DEF Abort, LogoutRaises
  <2>2. \A v \in Workers : cur'[v] = IF v = w THEN None ELSE cur[v]
    BY <1>t, <2>1
  <2>3. ApartInv'
    BY <1>t, <1>k, <1>i, <2>1, <2>2 DEF ApartInv
  <2>4. \A s \in Sess : st'[s] = st[s] \/ (s = cur[w] /\ st'[s] = "closed" /\ st[s] # "unused")
    BY <1>t, <1>c, <2>1, Nulls DEF HandInv
  <2>5. ASSUME NEW v \in Workers
        PROVE  /\ pc'[v] \in NoSession <=> cur'[v] = None
               /\ cur'[v] # None => cur'[v] = cur[v] /\ (pc'[v] = "abort" <=> pc[v] = "abort")
               /\ pc'[v] = "untoken" => st'[cur'[v]] = "closed"
               /\ pc[v] = "abort" => \/ pc'[v] = "abort" /\ cur'[v] = cur[v]
                                     \/ st'[cur[v]] # "up"
    <3>1. CASE v = w
      BY <1>t, <1>c, <2>1, <2>2, <3>1 DEF NoSession
    <3>2. CASE v # w
      <4>1. pc'[v] = pc[v] /\ cur'[v] = cur[v] /\ (cur[v] # None => cur[v] \in Sess)
        BY <1>t, <2>1, <2>2, <3>2
      <4> QED
        BY <1>t, <2>4, <4>1 DEF HandInv, NoSession
    <3> QED
      BY <3>1, <3>2
  <2>6. ASSUME NEW s \in Sess
        PROVE  \/ \A i \in Tokens : file[i] # s
               \/ /\ \A v \in Workers : cur[v] # s
                  /\ \A q \in Procs : s \notin Kept(q)
                  /\ s \notin lost
               \/ \E v \in Workers : cur'[v] = s
               \/ \E q \in Procs : s \in Kept(q)'
               \/ s \in lost'
    <3>1. CASE s = cur[w]
      BY <1>t, <2>1, <3>1 DEF HandInv
    <3>2. CASE s # cur[w]
      BY <1>i, <2>1, <2>2, <3>2
    <3> QED
      BY <3>1, <3>2
  <2> QED
    BY <1>i, <2>1, <2>3, <2>4, <2>5, <2>6, FilesStay
<1>3. CASE Release(w) /\ pc'[w] # "logout"
  <2>1. /\ UNCHANGED <<file, stolen, st, tok, maker, alive, lost>>
        /\ cur' = [cur EXCEPT ![w] = None] /\ pc' = [pc EXCEPT ![w] = "idle"]
        /\ pc[w] = "release"
        /\ idle' = [idle EXCEPT ![ProcOf[w]] = Append(@, cur[w])]
    BY <1>3, <1>t DEF Release
  <2>2. \A v \in Workers : cur'[v] = IF v = w THEN None ELSE cur[v]
    BY <1>t, <2>1
  <2>3. /\ \A q \in Procs : Once(q)'
        /\ \A q \in Procs : Kept(q)' = IF q = ProcOf[w] THEN Kept(q) \cup {cur[w]} ELSE Kept(q)
    BY <1>t, <1>c, <2>1, IdleGrows DEF IInv, ApartInv
  <2>4. ApartInv'
    <3>1. \A v \in Workers : \A q \in Procs : cur'[v] \notin Kept(q)'
      BY <1>t, <1>c, <1>k, <2>2, <2>3, Nulls DEF ApartInv
    <3> QED
      BY <1>t, <2>2, <2>3, <3>1 DEF ApartInv
  <2>5. ASSUME NEW v \in Workers
        PROVE  /\ pc'[v] \in NoSession <=> cur'[v] = None
               /\ cur'[v] # None => cur'[v] = cur[v] /\ (pc'[v] = "abort" <=> pc[v] = "abort")
               /\ pc'[v] = "untoken" => st'[cur'[v]] = "closed"
               /\ pc[v] = "abort" => pc'[v] = "abort" /\ cur'[v] = cur[v]
    BY <1>t, <2>1, <2>2 DEF HandInv, NoSession
  <2>6. ASSUME NEW s \in Sess
        PROVE  \/ /\ \A v \in Workers : cur[v] # s
                  /\ \A q \in Procs : s \notin Kept(q)
                  /\ s \notin lost
               \/ \E v \in Workers : cur'[v] = s
               \/ \E q \in Procs : s \in Kept(q)'
               \/ s \in lost'
    BY <1>t, <2>1, <2>2, <2>3
  <2>7. \A q \in Procs : \A s \in Kept(q)' :
           \/ s \in Kept(q)
           \/ \E v \in Workers : ProcOf[v] = q /\ cur[v] = s /\ pc[v] # "abort"
    BY <2>1, <2>3
  <2> QED
    BY <2>1, <2>4, <2>5, <2>6, <2>7, FilesStay
<1> QED
  BY <1>1, <1>2, <1>3

\* A failed connection gives its token back first; nobody else is affected.
LEMMA ConnectRaisesStep ==
  ASSUME IInv, TypeOK', NEW w \in Workers, ConnectRaises(w)
  PROVE  SessInv'
<1>t. /\ pc \in [Workers -> PC] /\ cur \in [Workers -> Sess \cup {None}]
      /\ st \in [Sess -> {"unused", "new", "up", "dead", "closed"}] /\ 0 \in Tokens
      /\ HandInv /\ ApartInv /\ FileInv /\ HoldInv /\ OpenInv /\ LeakInv
  BY TokenLookedAt DEF IInv, TypeOK
<1>c. cur[w] \in Sess /\ pc[w] = "connect"
  BY <1>t DEF HandInv, NoSession, ConnectRaises
<1>1. /\ Unlink({cur[w]}, {cur[w]})
      /\ UNCHANGED <<tok, maker, alive, idle, cur, lost>>
      /\ pc' = [pc EXCEPT ![w] = "abort"]
      /\ \E x \in {"new", "up"} : st' = [st EXCEPT ![cur[w]] = x]
  BY DEF ConnectRaises, Goto, procs, call
<1>2. /\ \A i \in Tokens : file'[i] \in {file[i], None}
      /\ \A i \in Tokens : file'[i] # cur[w]
      /\ \A s \in Sess \ {cur[w]} : Backed(s) => Backed(s)'
  <2> DEFINE S == {cur[w]}
  <2>1. S \in SUBSET Sess /\ Unlink(S, S)
    BY <1>c, <1>1
  <2>2. /\ \A i \in Tokens : file'[i] \in {file[i], None}
        /\ \A s \in S : \A i \in Tokens : file'[i] # s
        /\ \A s \in Sess \ S : Backed(s) => file'[tok[s]] = s \/ s \in stolen'
    <3> HIDE DEF S
    <3> QED
      BY <1>t, <2>1, UnlinkKeeps DEF IInv
  <2> QED
    BY <1>1, <2>2 DEF Backed
<1>3. /\ st'[cur[w]] \in {"new", "up"} /\ \A s \in Sess \ {cur[w]} : st'[s] = st[s]
      /\ pc'[w] = "abort" /\ \A v \in Workers \ {w} : pc'[v] = pc[v]
  BY <1>t, <1>c, <1>1
<1>4. \A q \in Procs : Kept(q)' = Kept(q) /\ (Once(q)' <=> Once(q)) /\ cur[w] \notin Kept(q)
  BY <1>t, <1>1 DEF Kept, Once, ApartInv
<1>5. \A s : Pid(s)' = Pid(s)
  BY <1>1 DEF Pid
<1>6. \A q \in Procs : \A s \in Kept(q) : s \in Sess
  BY ElementOfSeq, LenProperties DEF Kept, IInv, TypeOK
<1>7. \A v \in Workers \ {w} : cur[v] \in (Sess \ {cur[w]}) \cup {None}
  BY <1>t, <1>c, Nulls DEF ApartInv
<1>8. HandInv'
  <2>1. ASSUME NEW v \in Workers
        PROVE  /\ pc'[v] \in NoSession <=> cur'[v] = None
               /\ cur'[v] # None => st'[cur'[v]] # "unused" /\ ProcOf[maker'[cur'[v]]] = ProcOf[v]
               /\ pc'[v] = "untoken" => st'[cur'[v]] = "closed"
               /\ pc'[v] = "abort" => \A i \in Tokens : file'[i] # cur'[v]
    <3>1. CASE v = w
      BY <1>t, <1>c, <1>1, <1>2, <1>3, <3>1, Nulls DEF HandInv, NoSession, Pid
    <3>2. CASE v # w
      <4>1. pc[v] = "abort" => \A i \in Tokens : file'[i] # cur'[v]
        BY <1>t, <1>1, <1>2 DEF HandInv, NoSession
      <4> QED
        BY <1>t, <1>1, <1>3, <1>7, <3>2, <4>1 DEF HandInv, NoSession, Pid
    <3> QED
      BY <3>1, <3>2
  <2>2. ASSUME NEW q \in Procs, NEW s \in Kept(q)' PROVE st'[s] # "unused" /\ Pid(s)' = q
    BY <1>t, <1>3, <1>4, <1>5, <1>6 DEF HandInv
  <2> QED
    BY <2>1, <2>2 DEF HandInv, Pid
<1>9. ApartInv'
  BY <1>t, <1>1, <1>4 DEF ApartInv
<1>10. FileInv'
  BY <1>t, <1>1, <1>2, <1>3, Nulls DEF FileInv
<1>11. HoldInv'
  <2>1. ASSUME NEW v \in Workers, cur'[v] # None, pc'[v] # "abort"
        PROVE  file'[tok'[cur'[v]]] = cur'[v] \/ cur'[v] \in stolen'
    BY <1>t, <1>1, <1>2, <1>3, <1>7, <2>1 DEF HoldInv, Backed
  <2>2. ASSUME NEW q \in Procs, NEW s \in Kept(q)' PROVE Backed(s)'
    BY <1>t, <1>2, <1>4, <1>6 DEF HoldInv
  <2> QED
    BY <2>1, <2>2 DEF HoldInv, Backed
<1>12. OpenInv'
  <2>1. ASSUME NEW s \in Sess, st'[s] = "up"
        PROVE  Backed(s)' \/ \E v \in Workers : pc'[v] = "abort" /\ cur'[v] = s
    <3>1. CASE s = cur[w]
      BY <1>1, <1>3, <3>1
    <3>2. CASE s # cur[w]
      BY <1>t, <1>1, <1>2, <1>3, <2>1, <3>2 DEF OpenInv
    <3> QED
      BY <3>1, <3>2
  <2> QED
    BY <2>1 DEF OpenInv
<1>13. LeakInv'
  BY <1>t, <1>1, <1>2, <1>4, <1>5, Nulls DEF LeakInv
<1> QED
  BY <1>8, <1>9, <1>10, <1>11, <1>12, <1>13 DEF SessInv

\* Closing the pool, the end of a process and a dropped session.
LEMMA OtherSteps ==
  ASSUME IInv, TypeOK',
         \/ \E p \in Procs : CloseIdle(p) \/ Exit(p) \/ Crash(p)
         \/ \E s \in Sess : Drop(s)
  PROVE  SessInv'
<1>t. /\ pc \in [Workers -> PC] /\ cur \in [Workers -> Sess \cup {None}]
      /\ st \in [Sess -> {"unused", "new", "up", "dead", "closed"}]
      /\ ProcOf \in [Workers -> Procs] /\ HandInv /\ ApartInv
  BY ProcAssumption DEF IInv, TypeOK, ProcAssumption
<1>k. \A q \in Procs : Kept(q) \subseteq Sess
  BY ElementOfSeq, LenProperties DEF Kept, IInv, TypeOK
<1> USE DEF files, sessions, procs, call
<1>1. ASSUME NEW p \in Procs, CloseIdle(p),
             /\ st' = [st EXCEPT ![Head(idle[p])] = "closed"]
             /\ Unlink({Head(idle[p])}, {Head(idle[p])})
             /\ idle' = [idle EXCEPT ![p] = Tail(@)] /\ UNCHANGED lost
      PROVE  SessInv'
  <2> DEFINE h == Head(idle[p])
             S == {h}
  <2>1. /\ h \in Kept(p) \cap Sess
        /\ \A q \in Procs : Once(q)'
        /\ \A q \in Procs : Kept(q)' = IF q = p THEN Kept(q) \ {h} ELSE Kept(q)
    BY <1>1, IdleHeadGone DEF CloseIdle, IInv
  <2>2. /\ S \in SUBSET Sess /\ Unlink(S, S) /\ S = {h}
        /\ UNCHANGED <<tok, maker, alive, lost, pc, cur>>
        /\ st' = [st EXCEPT ![h] = "closed"]
    BY <1>1, <2>1 DEF CloseIdle
  <2> HIDE DEF h, S
  <2>3. \A q \in Procs : q # p => h \notin Kept(q)
    BY <1>t, <2>1 DEF HandInv
  <2>4. ApartInv'
    BY <1>t, <2>1, <2>2 DEF ApartInv
  <2>5. \A s \in Sess : st'[s] = IF s \in S THEN "closed" ELSE st[s]
    BY <1>t, <2>2
  <2>6. \A v \in Workers : /\ pc'[v] \in NoSession <=> cur'[v] = None
                           /\ cur'[v] # None => cur'[v] \notin S
    BY <1>t, <2>1, <2>2 DEF HandInv, ApartInv
  <2>7. \A q \in Procs : Kept(q)' = Kept(q) \ S
    BY <2>1, <2>2, <2>3
  <2>8. 0 \in Tokens
    BY TokenZero
  <2> QED
    BY <1>t, <2>2, <2>4, <2>5, <2>6, <2>7, <2>8, ClosedSpares
<1>2. ASSUME NEW p \in Procs, CloseIdle(p),
             /\ idle' = [idle EXCEPT ![p] = <<>>]
             /\ lost' = lost \cup {idle[p][k] : k \in DOMAIN idle[p]} /\ UNCHANGED <<st, files>>
      PROVE  SessInv'
  <2>1. /\ \A q \in Procs : Once(q)'
        /\ \A q \in Procs : Kept(q)' = IF q = p THEN {} ELSE Kept(q)
    BY <1>2, IdleEmptied DEF IInv
  <2>2. /\ UNCHANGED <<file, stolen, st, tok, maker, alive, pc, cur>>
        /\ lost' = lost \cup Kept(p)
    BY <1>2 DEF CloseIdle, Kept
  <2>3. ApartInv'
    BY <1>t, <2>1, <2>2 DEF ApartInv
  <2> QED
    BY <1>t, <2>1, <2>2, <2>3, FilesStay DEF HandInv
<1>3. ASSUME NEW p \in Procs, Exit(p) \/ Crash(p)
      PROVE  SessInv'
  <2>1. /\ UNCHANGED <<file, stolen, tok, maker, lost>> /\ alive' = alive \ {p}
        /\ idle' = [idle EXCEPT ![p] = <<>>]
        /\ st' = [s \in Sess |-> IF s \in Used /\ Pid(s) = p THEN "closed" ELSE st[s]]
        /\ \A v \in Workers : \/ pc'[v] = pc[v] /\ cur'[v] = cur[v]
                              \/ ProcOf[v] = p /\ pc'[v] = "gone" /\ cur'[v] = None
    BY <1>3, <1>t DEF Exit, Crash, Ends
  <2>2. /\ \A q \in Procs : Once(q)'
        /\ \A q \in Procs : Kept(q)' = IF q = p THEN {} ELSE Kept(q)
    BY <2>1, IdleEmptied DEF IInv
  <2>3. ApartInv'
    <3>1. None \notin UNION {Kept(q) : q \in Procs}
      BY <1>k, Nulls
    <3> QED
      BY <1>t, <2>1, <2>2, <3>1 DEF ApartInv
  <2>4. \A s \in Sess : /\ st'[s] = "unused" <=> st[s] = "unused"
                        /\ st'[s] \in {st[s], "closed"}
                        /\ st[s] # "unused" /\ Pid(s) = p => st'[s] = "closed"
    BY <1>t, <2>1 DEF Used
  <2>5. ASSUME NEW v \in Workers
        PROVE  /\ pc'[v] \in NoSession <=> cur'[v] = None
               /\ cur'[v] # None => cur'[v] = cur[v] /\ (pc'[v] = "abort" <=> pc[v] = "abort")
               /\ pc'[v] = "untoken" => st'[cur'[v]] = "closed"
               /\ pc[v] = "abort" => \/ pc'[v] = "abort" /\ cur'[v] = cur[v]
                                     \/ st'[cur[v]] # "up"
    <3>1. cur[v] # None => cur[v] \in Sess /\ st[cur[v]] # "unused" /\ Pid(cur[v]) = ProcOf[v]
      BY <1>t DEF HandInv
    <3>2. CASE pc'[v] = pc[v] /\ cur'[v] = cur[v]
      BY <1>t, <2>4, <3>1, <3>2 DEF HandInv, NoSession
    <3>3. CASE ProcOf[v] = p /\ pc'[v] = "gone" /\ cur'[v] = None
      BY <1>t, <2>4, <3>1, <3>3 DEF HandInv, NoSession
    <3> QED
      BY <2>1, <3>2, <3>3
  <2>6. ASSUME NEW s \in Sess, Pid(s) \in alive'
        PROVE  \/ /\ \A v \in Workers : cur[v] # s
                  /\ \A q \in Procs : s \notin Kept(q)
                  /\ s \notin lost
               \/ \E v \in Workers : cur'[v] = s
               \/ \E q \in Procs : s \in Kept(q)'
               \/ s \in lost'
    <3>1. Pid(s) # p
      BY <2>1, <2>6
    <3>2. ASSUME NEW v \in Workers, cur[v] = s PROVE cur'[v] = s
      BY <1>t, <2>1, <3>1, <3>2, Nulls DEF HandInv
    <3>3. ASSUME NEW q \in Procs, s \in Kept(q) PROVE s \in Kept(q)'
      BY <1>t, <2>2, <3>1, <3>3 DEF HandInv
    <3> QED
      BY <2>1, <3>2, <3>3
  <2>7. \A s \in Sess : st'[s] = "up" => st[s] = "up"
    BY <2>4
  <2>8. alive' \subseteq alive /\ \A q \in Procs : Kept(q)' \subseteq Kept(q)
    BY <2>1, <2>2
  <2> QED
    BY <2>1, <2>3, <2>4, <2>5, <2>6, <2>7, <2>8, FilesStay
<1>4. ASSUME NEW s \in Sess, Drop(s)
      PROVE  SessInv'
  <2>1. /\ UNCHANGED <<file, stolen, tok, maker, alive, idle, lost, pc, cur>>
        /\ st[s] = "up" /\ st' = [st EXCEPT ![s] = "dead"]
    BY <1>4 DEF Drop
  <2>2. \A q \in Procs : Kept(q)' = Kept(q) /\ (Once(q)' <=> Once(q))
    BY <2>1 DEF Kept, Once
  <2>3. ApartInv'
    BY <1>t, <2>1, <2>2 DEF ApartInv
  <2>4. \A x \in Sess : st'[x] = IF x = s THEN "dead" ELSE st[x]
    BY <1>t, <2>1
  <2>5. \A v \in Workers : /\ pc'[v] \in NoSession <=> cur'[v] = None
                           /\ pc'[v] = "untoken" => st'[cur'[v]] = "closed"
    BY <1>t, <2>1, <2>4 DEF HandInv, NoSession
  <2> QED
    BY <2>1, <2>2, <2>3, <2>4, <2>5, FilesStay
<1> QED
  BY <1>1, <1>2, <1>3, <1>4 DEF CloseIdle

-----------------------------------------------------------------------------
(* The results *)

\* The initial states satisfy the invariant.
LEMMA InitInv == Init => IInv
<1> SUFFICES ASSUME Init PROVE IInv
  OBVIOUS
<1>1. \A p \in Procs : idle[p] = <<>> /\ Kept(p) = {} /\ Once(p)
  BY EmptyList, KeptIs DEF Init
<1>2. \A i \in Tokens : file[i] \in {None, Old}
  BY DEF Init
<1>3. TypeOK
  <2>1. file \in [Tokens -> Sess \cup {None, Old}] /\ written \subseteq Tokens
    BY ProcAssumption DEF Init, ProcAssumption
  <2>2. idle \in [Procs -> Seq(Sess)]
    BY EmptyList DEF Init
  <2>3. /\ done \in [Workers -> 0..Batch] /\ sends \in [Workers -> [1..Batch -> Nat]]
        /\ budget \in Nat
    BY BoundAssumption DEF Init, BoundAssumption
  <2> QED
    BY <2>1, <2>2, <2>3 DEF Init, TypeOK, PC
<1>4. SendInv
  BY BoundAssumption DEF Init, SendInv, SendOK, Early, BoundAssumption
<1>5. HandInv /\ ApartInv
  BY <1>1, Nulls DEF Init, HandInv, ApartInv, NoSession
<1>6. FileInv /\ HoldInv /\ OpenInv /\ LeakInv
  BY <1>1, <1>2, Nulls DEF Init, FileInv, HoldInv, OpenInv, LeakInv
<1> QED
  BY <1>3, <1>4, <1>5, <1>6 DEF IInv

\* Every step keeps the invariant.
LEMMA NextInv == IInv /\ [Next]_vars => IInv'
<1> SUFFICES ASSUME IInv, [Next]_vars PROVE IInv'
  OBVIOUS
<1> SUFFICES TypeOK' /\ SendInv' /\ SessInv'
  BY DEF IInv, SessInv
<1>1. ASSUME NEW w \in Workers, RunCommands(w) \/ Step(w) \/ Deadline(w)
      PROVE  TypeOK' /\ SendInv' /\ SessInv'
  <2>1. TypeOK' /\ SendInv'
    BY <1>1, TypeWorker, SendWorker
  <2>2. SessInv'
    BY <1>1, <2>1, StillSteps, StillKeeps, ClosingSteps, JudgeStep, CreateStep, FilesStaySteps,
       ConnectRaisesStep DEF Step
  <2> QED
    BY <2>1, <2>2
<1>2. ASSUME \/ \E p \in Procs : CloseIdle(p) \/ Exit(p) \/ Crash(p)
             \/ \E s \in Sess : Drop(s)
      PROVE  TypeOK' /\ SendInv' /\ SessInv'
  BY <1>2, TypeOthers, SendOthers, OtherSteps
<1>3. ASSUME (\E p \in Procs : Leave(p)) \/ Finished \/ UNCHANGED vars
      PROVE  TypeOK' /\ SendInv' /\ SessInv'
  <2>1. TypeOK' /\ SendInv'
    BY <1>3, TypeOthers, SendOthers
  <2>2. Still
    BY <1>3 DEF Leave, Finished, vars, Still, files, sessions, call
  <2> QED
    BY <2>1, <2>2, StillKeeps
<1> QED
  BY <1>1, <1>2, <1>3 DEF Next

\* Every reachable state satisfies the inductive invariant.
LEMMA Invariance == Spec => []IInv
  BY InitInv, NextInv, PTL DEF Spec

\* What the sessions of calls and pools are called in the properties.
LEMMA Named ==
  /\ \A s : Idle(s) <=> \E p \in Procs : s \in Kept(p)
  /\ \A s : Holds(s) <=> \E w \in Workers : cur[w] = s
  BY DEF Idle, Kept, Holds

\* The variables of the pool and of its calls keep their types.
THEOREM TypeCorrect == Spec => []TypeOK
  BY Invariance, PTL DEF IInv

\* A node never has an open session without a token file, unless somebody
\* removed that file: the limit on sessions is only as good as the files.
THEOREM SessionsHaveTokens == Spec => []OpenSessionsHaveTokens
<1>1. IInv => OpenSessionsHaveTokens
  BY DEF IInv, OpenInv, OpenSessionsHaveTokens, Backed
<1> QED
  BY <1>1, Invariance, PTL

\* A living process never forgets a token file: it blocks others only as long
\* as a call or the pool has the session, or if logging it out raised.
THEOREM TokensReturned == Spec => []NoTokenLeak
<1>1. IInv => NoTokenLeak
  BY Named DEF IInv, LeakInv, NoTokenLeak
<1> QED
  BY <1>1, Invariance, PTL

\* No two calls share a session, and no call shares one with the pool.
THEOREM NoSharedSession == Spec => []SessionsApart
<1>1. IInv => SessionsApart
  <2>1. ASSUME IInv, NEW w \in Workers, cur[w] # None PROVE ~Idle(cur[w])
    BY <2>1, Named DEF IInv, ApartInv
  <2> QED
    BY <2>1 DEF IInv, ApartInv, SessionsApart, Once
<1> QED
  BY <1>1, Invariance, PTL

\* The pool's retry repeats no command that has completed.
THEOREM RetryRepeatsNothingDone == Spec => []CompletedNotResent
<1>1. IInv => CompletedNotResent
  BY DEF IInv, SendInv, SendOK, CompletedNotResent
<1> QED
  BY <1>1, Invariance, PTL

\* A session whose process lives loses its file only to a scan that read
\* another file at that path, or none yet, or to a session that lost its own.
LEMMA TakenStep ==
  ASSUME IInv, [Next]_vars, NEW s \in stolen' \ stolen, Pid(s) \in alive
  PROVE  \/ \E w \in Workers : pc[w] = "judge" /\ at[w] = tok[s] /\ saw[w] # s
         \/ \E x \in stolen : tok[x] = tok[s] /\ (Holds(x) \/ Idle(x))
<1> USE DEF files, sessions, procs, call, scan
<1>t. /\ TypeOK /\ HandInv /\ ApartInv /\ FileInv /\ HoldInv
      /\ cur \in [Workers -> Sess \cup {None}] /\ ProcOf \in [Workers -> Procs]
  BY ProcAssumption DEF IInv, TypeOK, ProcAssumption
<1>u. ASSUME NEW S \in SUBSET Sess, Unlink(S, S), 0 \in Tokens,
             \A x \in S : /\ Holds(x) \/ Idle(x)
                          /\ \A w \in Workers : cur[w] = x => pc[w] # "abort"
      PROVE  \E x \in stolen : tok[x] = tok[s] /\ (Holds(x) \/ Idle(x))
  <2>1. PICK x \in S : tok[x] = tok[s] /\ file[tok[x]] # x
    BY <1>t, <1>u, UnlinkKeeps
  <2>2. Backed(x)
    BY <1>t, <1>u, Named, Nulls DEF HoldInv
  <2> QED
    BY <1>u, <2>1, <2>2 DEF Backed
<1>k. \A q \in Procs : Kept(q) \subseteq Sess
  BY <1>t, ElementOfSeq, LenProperties DEF Kept, TypeOK
<1>1. ASSUME NEW w \in Workers, ScanJudge(w)
      PROVE  pc[w] = "judge" /\ at[w] = tok[s] /\ saw[w] # s
  <2>1. /\ pc[w] = "judge" /\ Stale(w) /\ s = file[at[w]] /\ s \notin {None, Old}
    BY <1>1 DEF ScanJudge
  <2>2. s \in Sess /\ at[w] = tok[s]
    BY <1>t, <2>1, TokenLookedAt DEF TypeOK, FileInv
  <2> QED
    BY <2>1, <2>2, Nulls DEF Stale
<1>2. ASSUME NEW w \in Workers, TakeIdle(w)
      PROVE  \E x \in stolen : tok[x] = tok[s] /\ (Holds(x) \/ Idle(x))
  <2>1. PICK S \in SUBSET Sess : S \subseteq Kept(ProcOf[w]) /\ Unlink(S, S)
    BY <1>t, <1>2, TakeIdleTakes DEF DropIdle
  <2>2. \A x \in S : Idle(x) /\ \A v \in Workers : cur[v] # x
    BY <1>t, <2>1, Named DEF ApartInv
  <2> QED
    BY <1>t, <1>u, <2>1, <2>2, TokenLookedAt
<1>3. ASSUME NEW w \in Workers, NoIdle(w)
      PROVE  \E x \in stolen : tok[x] = tok[s] /\ (Holds(x) \/ Idle(x))
  <2> DEFINE S == Kept(ProcOf[w])
  <2>1. S \in SUBSET Sess /\ Unlink(S, S)
    BY <1>t, <1>k, <1>3 DEF NoIdle, DropIdle, Kept
  <2>2. \A x \in S : Idle(x) /\ \A v \in Workers : cur[v] # x
    BY <1>t, Named DEF ApartInv
  <2> HIDE DEF S
  <2> QED
    BY <1>t, <1>u, <2>1, <2>2, TokenLookedAt
<1>4. ASSUME NEW w \in Workers, ConnectRaises(w) \/ ReleaseToken(w)
      PROVE  \E x \in stolen : tok[x] = tok[s] /\ (Holds(x) \/ Idle(x))
  <2> DEFINE S == {cur[w]}
  <2>1. pc[w] \in {"connect", "untoken"} /\ cur[w] \in Sess /\ Unlink(S, S)
    BY <1>t, <1>4 DEF ConnectRaises, ReleaseToken, HandInv, NoSession
  <2>2. \A x \in S : Holds(x) /\ \A v \in Workers : cur[v] = x => pc[v] # "abort"
    BY <1>t, <2>1, Nulls DEF Holds, ApartInv
  <2>3. S \in SUBSET Sess
    BY <2>1
  <2> HIDE DEF S
  <2> QED
    BY <1>t, <1>u, <2>1, <2>2, <2>3, TokenLookedAt
<1>5. ASSUME NEW p \in Procs, CloseIdle(p)
      PROVE  \E x \in stolen : tok[x] = tok[s] /\ (Holds(x) \/ Idle(x))
  <2> DEFINE S == {Head(idle[p])}
  <2>1. Unlink(S, S) /\ idle[p] # <<>> /\ idle' = [idle EXCEPT ![p] = Tail(@)]
    BY <1>5 DEF CloseIdle
  <2>2. Head(idle[p]) \in Kept(p) \cap Sess
    BY <1>t, <2>1, IdleHeadGone
  <2>3. \A x \in S : Idle(x) /\ \A v \in Workers : cur[v] # x
    BY <1>t, <2>2, Named DEF ApartInv
  <2>4. S \in SUBSET Sess
    BY <2>2
  <2> HIDE DEF S
  <2> QED
    BY <1>u, <2>1, <2>3, <2>4, TokenZero
<1>6. ASSUME NEW w \in Workers,
             \/ RunCommands(w) \/ Deadline(w) \/ ScanStart(w) \/ ScanRead(w) \/ ScanEnd(w)
             \/ Create(w) \/ Exists(w) \/ Write(w) \/ Wait(w) \/ Connect(w) \/ Abort(w)
             \/ Send(w) \/ CommandFails(w) \/ Output(w) \/ Release(w)
             \/ Logout(w) \/ LogoutRaises(w) \/ Discard(w)
      PROVE  stolen' = stolen
  BY <1>6 DEF RunCommands, Deadline, ScanStart, ScanRead, ScanEnd, Create, Exists, Write, Wait,
     Connect, Abort, Send, CommandFails, Output, Release, Logout, LogoutRaises, Discard
<1>7. ASSUME \/ \E p \in Procs : Leave(p) \/ Exit(p) \/ Crash(p)
             \/ \E x \in Sess : Drop(x)
             \/ Finished \/ UNCHANGED vars
      PROVE  stolen' = stolen
  BY <1>7 DEF Leave, Exit, Crash, Ends, Drop, Finished, vars
<1> QED
  BY <1>1, <1>2, <1>3, <1>4, <1>5, <1>6, <1>7 DEF Next, Step

\* The race in which a process takes another one's token is the only one: a
\* scan acts on a file that was replaced or not yet written when it was read.
THEOREM TokensTakenByRace == Spec => TakenOnlyOnOutdatedView
<1>1. IInv /\ [Next]_vars =>
        [\A s \in stolen' \ stolen : Pid(s) \in alive =>
           \/ \E w \in Workers : pc[w] = "judge" /\ at[w] = tok[s] /\ saw[w] # s
           \/ \E x \in stolen : tok[x] = tok[s] /\ (Holds(x) \/ Idle(x))]_vars
  BY TakenStep
<1> QED
  BY <1>1, Invariance, PTL DEF Spec, TakenOnlyOnOutdatedView

-----------------------------------------------------------------------------
(* What a waiter has found *)

\* A call in progress runs in a process that lives and does not leave.
WorkInv == \A w \in Workers : pc[w] \notin {"idle", "gone"} => ProcOf[w] \in alive \ leaving

\* The files of those who were dead when the scan of w began.
Fouled(w) == {i \in Tokens : file[i] = Old \/ (file[i] \in Sess /\ Pid(file[i]) \in deadThen[w])}

\* A scan has each of them still to read, or is about to remove it; then none is left.
ScanOK(w) ==
  /\ deadThen[w] \cap alive = {}
  /\ saw[w] \in Sess => st[saw[w]] # "unused"
  /\ pc[w] = "glob" => Fouled(w) \subseteq todo[w]
  /\ pc[w] = "judge" => Fouled(w) \subseteq todo[w] \cup {at[w]} /\ (at[w] \in Fouled(w) => Stale(w))
  /\ pc[w] \in {"try", "full"} => Fouled(w) = {}
ScanInv == \A w \in Workers : ScanOK(w)

\* The waiter's own steps change these.
Scanning == {"glob", "judge", "try", "full"}

\* Files come from Create alone, and a session keeps its maker.
LEMMA FileSteps ==
  ASSUME TypeOK, [Next]_vars
  PROVE  /\ alive' \subseteq alive
         /\ \A s \in Sess : st[s] # "unused" => st'[s] # "unused" /\ maker'[s] = maker[s]
         /\ \/ maker' = maker /\ \A i \in Tokens : file'[i] \in {file[i], None}
            \/ \E v \in Workers : Create(v)
<1> USE DEF files, sessions, procs, call, scan
<1>1. ASSUME NEW v \in Workers, Create(v)
      PROVE  alive' \subseteq alive /\ \A s \in Sess : st[s] # "unused" => st'[s] # "unused" /\ maker'[s] = maker[s]
  BY <1>1 DEF Create, Used, TypeOK
<1>2. ASSUME NEW v \in Workers, ScanJudge(v)
      PROVE  /\ alive' = alive /\ st' = st /\ maker' = maker
             /\ \A i \in Tokens : file'[i] \in {file[i], None}
  BY <1>2 DEF ScanJudge, TypeOK
<1>3. ASSUME NEW v \in Workers, RunCommands(v) \/ ScanStart(v) \/ ScanRead(v) \/ ScanEnd(v) \/ Exists(v) \/ Write(v)
               \/ Wait(v) \/ Deadline(v) \/ Send(v) \/ CommandFails(v) \/ Output(v) \/ Release(v) \/ LogoutRaises(v)
      PROVE  alive' = alive /\ st' = st /\ maker' = maker /\ file' = file
  BY <1>3 DEF RunCommands, ScanStart, ScanRead, ScanEnd, Exists, Write, Wait, Deadline, Send, CommandFails, Output,
     Release, LogoutRaises
<1>4. ASSUME NEW v \in Workers, Connect(v) \/ Abort(v) \/ Logout(v) \/ Discard(v)
      PROVE  /\ alive' = alive /\ maker' = maker /\ file' = file
             /\ \A s \in Sess : st[s] # "unused" => st'[s] # "unused"
  BY <1>4 DEF Connect, Abort, Logout, Discard, TypeOK
<1>5. ASSUME NEW v \in Workers, TakeIdle(v) \/ NoIdle(v) \/ ConnectRaises(v) \/ ReleaseToken(v)
      PROVE  /\ alive' = alive /\ maker' = maker
             /\ \A s \in Sess : st[s] # "unused" => st'[s] # "unused"
             /\ \A i \in Tokens : file'[i] \in {file[i], None}
  <2>1. CASE TakeIdle(v)
    BY <2>1 DEF TakeIdle, DropIdle, Unlink, TypeOK
  <2>2. CASE NoIdle(v)
    BY <2>2 DEF NoIdle, DropIdle, Unlink, TypeOK
  <2>3. CASE ConnectRaises(v)
    BY <2>3 DEF ConnectRaises, Unlink, TypeOK
  <2>4. CASE ReleaseToken(v)
    BY <2>4 DEF ReleaseToken, Unlink, TypeOK
  <2> QED
    BY <1>5, <2>1, <2>2, <2>3, <2>4
<1>6. ASSUME NEW p \in Procs, CloseIdle(p)
      PROVE  /\ alive' = alive /\ maker' = maker
             /\ \A s \in Sess : st[s] # "unused" => st'[s] # "unused"
             /\ \A i \in Tokens : file'[i] \in {file[i], None}
  BY <1>6 DEF CloseIdle, Unlink, TypeOK
<1>7. ASSUME \/ \E p \in Procs : Leave(p) \/ Exit(p) \/ Crash(p)
             \/ \E x \in Sess : Drop(x)
             \/ Finished \/ UNCHANGED vars
      PROVE  /\ alive' \subseteq alive /\ maker' = maker /\ file' = file
             /\ \A s \in Sess : st[s] # "unused" => st'[s] # "unused"
  BY <1>7 DEF Leave, Exit, Crash, Ends, Drop, Finished, vars, TypeOK
<1> QED
  BY <1>1, <1>2, <1>3, <1>4, <1>5, <1>6, <1>7 DEF Next, Step

\* Nobody else touches what a scan is doing, but a crash ends it.
LEMMA ScansApart ==
  ASSUME TypeOK, [Next]_vars, NEW w \in Workers
  PROVE  \/ /\ pc'[w] = pc[w] /\ todo'[w] = todo[w] /\ at'[w] = at[w] /\ saw'[w] = saw[w]
            /\ deadThen'[w] = deadThen[w]
         \/ /\ pc'[w] \notin Scanning /\ saw'[w] = saw[w] /\ deadThen'[w] \in {deadThen[w], {}}
         \/ ScanStart(w) \/ ScanRead(w) \/ ScanJudge(w) \/ ScanEnd(w) \/ Exists(w)
<1> USE DEF files, sessions, procs, call, scan, Goto, Scanning
<1>1. ASSUME NEW v \in Workers, v # w, RunCommands(v) \/ Step(v) \/ Deadline(v)
      PROVE  /\ pc'[w] = pc[w] /\ todo'[w] = todo[w] /\ at'[w] = at[w] /\ saw'[w] = saw[w]
             /\ deadThen'[w] = deadThen[w]
  <2>1. CASE RunCommands(v) \/ ScanStart(v) \/ ScanRead(v) \/ ScanJudge(v) \/ ScanEnd(v) \/ Deadline(v)
    BY <1>1, <2>1 DEF RunCommands, ScanStart, ScanRead, ScanJudge, ScanEnd, Deadline, TypeOK
  <2>2. CASE Create(v) \/ Exists(v) \/ Write(v) \/ Wait(v)
    BY <1>1, <2>2 DEF Create, Exists, Write, Wait, Finish, TypeOK
  <2>3. CASE TakeIdle(v) \/ NoIdle(v) \/ Connect(v) \/ ConnectRaises(v) \/ Abort(v)
    BY <1>1, <2>3 DEF TakeIdle, NoIdle, Connect, ConnectRaises, Abort, Finish, TypeOK
  <2>4. CASE Send(v) \/ CommandFails(v) \/ Output(v) \/ Release(v)
    BY <1>1, <2>4 DEF Send, CommandFails, Raises, Output, Release, Finish, TypeOK
  <2>5. CASE Logout(v) \/ LogoutRaises(v) \/ Discard(v) \/ ReleaseToken(v)
    BY <1>1, <2>5 DEF Logout, LogoutRaises, Discard, ReleaseToken, Finish, TypeOK
  <2> QED
    BY <1>1, <2>1, <2>2, <2>3, <2>4, <2>5 DEF Step
<1>2. ASSUME TakeIdle(w) \/ NoIdle(w) \/ Connect(w) \/ ConnectRaises(w) \/ Abort(w) \/ Send(w) \/ CommandFails(w)
             \/ Output(w) \/ Release(w) \/ Logout(w) \/ LogoutRaises(w) \/ Discard(w) \/ ReleaseToken(w)
      PROVE  pc'[w] \notin Scanning /\ saw'[w] = saw[w] /\ deadThen'[w] = deadThen[w]
  <2>1. CASE TakeIdle(w) \/ NoIdle(w) \/ Connect(w) \/ ConnectRaises(w) \/ Abort(w)
    BY <2>1 DEF TakeIdle, NoIdle, Connect, ConnectRaises, Abort, Finish, TypeOK
  <2>2. CASE Send(w) \/ CommandFails(w) \/ Output(w) \/ Release(w)
    BY <2>2 DEF Send, CommandFails, Raises, Output, Release, Finish, TypeOK
  <2>3. CASE Logout(w) \/ LogoutRaises(w) \/ Discard(w) \/ ReleaseToken(w)
    BY <2>3 DEF Logout, LogoutRaises, Discard, ReleaseToken, Finish, TypeOK
  <2> QED
    BY <1>2, <2>1, <2>2, <2>3
<1>3. ASSUME RunCommands(w) \/ Create(w) \/ Write(w) \/ Wait(w)
      PROVE  pc'[w] \notin Scanning /\ saw'[w] = saw[w] /\ deadThen'[w] \in {deadThen[w], {}}
  BY <1>3 DEF RunCommands, Create, Write, Wait, Finish, TypeOK
<1>4. ASSUME Deadline(w)
      PROVE  /\ pc'[w] = pc[w] /\ todo'[w] = todo[w] /\ at'[w] = at[w] /\ saw'[w] = saw[w]
             /\ deadThen'[w] = deadThen[w]
  BY <1>4 DEF Deadline
<1>5. ASSUME NEW p \in Procs, Crash(p)
      PROVE  /\ pc'[w] = "gone" \/ pc'[w] = pc[w]
             /\ todo' = todo /\ at' = at /\ saw' = saw /\ deadThen' = deadThen
  BY <1>5 DEF Crash, Ends
<1>6. ASSUME \/ \E p \in Procs : Leave(p) \/ CloseIdle(p) \/ Exit(p)
             \/ \E x \in Sess : Drop(x)
             \/ Finished \/ UNCHANGED vars
      PROVE  pc' = pc /\ todo' = todo /\ at' = at /\ saw' = saw /\ deadThen' = deadThen
  BY <1>6 DEF Leave, CloseIdle, Exit, Ends, Drop, Finished, vars
<1> QED
  BY <1>1, <1>2, <1>3, <1>4, <1>5, <1>6 DEF Next, Step

\* A process that works is there, and goes on being there.
LEMMA WorkStep == ASSUME TypeOK, WorkInv, [Next]_vars PROVE WorkInv'
<1> USE DEF files, sessions, procs, call, scan, Goto
<1>a. ASSUME NEW v \in Workers, RunCommands(v) \/ Step(v) \/ Deadline(v)
      PROVE  /\ alive' = alive /\ leaving' = leaving
             /\ \E label : pc' = [pc EXCEPT ![v] = label]
             /\ pc[v] = "idle" => ProcOf[v] \in alive \ leaving
             /\ pc[v] # "gone"
  <2>1. CASE RunCommands(v) \/ ScanStart(v) \/ ScanRead(v) \/ ScanJudge(v) \/ ScanEnd(v)
    BY <2>1 DEF RunCommands, ScanStart, ScanRead, ScanJudge, ScanEnd
  <2>2. CASE Create(v) \/ Write(v)
    BY <2>2 DEF Create, Write
  <2>3. CASE Exists(v) \/ Wait(v) \/ Deadline(v)
    <3>1. pc = [pc EXCEPT ![v] = pc[v]]
      BY DEF TypeOK
    <3>2. CASE Exists(v)
      BY <3>1, <3>2 DEF Exists
    <3>3. CASE Wait(v)
      BY <3>3 DEF Wait, Finish
    <3>4. CASE Deadline(v)
      BY <3>1, <3>4 DEF Deadline
    <3> QED
      BY <2>3, <3>2, <3>3, <3>4
  <2>4. CASE TakeIdle(v) \/ NoIdle(v) \/ Connect(v) \/ ConnectRaises(v) \/ Abort(v)
    BY <2>4 DEF TakeIdle, NoIdle, Connect, ConnectRaises, Abort, Finish
  <2>5. CASE Send(v) \/ CommandFails(v) \/ Output(v)
    BY <2>5 DEF Send, CommandFails, Raises, Output
  <2>6. CASE Release(v)
    BY <2>6 DEF Release, Finish
  <2>7. CASE Logout(v) \/ LogoutRaises(v) \/ Discard(v)
    BY <2>7 DEF Logout, LogoutRaises, Discard, Finish
  <2>8. CASE ReleaseToken(v)
    BY <2>8 DEF ReleaseToken, Finish
  <2> QED
    BY <1>a, <2>1, <2>2, <2>3, <2>4, <2>5, <2>6, <2>7, <2>8 DEF Step
<1>1. ASSUME NEW v \in Workers, RunCommands(v) \/ Step(v) \/ Deadline(v)
      PROVE  /\ alive' = alive /\ leaving' = leaving /\ ProcOf[v] \in alive \ leaving
             /\ \A w \in Workers : w # v => pc'[w] = pc[w]
  BY <1>1, <1>a DEF WorkInv, TypeOK
<1>2. CASE \E v \in Workers : RunCommands(v) \/ Step(v) \/ Deadline(v)
  BY <1>1, <1>2 DEF WorkInv
<1>3. CASE \E p \in Procs : Crash(p)
  BY <1>3 DEF Crash, Ends, WorkInv, TypeOK
<1>4. CASE \E p \in Procs : Leave(p) \/ CloseIdle(p) \/ Exit(p)
  BY <1>4 DEF Leave, CloseIdle, Exit, Ends, WorkInv, TypeOK
<1>5. CASE (\E x \in Sess : Drop(x)) \/ Finished \/ UNCHANGED vars
  BY <1>5 DEF Drop, Finished, vars, WorkInv
<1> QED
  BY <1>2, <1>3, <1>4, <1>5 DEF Next

\* Nobody who was dead when a scan began leaves a file behind later.
LEMMA NoneFouled ==
  ASSUME TypeOK, FileInv, WorkInv, [Next]_vars, NEW w \in Workers, deadThen[w] \cap alive = {}, deadThen'[w] = deadThen[w]
  PROVE  Fouled(w)' \subseteq Fouled(w)
<1> SUFFICES ASSUME NEW i \in Tokens, file'[i] = Old \/ (file'[i] \in Sess /\ ProcOf[maker'[file'[i]]] \in deadThen[w])
             PROVE  i \in Fouled(w)
  BY DEF Fouled, Pid
<1>1. CASE maker' = maker /\ \A j \in Tokens : file'[j] \in {file[j], None}
  BY <1>1, Nulls DEF Fouled, Pid, Sess
<1>2. ASSUME NEW v \in Workers, Create(v) PROVE i \in Fouled(w)
  <2>1. PICK s \in Sess \ Used : file' = [file EXCEPT ![at[v]] = s] /\ maker' = [maker EXCEPT ![s] = v]
    BY <1>2 DEF Create
  <2>2. ProcOf[v] \in alive
    BY <1>2 DEF Create, WorkInv
  <2>3. CASE i = at[v]
    <3>1. file'[i] = s /\ maker'[s] = v
      BY <2>1, <2>3 DEF TypeOK
    <3> QED
      BY <2>2, <3>1, Nulls DEF Pid, Sess
  <2>4. CASE i # at[v]
    <3>1. file'[i] = file[i]
      BY <2>1, <2>4 DEF TypeOK
    <3>2. file[i] \in Sess => maker'[file[i]] = maker[file[i]]
      BY <2>1 DEF FileInv, Used, TypeOK
    <3> QED
      BY <3>1, <3>2 DEF Fouled, Pid
  <2> QED
    BY <2>3, <2>4
<1> QED
  BY <1>1, <1>2, FileSteps

\* Every step keeps what a scan has found out.
LEMMA ScanStep == ASSUME IInv, WorkInv, ScanInv, [Next]_vars PROVE ScanInv'
<1> SUFFICES ASSUME NEW w \in Workers PROVE ScanOK(w)'
  BY DEF ScanInv
<1> USE DEF files, sessions, procs, call, scan, Goto
<1>t. TypeOK /\ FileInv /\ ScanOK(w)
  BY DEF IInv, ScanInv
<1>a. /\ alive' \subseteq alive
      /\ \A s \in Sess : st[s] # "unused" => st'[s] # "unused" /\ Pid(s)' = Pid(s)
  BY <1>t, FileSteps DEF Pid
<1>b. deadThen'[w] = deadThen[w] => Fouled(w)' \subseteq Fouled(w) /\ deadThen'[w] \cap alive' = {}
  BY <1>t, <1>a, NoneFouled DEF ScanOK
<1>1. CASE /\ pc'[w] = pc[w] /\ todo'[w] = todo[w] /\ at'[w] = at[w] /\ saw'[w] = saw[w]
           /\ deadThen'[w] = deadThen[w]
  <2>1. saw[w] \in Sess => st'[saw[w]] # "unused" /\ maker'[saw[w]] = maker[saw[w]]
    BY <1>t, FileSteps DEF ScanOK
  <2>2. Stale(w) => Stale(w)'
    BY <1>1, <1>a, <2>1 DEF Stale, Pid
  <2> QED
    BY <1>1, <1>t, <1>b, <2>1, <2>2 DEF ScanOK
<1>2. CASE pc'[w] \notin Scanning /\ saw'[w] = saw[w] /\ deadThen'[w] \in {deadThen[w], {}}
  BY <1>2, <1>t, <1>a, <1>b DEF ScanOK, Scanning
<1>3. CASE ScanStart(w)
  <2>1. pc'[w] = "glob" /\ saw' = saw /\ deadThen'[w] = Procs \ alive /\ todo'[w] = {i \in Tokens : file[i] # None}
        /\ file' = file /\ alive' = alive /\ st' = st /\ maker' = maker
    BY <1>3, <1>t DEF ScanStart, TypeOK
  <2>2. Fouled(w)' \subseteq todo'[w]
    BY <2>1, Nulls DEF Fouled, Sess
  <2> QED
    BY <2>1, <2>2, <1>t DEF ScanOK
<1>4. CASE ScanRead(w)
  <2>1. PICK i \in todo[w] : at' = [at EXCEPT ![w] = i] /\ todo' = [todo EXCEPT ![w] = @ \ {i}]
                             /\ saw' = [saw EXCEPT ![w] = IF i \in written THEN file[i] ELSE None]
    BY <1>4 DEF ScanRead
  <2>2. /\ at'[w] = i /\ todo'[w] = todo[w] \ {i} /\ saw'[w] = (IF i \in written THEN file[i] ELSE None) /\ i \in Tokens
        /\ pc[w] = "glob" /\ pc'[w] = "judge" /\ deadThen' = deadThen /\ file' = file /\ alive' = alive /\ st' = st /\ maker' = maker
    BY <1>4, <2>1, <1>t DEF ScanRead, TypeOK
  <2>3. saw'[w] \in Sess => st'[saw'[w]] # "unused"
    BY <2>2, <1>t, Nulls DEF FileInv, Sess
  <2>4. i \in Fouled(w) => Stale(w)'
    BY <2>2, <1>t DEF Fouled, Stale, Pid, ScanOK
  <2>5. Fouled(w)' = Fouled(w)
    BY <2>2 DEF Fouled, Pid
  <2> QED
    BY <2>2, <2>3, <2>4, <2>5, <1>t, <1>b DEF ScanOK
<1>5. CASE ScanJudge(w)
  <2>1. pc[w] = "judge" /\ pc'[w] = "glob" /\ todo' = todo /\ deadThen' = deadThen /\ saw'[w] = None
    BY <1>5, <1>t DEF ScanJudge, TypeOK
  <2>2. Fouled(w)' \subseteq Fouled(w) /\ deadThen'[w] \cap alive' = {}
    BY <2>1, <1>b
  <2>3. at[w] \in Fouled(w) => at[w] \notin Fouled(w)'
    <3>1. SUFFICES ASSUME at[w] \in Fouled(w) PROVE file'[at[w]] = None
      BY Nulls DEF Fouled, Sess
    <3>2. Stale(w)
      BY <3>1, <2>1, <1>t DEF ScanOK
    <3> QED
      BY <3>1, <3>2, <1>5, <1>t DEF ScanJudge, TypeOK, Fouled
  <2> QED
    BY <2>1, <2>2, <2>3, <1>t, Nulls DEF ScanOK, Sess
<1>6. CASE ScanEnd(w)
  <2>1. pc[w] = "glob" /\ todo[w] = {} /\ pc'[w] = "try" /\ saw' = saw /\ deadThen' = deadThen /\ st' = st
    BY <1>6, <1>t DEF ScanEnd, TypeOK
  <2> QED
    BY <2>1, <1>t, <1>b DEF ScanOK
<1>7. CASE Exists(w)
  <2>1. pc[w] = "try" /\ pc'[w] \in {"try", "full"} /\ saw' = saw /\ deadThen' = deadThen /\ st' = st
    BY <1>7, <1>t DEF Exists, TypeOK
  <2> QED
    BY <2>1, <1>t, <1>b DEF ScanOK
<1> QED
  BY <1>1, <1>2, <1>3, <1>4, <1>5, <1>6, <1>7, <1>t, ScansApart

\* Nobody waits, and nobody was dead, at the start.
LEMMA ScanStarts == Init => WorkInv /\ ScanInv
  BY Nulls DEF Init, WorkInv, ScanInv, ScanOK, Sess

\* A call that gives up waiting has seen, in its last scan, to the files of
\* all processes that were dead then: those who hold the tokens were alive.
THEOREM GivesUpToTheLiving == Spec => TimeoutsHaveLivingHolders
<1>1. IInv /\ WorkInv /\ ScanInv /\ [Next]_vars => (WorkInv /\ ScanInv)'
  BY WorkStep, ScanStep DEF IInv
<1>2. ASSUME ScanInv, NEW w \in Workers, pc[w] = "full", NEW i \in 0 .. Max[ProcOf[w]] - 1
      PROVE  /\ file[i] # Old
             /\ file[i] \in Sess => Pid(file[i]) \notin deadThen[w]
  <2>1. i \in Tokens /\ Fouled(w) = {}
    BY <1>2, ProcAssumption DEF ProcAssumption, ScanInv, ScanOK
  <2> QED
    BY <2>1 DEF Fouled
<1>3. ScanInv /\ [Next]_vars =>
        [\A w \in Workers : (pc[w] = "full" /\ pc'[w] = "idle") =>
           \A i \in 0 .. Max[ProcOf[w]] - 1 :
             /\ file[i] # Old
             /\ file[i] \in Sess => Pid(file[i]) \notin deadThen[w]]_vars
  BY <1>2
<1> QED
  BY <1>1, <1>3, ScanStarts, Invariance, PTL DEF Spec, TimeoutsHaveLivingHolders
=============================================================================
