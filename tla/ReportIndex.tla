----------------------------- MODULE ReportIndex -----------------------------
(***************************************************************************)
(* The index over the reports of all runs (tools/build_report_index.py):   *)
(* which node a report belongs to, which runs are full, which run stands   *)
(* for a build, which runs are compared and what the comparison lists.     *)
(* Everything is computed anew from the reports, so the state is what the  *)
(* index reads: reports come in, and a maintainer names formal runs.       *)
(* A node has an IP and a name; its report may carry its NODE label.       *)
(***************************************************************************)
EXTENDS Integers, Sequences, FiniteSets

CONSTANTS
  Builds,     \* build directories [line, target], in the order of sort_key
  NodeIds,    \* the nodes, by their NODE label
  IpOf,       \* the IP of each node: several may have had the same one
  Sources,    \* the nodes that report, <<node, whether its label is in the file name>>
  Verdicts,   \* what a run may report: functions from some cases to results
  MaxRuns,    \* bound: reports
  MaxMarks    \* bound: entries of formal_runs.yaml

Cases   == UNION {DOMAIN v : v \in Verdicts}
Results == {"Pass", "Fail", "Skip"}
NameOf  == [n \in NodeIds |-> "name_of_" \o n]

IndexAssumption ==
  /\ Len(Builds) \in Nat /\ DOMAIN Builds = 1..Len(Builds)
  /\ \A v \in Verdicts : \A c \in DOMAIN v : v[c] \in Results
  /\ Sources \subseteq NodeIds \X BOOLEAN /\ {MaxRuns, MaxMarks} \subseteq Nat

VARIABLES
  runs,     \* the reports, in the order of collect_runs within a build
  formal    \* formal_runs.yaml: entries [b, node, run, final], in its order

vars == <<runs, formal>>

Run  == [b : DOMAIN Builds, node : NodeIds, label : BOOLEAN, cases : Verdicts]
Shown == NodeIds \union {NameOf[n] : n \in NodeIds}

Init == runs = <<>> /\ formal = <<>>

(***************************************************************************)
(* Which node a report belongs to, and whether it is full.                 *)
(***************************************************************************)
Ids(rs) == DOMAIN rs
Ip(r)   == IpOf[r.node]
SameIp(rs, ip)   == {i \in Ids(rs) : Ip(rs[i]) = ip}
Labelled(rs, ip) == {i \in SameIp(rs, ip) : rs[i].label}

(* Counter.most_common(1): of those with the highest count the first met. *)
Count(rs, set, n) == Cardinality({i \in set : rs[i].node = n})
MostCommon(rs, set) ==
  LET best == {i \in set : \A j \in set : Count(rs, set, rs[i].node) >= Count(rs, set, rs[j].node)}
  IN rs[CHOOSE i \in best : \A j \in best : i <= j].node

NodeIn(rs, i) ==
  LET labelled == Labelled(rs, Ip(rs[i])) IN
  IF rs[i].label THEN rs[i].node
  ELSE IF labelled # {} THEN MostCommon(rs, labelled) ELSE NameOf[MostCommon(rs, SameIp(rs, Ip(rs[i])))]

Total(r) == Cardinality(DOMAIN r.cases)
Peers(rs, i, same(_, _)) == {j \in Ids(rs) : same(rs[j].b, rs[i].b) /\ NodeIn(rs, j) = NodeIn(rs, i)}

(* FULL_RUN_RATIO of the build's largest and LINE_RUN_RATIO of the line's. *)
Kind(rs, i) ==
  LET inBuild == Peers(rs, i, LAMBDA b, c : b = c)
      inLine  == Peers(rs, i, LAMBDA b, c : Builds[b].line = Builds[c].line)
  IN IF Total(rs[i]) = 0 THEN "empty"
     ELSE IF /\ \A j \in inBuild : 10 * Total(rs[i]) >= 8 * Total(rs[j])
             /\ \A j \in inLine : 2 * Total(rs[i]) >= Total(rs[j])
          THEN "full" ELSE "partial"

(***************************************************************************)
(* Formal runs, the reference run of a build, and the comparisons.         *)
(***************************************************************************)
RunsFor(rs, b, node) == {i \in Ids(rs) : rs[i].b = b /\ NodeIn(rs, i) = node}

(* apply_formal_runs: an entry counts if its run is one of its node; otherwise
   it is warned about. *)
Applies(rs, e) == e.run \in RunsFor(rs, e.b, e.node)
Warned(rs, fs) == {k \in DOMAIN fs : ~Applies(rs, fs[k])}

NoRun == 0
Latest(set) == IF set = {} THEN NoRun ELSE CHOOSE i \in set : \A j \in set : i >= j

(* Later entries for the same run overwrite earlier ones. *)
Formal(rs, fs, i) ==
  LET entries == {k \in DOMAIN fs : fs[k].run = i /\ Applies(rs, fs[k])}
  IN IF entries = {} THEN "none" ELSE IF fs[Latest(entries)].final THEN "final" ELSE "round"

ReferenceRun(rs, fs, b, node) ==
  LET here   == RunsFor(rs, b, node)
      listed == {i \in here : Formal(rs, fs, i) # "none"}
      final  == {i \in here : Formal(rs, fs, i) = "final"}
  IN IF final # {} THEN Latest(final)
     ELSE IF listed # {} THEN Latest(listed)
     ELSE Latest({i \in here : Kind(rs, i) = "full"})

Nodes(rs) == {NodeIn(rs, i) : i \in {j \in Ids(rs) : Kind(rs, j) # "empty"}}

(* default_comparisons: per node and target the latest reference against the
   previous build's, of the same target if there is one. *)
Comparisons(rs, fs, node) ==
  LET ref(b)    == ReferenceRun(rs, fs, b, node)
      with      == {b \in DOMAIN Builds : ref(b) # NoRun}
      of(t)     == {b \in with : Builds[b].target = t}
      before(b) == {c \in with : c < b}
      previous(b) == LET same == before(b) \intersect of(Builds[b].target)
                     IN Latest(IF same # {} THEN same ELSE before(b))
      latest == {Latest(of(Builds[b].target)) : b \in with}
  IN {<<ref(previous(b)), ref(b)>> : b \in {c \in latest : before(c) # {}}}

(* compare_runs. *)
Category(old, new, c) ==
  CASE c \notin DOMAIN old                    -> "added"
    [] c \in DOMAIN old \ DOMAIN new          -> "removed"
    [] c \in DOMAIN old \intersect DOMAIN new ->
         CASE old[c] = "Pass" /\ new[c] = "Fail" -> "regression"
           [] old[c] = "Fail" /\ new[c] = "Fail" -> "still_failing"
           [] old[c] = "Fail" /\ new[c] = "Pass" -> "fixed"
           [] OTHER                              -> "none"

Unstable(rs, i) ==
  LET seen(c) == {rs[j].cases[c] : j \in {k \in RunsFor(rs, rs[i].b, NodeIn(rs, i)) : c \in DOMAIN rs[k].cases}}
  IN {c \in Cases : {"Pass", "Fail"} \subseteq seen(c)}

Compare(rs, pair) ==
  {[case |-> c, category |-> Category(rs[pair[1]].cases, rs[pair[2]].cases, c), unstable |-> c \in Unstable(rs, pair[2])] :
     c \in {d \in DOMAIN rs[pair[1]].cases \union DOMAIN rs[pair[2]].cases :
              Category(rs[pair[1]].cases, rs[pair[2]].cases, d) # "none"}}

(***************************************************************************)
(* What happens to the reports.                                            *)
(***************************************************************************)
AddReport ==
  /\ Len(runs) < MaxRuns
  /\ \E b \in DOMAIN Builds, s \in Sources, v \in Verdicts :
       runs' = Append(runs, [b |-> b, node |-> s[1], label |-> s[2], cases |-> v])
  /\ UNCHANGED formal

(* The maintainer names a run under the node the index shows for it. *)
MarkFormal ==
  /\ Len(formal) < MaxMarks
  /\ \E i \in Ids(runs), final \in BOOLEAN :
       formal' = Append(formal, [b |-> runs[i].b, node |-> NodeIn(runs, i), run |-> i, final |-> final])
  /\ UNCHANGED runs

Next == AddReport \/ MarkFormal

Spec == Init /\ [][Next]_vars
-----------------------------------------------------------------------------
TypeOK ==
  /\ runs \in Seq(Run) /\ Len(runs) <= MaxRuns /\ Len(formal) <= MaxMarks
  /\ \A i \in Ids(runs) : NodeIn(runs, i) \in Shown /\ Kind(runs, i) \in {"empty", "partial", "full"}

(* A verdict that a maintainer has named stands: new reports, of whatever size
   or node, neither move the formal reference of a build nor drop it, unless
   the index warns that the entry no longer names a run of its node, or stops
   to warn about another one, which counts again from then on
   (build_report_index.py:154-162, 354-372). *)
ReferenceStays ==
  formal' = formal /\ Warned(runs, formal) \subseteq Warned(runs', formal) =>
    \A k \in DOMAIN formal :
      LET e   == formal[k]
          ref == ReferenceRun(runs, formal, e.b, e.node)
      IN Applies(runs, e) => k \in Warned(runs', formal) \/ Formal(runs', formal, ref) = "none"
                             \/ ReferenceRun(runs', formal, e.b, e.node) = ref
FormalReferenceKept == [][ReferenceStays]_vars

(* Every comparison is of two builds of one node, the older one first, and no
   run is compared with itself (build_report_index.py:514-528). *)
ComparedInOrder ==
  \A node \in Nodes(runs) : \A pair \in Comparisons(runs, formal, node) :
    /\ NoRun \notin {pair[1], pair[2]} /\ runs[pair[1]].b < runs[pair[2]].b
    /\ NodeIn(runs, pair[1]) = node /\ NodeIn(runs, pair[2]) = node

(* No failure of the run that stands for the latest build of a target goes
   unlisted, except where the earlier run had neither passed nor failed the
   case; and what is listed as a regression without the mark "unstable" did not
   pass in any run of its build and node (build_report_index.py:411-452). *)
FailuresListed ==
  \A node \in Nodes(runs) : \A pair \in Comparisons(runs, formal, node) :
    LET changes == Compare(runs, pair)
        old == runs[pair[1]].cases
        new == runs[pair[2]].cases
    IN /\ \A c \in DOMAIN new : new[c] = "Fail" =>
            (\E x \in changes : x.case = c) \/ (c \in DOMAIN old /\ old[c] = "Skip")
       /\ \A x \in changes : x.category = "regression" /\ ~x.unstable =>
            \A i \in RunsFor(runs, runs[pair[2]].b, node) :
              x.case \in DOMAIN runs[i].cases => runs[i].cases[x.case] # "Pass"
=============================================================================
