------------------------------- MODULE Archive -------------------------------
(***************************************************************************)
(* Moving loose entries of reports/ into the archive of a version line     *)
(* (tools/archive_reports.py): plan, then with --apply move one entry      *)
(* after the other, then append to the manifest what was moved.  Test runs *)
(* go on writing to reports/ meanwhile, a run may be killed at any step,   *)
(* and the tool may be run again.                                          *)
(***************************************************************************)
EXTENDS Naturals, FiniteSets

CONSTANTS
  Entries,   \* names at the top of reports/
  ActionOf,  \* the plan's action for each: "move", "keep" or "unclassified"
  MaxSize,   \* bound: how far entries grow
  MaxRuns    \* bound: how often the tool is started

ArchiveAssumption ==
  ActionOf \in [Entries -> {"move", "keep", "unclassified"}] /\ MaxSize \in Nat \ {0} /\ MaxRuns \in Nat

VARIABLES
  top,        \* disk: the size of each entry at the top of reports/, 0 without one
  archived,   \* disk: the size of each entry in the archive, 0 without one
  manifest,   \* disk: rows <<name, size>>
  pc,         \* the step of the run
  plan,       \* entries still to move, with the size they were measured at
  moved,      \* entries this run has moved
  problems,   \* entries this run has a problem with
  runs,       \* runs started
  unlisted,   \* history: entries a run had moved when it was killed
  exits       \* history: the exit codes of the runs, with the rows that were false when written

disk == <<top, archived, manifest>>
mind == <<pc, plan, moved, problems>>
vars == <<disk, mind, runs, unlisted, exits>>

Init ==
  /\ top \in [Entries -> 0..1] /\ archived = [e \in Entries |-> 0] /\ manifest = {}
  /\ pc = "idle" /\ plan = {} /\ moved = {} /\ problems = {} /\ runs = 0 /\ unlisted = {} /\ exits = {}

(* A test run creates an entry or adds to it. *)
Writes ==
  /\ \E e \in Entries : top[e] < MaxSize /\ top' = [top EXCEPT ![e] = @ + 1]
  /\ UNCHANGED <<archived, manifest, mind, runs, unlisted, exits>>

(* build_plan measures every entry; without --apply nothing follows. *)
BuildPlan ==
  /\ pc = "idle" /\ runs < MaxRuns /\ runs' = runs + 1
  /\ plan' = {<<e, top[e]>> : e \in {x \in Entries : top[x] > 0 /\ ActionOf[x] = "move"}}
  /\ pc' \in {"apply", "idle"}
  /\ moved' = {} /\ problems' = {}
  /\ UNCHANGED <<disk, unlisted, exits>>

(* One round of apply_plan: a destination that exists or a rename that fails
   is a problem; so is a size that differs, but that entry has been moved. *)
Move ==
  /\ pc = "apply"
  /\ \E item \in plan :
       LET e == item[1]
           trouble == problems' = problems \union {e} /\ UNCHANGED <<disk, moved>>
       IN /\ plan' = plan \ {item}
          /\ \/ archived[e] > 0 /\ trouble
             \/ archived[e] = 0 /\ trouble
             \/ /\ archived[e] = 0 /\ top[e] > 0
                /\ archived' = [archived EXCEPT ![e] = top[e]] /\ top' = [top EXCEPT ![e] = 0]
                /\ problems' = IF archived'[e] # item[2] THEN problems \union {e} ELSE problems
                /\ moved' = moved \union {item} /\ UNCHANGED manifest
  /\ UNCHANGED <<pc, runs, unlisted, exits>>

(* The manifest is written at the end, with what was measured for the plan. *)
Finish ==
  /\ pc = "apply" /\ plan = {} /\ pc' = "idle"
  /\ manifest' = manifest \union moved
  /\ exits' = exits \union {<<IF problems = {} THEN 0 ELSE 1, {m \in moved : archived[m[1]] # m[2]}>>}
  /\ UNCHANGED <<top, archived, plan, moved, problems, runs, unlisted>>

Killed ==
  /\ pc = "apply" /\ pc' = "idle"
  /\ unlisted' = unlisted \union {m[1] : m \in moved}
  /\ UNCHANGED <<disk, plan, moved, problems, runs, exits>>

Next == BuildPlan \/ Move \/ Finish \/ Killed \/ Writes

Spec == Init /\ [][Next]_vars
-----------------------------------------------------------------------------
TypeOK ==
  /\ {top, archived} \subseteq [Entries -> 0..MaxSize] /\ runs \in 0..MaxRuns
  /\ manifest \union plan \union moved \subseteq Entries \X (0..MaxSize)
  /\ problems \union unlisted \subseteq Entries /\ pc \in {"idle", "apply"}

(* Whatever is in the archive is in its manifest or was moved by the run that
   is on or by one that was killed; nobody lists the latter, because the next
   run no longer finds it (archive_reports.py:151-155). *)
ArchivedIsListed ==
  \A e \in Entries : archived[e] > 0 =>
    (\E m \in manifest \union moved : m[1] = e) \/ e \in unlisted

(* A row of the manifest that does not say what was archived makes the run
   that wrote it exit with 1 (archive_reports.py:149-151). *)
FalseRowsAreReported == \A x \in exits : x[2] # {} => x[1] = 1

(* What is archived is never replaced or changed, and what has to stay at the
   top is never moved (archive_reports.py:141-143). *)
EntriesStay ==
  \A e \in Entries : /\ archived[e] > 0 => archived'[e] = archived[e]
                     /\ top'[e] < top[e] => ActionOf[e] = "move" /\ archived'[e] = top[e]
ArchiveIsFinal == [][EntriesStay]_vars
=============================================================================
