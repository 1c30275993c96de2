------------------------------- MODULE Backfill -------------------------------
(***************************************************************************)
(* Writing the steps of the automated cases back to TestLink               *)
(* (tools/testlink_backfill.py): the metadata of four sources is merged    *)
(* into one text per case, then each selected case is updated, over        *)
(* XML-RPC or by one process of the UseTestlink agent per case.  A request *)
(* may fail with or without effect, and the tool may be killed.            *)
(***************************************************************************)
EXTENDS Naturals, SequencesExt

CONSTANTS
  Endpoints, Records, Catalog, Neox,   \* the case ids each source describes, in its order
  Filter                               \* --case-id, {} for all

Ids == UNION {ToSet(s) : s \in {Endpoints, Records, Catalog, Neox}}
Modes == {"agent", "agent_stop", "preview", "xmlrpc"}
Origins == {"endpoint", "record", "catalog", "neox"}

BackfillAssumption ==
  \A s \in {Endpoints, Records, Catalog, Neox} : s \in Seq(Ids) /\ \A i, j \in DOMAIN s : s[i] = s[j] => i = j

VARIABLES
  mode,      \* how the updates are sent
  todo,      \* cases still to send
  results,   \* results of the agent: <<case, whether its return code was 0>>
  record,    \* disk: the results file, {} before it is written
  exit,      \* "running", "0", "1", "2" or "killed"
  linked,    \* TestLink: which source the text of each case comes from, "old" before
  mute       \* history: TestLink answered without a status and had not updated the case

vars == <<mode, todo, results, record, exit, linked, mute>>

(***************************************************************************)
(* build_backfill_cases: the text of each case by the source it comes from.*)
(***************************************************************************)
Nobody == [c \in Ids |-> "none"]
Assign(origin, ids, cases) ==
  [c \in Ids |-> IF c \in ToSet(ids) THEN origin ELSE cases[c]]
SetDefault(origin, ids, cases) ==
  [c \in Ids |-> IF c \in ToSet(ids) /\ cases[c] = "none" THEN origin ELSE cases[c]]

Merged ==
  Assign("neox", Neox, SetDefault("catalog", Catalog, SetDefault("record", Records, Assign("endpoint", Endpoints, Nobody))))

Selected == {c \in Ids : Filter = {} \/ c \in Filter}

Init ==
  /\ mode \in Modes /\ todo = SetToSeq(Selected) /\ results = {} /\ record = {}
  /\ exit = "running" /\ linked = [c \in Ids |-> "old"] /\ mute = FALSE

Writes(c)  == linked' = [linked EXCEPT ![c] = Merged[c]]
Unwritten  == UNCHANGED linked
Running    == exit = "running" /\ UNCHANGED mode
Next1      == Head(todo)

(* apply_with_testlink_agent: one process per case, whose return code counts;
   a failure ends the batch only on request. *)
RunAgent ==
  /\ Running /\ mode # "xmlrpc" /\ todo # <<>>
  /\ \E ok \in BOOLEAN :
       /\ IF mode = "preview" THEN Unwritten ELSE Writes(Next1) \/ (~ok /\ Unwritten)
       /\ results' = results \union {<<Next1, ok>>}
       /\ todo' = IF ~ok /\ mode = "agent_stop" THEN <<>> ELSE Tail(todo)
  /\ UNCHANGED <<record, exit, mute>>

(* After the last one the results are written and the failures counted. *)
FinishAgent ==
  /\ Running /\ mode # "xmlrpc" /\ todo = <<>>
  /\ record' = results
  /\ exit' = IF \E r \in results : ~r[2] THEN "2" ELSE "0"
  /\ UNCHANGED <<todo, results, linked, mute>>

(* apply_to_testlink: only an exception and an answer whose status is False
   end the batch; an answer without a status counts as an update. *)
SendXmlRpc ==
  /\ Running /\ mode = "xmlrpc" /\ todo # <<>>
  /\ \E answer \in {"ok", "false", "no_status", "raise"} :
       /\ Writes(Next1) \/ (answer # "ok" /\ Unwritten)
       /\ mute' = (mute \/ (answer = "no_status" /\ Unwritten))
       /\ IF answer \in {"false", "raise"} THEN exit' = "1" /\ UNCHANGED todo
          ELSE todo' = Tail(todo) /\ UNCHANGED exit
  /\ UNCHANGED <<results, record>>

FinishXmlRpc ==
  /\ Running /\ mode = "xmlrpc" /\ todo = <<>> /\ exit' = "0"
  /\ UNCHANGED <<todo, results, record, linked, mute>>

Killed ==
  /\ Running /\ exit' = "killed"
  /\ UNCHANGED <<todo, results, record, linked, mute>>

Done == exit # "running"

Tool == RunAgent \/ FinishAgent \/ SendXmlRpc \/ FinishXmlRpc
Next == Tool \/ Killed

Spec == Init /\ [][Next]_vars /\ WF_vars(Tool)
-----------------------------------------------------------------------------
TypeOK ==
  /\ mode \in Modes /\ todo \in Seq(Ids) /\ results \union record \subseteq Ids \X BOOLEAN
  /\ exit \in {"running", "0", "1", "2", "killed"} /\ linked \in [Ids -> Origins \union {"old"}] /\ mute \in BOOLEAN

(* A case gets the text of the most specific source that describes it: the
   NeoX tables, then the endpoint tables, then the registry, then the
   catalogue (testlink_backfill.py:48-63). *)
Origin(c) ==
  CASE c \in ToSet(Neox)      -> "neox"
    [] c \notin ToSet(Neox) /\ c \in ToSet(Endpoints) -> "endpoint"
    [] c \notin ToSet(Neox) \union ToSet(Endpoints) /\ c \in ToSet(Records) -> "record"
    [] OTHER                  -> "catalog"

(* Exit code 0 of a writing run means that every selected case has that text
   in TestLink and no other case was touched, unless TestLink answered one
   update without a status (testlink_backfill.py:645-648). *)
ZeroMeansUpdated ==
  /\ exit = "0" /\ mode # "preview" /\ ~mute => \A c \in Selected : linked[c] = Origin(c)
  /\ \A c \in Ids : linked[c] \in {"old", Origin(c)} /\ (linked[c] # "old" => c \in Selected /\ mode # "preview")

(* The results file names every case the agent has changed, failed ones
   included; a killed run leaves none (testlink_backfill.py:733-753). *)
ChangesAreRecorded ==
  exit \in {"0", "2"} /\ mode # "xmlrpc" =>
     \A c \in Ids : linked[c] # "old" => \E r \in record : r[1] = c

(* The tool ends, by itself or killed. *)
Ends == <>Done
=============================================================================
