------------------------------ MODULE Inventory ------------------------------
(***************************************************************************)
(* The tests that only read: inventory (services/inventory/service.py,     *)
(* tests/test_inventory.py) and services (services/provision/service.py),  *)
(* one GET per test, whose answer is searched for the target's row and     *)
(* compared with what was configured, and the invalid reads                *)
(* (services/invalid_params/service.py), several requests that must all    *)
(* be refused.  Inventory tests of the GE port first wait, once per        *)
(* session, until the port reads as expected; the outcome of that wait is  *)
(* kept for all of them.                                                   *)
(*                                                                         *)
(* An answer is a page: a single row or a list.  A field of a row is the   *)
(* sequence of the values found under its aliases, in the order in which   *)
(* the code tries them, each "right" or "wrong" against the target; "fw"   *)
(* is a service's data as well as a firmware version.                      *)
(***************************************************************************)
EXTENDS Naturals, Sequences

CONSTANTS
  Reads,   \* sequences of tests [case, role]
  Pages,   \* the EMS's answers [status, shape, rows]
  Slot,    \* dut.slot_id
  Cards,   \* slot ids of report_cards
  Polls    \* bound: requests that fit into the wait, or follow the first of an invalid read

ServiceCases == {"ont_service", "ont_service_list", "ge_service", "ge_service_list"}
ReadCases    == {"device", "slot_list", "slot", "port", "ont", "invalid"} \union ServiceCases
Statuses  == {"Success", "No_data", "Fail", "Rejected"}

InventoryAssumption ==
  /\ Reads \subseteq Seq([case : ReadCases, role : {"readwrite", "readonly", "noaccess"}])
  /\ \A p \in Pages : /\ p.status \in Statuses /\ p.shape \in {"single", "list", "other"}
                      /\ Len(p.rows) \in Nat /\ DOMAIN p.rows = 1..Len(p.rows)
                      /\ p.shape = "single" => Len(p.rows) = 1
  /\ Slot \in Cards /\ Polls \in Nat

VARIABLES
  todo,      \* tests still to run
  pc,        \* "next", "wait" or "read"
  n,         \* requests left in the wait or of the invalid read
  service,   \* prepared_ge_service finds a verified GE service
  cache,     \* _GE_READINESS_CACHE and _GE_SETUP_FAILURES: "", "ready" or "failed"
  waits,     \* history: waits that have come to an end
  seen,      \* history: the page the last test or poll has read
  verdicts   \* history: of the tests that have run [case, role, verdict]

vars == <<todo, pc, n, service, cache, waits, seen, verdicts>>

Nothing == [status |-> "Fail", shape |-> "other", rows |-> <<>>]

Init ==
  /\ todo \in Reads /\ pc = "next" /\ n = 0 /\ service \in BOOLEAN /\ cache = ""
  /\ waits = 0 /\ seen = Nothing /\ verdicts = <<>>

(***************************************************************************)
(* Finding the target's row: each operator gives the row in a set, or {}.  *)
(***************************************************************************)
FirstRow(rows, Matches(_)) ==
  {rows[i] : i \in {j \in DOMAIN rows : Matches(rows[j]) /\ \A k \in DOMAIN rows : k < j => ~Matches(rows[k])}}

(* _find_inventory_item: a single row must match too. *)
FindItem(page, Matches(_)) == IF page.shape = "other" THEN {} ELSE FirstRow(page.rows, Matches)

(* find_ont_item: a single row is taken as it is, in a list the first one
   with the serial number or in the target's place. *)
FindOnt(page) ==
  CASE page.shape = "single" -> {page.rows[1]}
    [] page.shape = "list"   -> FirstRow(page.rows, LAMBDA r : r.sn \/ r.at)
    [] OTHER                 -> {}

(* find_ont_service and find_ge_service search the list; ont_service_info and
   ge_service_info take the one service as it is. *)
Form(case) == IF case \in {"ont_service", "ge_service"} THEN "single" ELSE "list"
FindService(case, page) ==
  IF page.shape # Form(case) THEN {}
  ELSE CASE case \in {"ont_service", "ge_service"} -> {page.rows[1]}
         [] case = "ont_service_list"              -> FirstRow(page.rows, LAMBDA r : r.sn)
         [] OTHER                                  -> FirstRow(page.rows, LAMBDA r : r.dev /\ r.at)

(* _slot_items_by_slot: the last row of a slot counts. *)
CardAt(page, slot) ==
  LET hits == {i \in DOMAIN page.rows : page.rows[i].dev /\ page.rows[i].slot = slot}
  IN IF page.shape = "other" THEN {} ELSE {page.rows[i] : i \in {j \in hits : \A k \in hits : k <= j}}

(***************************************************************************)
(* Comparing it: the first alias that is present decides.                  *)
(***************************************************************************)
Right(row, field)   == row[field] # <<>> /\ row[field][1] = "right"
Present(row, field) == row[field] # <<>>

DeviceFields(row) == Right(row, "id") /\ Right(row, "fw")
SlotFields(row)   == Right(row, "id")
CardFields(row)   == Right(row, "state") /\ Right(row, "fw")
PortFields(row)   == Right(row, "id") /\ Right(row, "state") /\ Present(row, "power")

(* _active_ont_fw_image: the image that activeVersion points to, or any
   other version field. *)
ActiveImage(row) ==
  CASE row.active = "1" -> row.versionA
    [] row.active = "2" -> row.versionB
    [] OTHER            -> row.version
OntFields(row) == row.dev /\ row.at /\ row.sn /\ Right(row, "id") /\ ActiveImage(row) = "right"

(* assert_ont_service_fields and assert_ge_service_fields: the configured
   fields must be there, the service data and the state may be left out. *)
Unless(row, field) == Present(row, field) => Right(row, field)
ServiceFields(row) == Right(row, "id") /\ Unless(row, "fw") /\ Unless(row, "state")

IsDevice(r) == r.dev
IsSlot(r)   == r.dev /\ r.slot = Slot
IsPort(r)   == r.dev /\ r.at
Some(rows, Fields(_)) == \E r \in rows : Fields(r)

CardsMatch(page, slots) == \A s \in slots : Some(CardAt(page, s), CardFields)

(* assert_inventory_response_matches_env, assert_provision_get_matches_recorded_data. *)
Matches(case, page) ==
  CASE case = "device"    -> Some(FindItem(page, IsDevice), DeviceFields)
    [] case = "slot_list" -> Some(FindItem(page, IsSlot), SlotFields) /\ CardsMatch(page, Cards)
    [] case = "slot"      -> Some(FindItem(page, IsSlot), SlotFields) /\ CardsMatch(page, {Slot})
    [] case = "port"      -> Some(FindItem(page, IsPort), PortFields)
    [] case = "ont"       -> Some(FindOnt(page), OntFields)
    [] OTHER              -> Some(FindService(case, page), ServiceFields)

(* An invalid read must be refused with the message it expects. *)
Rejects(page)     == page.status = "Rejected"
RefusedAs(page)   == page.status = "No_data"
Shows(case, page) == page.status = "Success" /\ Matches(case, page)
Verdict(test, page) ==
  IF test.role = "noaccess" THEN Rejects(page)
  ELSE IF test.case = "invalid" THEN RefusedAs(page) ELSE Shows(test.case, page)

(***************************************************************************)
(* The tests.                                                              *)
(***************************************************************************)
T == Head(todo)
End(verdict) ==
  /\ verdicts' = Append(verdicts, [case |-> T.case, role |-> T.role, verdict |-> verdict])
  /\ todo' = Tail(todo) /\ pc' = "next"
Go(step) == pc' = step /\ UNCHANGED <<todo, verdicts>>

(* ge_inventory_seed_data: only for the port, and not for noaccess; a service
   that is not there skips the test before the cache is asked. *)
Start ==
  /\ pc = "next" /\ todo # <<>>
  /\ IF T.case \notin {"port", "ge_service", "ge_service_list"} \/ T.role = "noaccess" THEN Go("read")
     ELSE IF ~service THEN End("skip")
     ELSE CASE cache = "ready" \/ T.case # "port" -> Go("read")
            [] OTHER -> IF cache = "failed" THEN End("fail") ELSE Go("wait")
  /\ n' \in IF T.case = "invalid" THEN 0..Polls ELSE {Polls}
  /\ UNCHANGED <<service, cache, waits, seen>>

(* wait_for_ge_port_inventory: one GET after the other until one matches; a
   request that breaks off ends the test and leaves the cache alone. *)
Await ==
  /\ pc = "wait"
  /\ \/ \E page \in Pages :
          /\ seen' = page
          /\ IF Shows("port", page) THEN cache' = "ready" /\ waits' = waits + 1 /\ n' = n /\ Go("read")
             ELSE IF n > 0 THEN n' = n - 1 /\ Go("wait") /\ UNCHANGED <<cache, waits>>
             ELSE cache' = "failed" /\ waits' = waits + 1 /\ n' = n /\ End("fail")
     \/ End("error") /\ UNCHANGED <<cache, waits, seen, n>>
  /\ UNCHANGED service

Read ==
  /\ pc = "read"
  /\ \/ \E page \in Pages :
          /\ seen' = page
          /\ IF ~Verdict(T, page) THEN End("fail") /\ UNCHANGED n
             ELSE IF T.case = "invalid" /\ n > 0 THEN Go("read") /\ n' = n - 1
             ELSE End("pass") /\ UNCHANGED n
     \/ End("error") /\ UNCHANGED <<seen, n>>
  /\ UNCHANGED <<service, cache, waits>>

Done == pc = "next" /\ todo = <<>>
Next == Start \/ Await \/ Read

Spec == Init /\ [][Next]_vars /\ WF_vars(Next)
-----------------------------------------------------------------------------
TypeOK ==
  /\ pc \in {"next", "wait", "read"} /\ n \in 0..Polls /\ cache \in {"", "ready", "failed"} /\ seen \in Pages \union {Nothing}
  /\ \A i \in DOMAIN verdicts : verdicts[i].verdict \in {"pass", "fail", "skip", "error"}

LastTest == verdicts[Len(verdicts)]
Ran == pc = "next" /\ verdicts # <<>> /\ LastTest.role # "noaccess" /\ LastTest.case # "invalid"

(* The rows of a page that belong to the target of a case. *)
Own(case, page) ==
  {i \in DOMAIN page.rows :
     LET r == page.rows[i] IN
     /\ case \in ServiceCases => page.shape = Form(case)
     /\ CASE case = "device"          -> r.dev
          [] case \in {"slot", "slot_list"} -> IsSlot(r)
          [] case \in {"port", "ge_service_list"} -> IsPort(r)
          [] case = "ont"             -> r.dev /\ r.at /\ r.sn
          [] case = "ont_service_list" -> r.sn
          [] OTHER                    -> TRUE}

(* A read test that passed was shown a row of its target; and, since the serial
   number is among the fields an ONT row is compared on, a row that merely lies
   in the ONT's place does not pass (service.py:499-521, 678-693). *)
PassIsShown ==
  Ran /\ LastTest.verdict = "pass" =>
    /\ seen.status = "Success" /\ Own(LastTest.case, seen) # {}
    /\ LastTest.case = "slot_list" => \A s \in Cards : \E i \in DOMAIN seen.rows : seen.rows[i].slot = s /\ CardFields(seen.rows[i])

(* And a page on which every row of the target is right passes, in whatever
   order its rows come: with the exception of an ONT list in which another ONT
   in the same place comes first (service.py:510-520). *)
Faultless(row) == \A f \in {"id", "fw", "state", "power"} : Right(row, f)
ShownPasses ==
  Ran /\ LastTest.verdict = "fail" /\ seen.status = "Success" /\ seen.shape # "other"
     /\ (LastTest.case = "port" => cache # "failed")
  => \/ Own(LastTest.case, seen) = {}
     \/ \E i \in DOMAIN seen.rows : ~Faultless(seen.rows[i]) \/ ActiveImage(seen.rows[i]) # "right"
     \/ LastTest.case = "slot_list" /\ \E s \in Cards : CardAt(seen, s) = {}
     \/ LastTest.case = "ont" /\ \E i \in DOMAIN seen.rows \ Own("ont", seen) : seen.rows[i].at \/ seen.rows[i].sn

(* The port's tests wait once in a session, and agree on what came of it: none
   reads the port after a wait that failed (tests/test_inventory.py:51-68). *)
OneWaitDecides ==
  /\ waits <= 1
  /\ cache = "failed" => \A i \in DOMAIN verdicts : verdicts[i].case = "port" /\ verdicts[i].role # "noaccess" => verdicts[i].verdict # "pass"

(* Every selection of tests ends: the wait is bounded. *)
Ends == <>Done
=============================================================================
