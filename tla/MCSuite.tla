------------------------------ MODULE MCSuite ------------------------------
EXTENDS Suite, Integers, Sequences, TLC

MCCaseOf == <<{"a"}, {"a", "b"}>>
MCRole   == <<"", "readonly">>

MCOnt ==
  {<<"post", "ready", "read", "put", "patch", "delete", "invalid">>, <<"read", "put", "delete">>,
   <<"post", "delete">>, <<"ready", "read", "patch">>, <<"invalid">>}
MCGe == {<<"post", "put", "patch", "delete", "invalid">>, <<"put", "delete">>, <<"post", "delete">>, <<"invalid">>}

(* A template that references a bandwidth profile. *)
MCOrder == <<"bw", "tpl">>
MCBelow == [bw |-> {}, tpl |-> {"bw"}]
Case(op, p) == [op |-> op, p |-> p]
MCWsp ==
  {<<Case("post", "tpl"), Case("patch", "tpl")>>, <<Case("post", "bw"), Case("get", "tpl")>>,
   <<Case("patch", "tpl"), Case("delete", "bw")>>, <<Case("post_invalid", "tpl"), Case("patch_invalid", "bw")>>}
MCWspExisting == {[bw |-> "none", tpl |-> "none"], [bw |-> "yaml", tpl |-> "yaml"], [bw |-> "other", tpl |-> "none"]}

(* Both a multicast profile and the GE interface reference an IGMP profile. *)
MCProfiles == {"igmp", "mcast", "ge"}
MCDirect   == [igmp |-> <<>>, mcast |-> <<"igmp">>, ge |-> <<"igmp">>]
Test(name, x) == [name |-> name, of |-> x]
MCNeo ==
  {<<Test("rejected", "port")>>, <<Test("set_and_clear", "port"), Test("created", "port")>>, <<Test("clear", "port")>>,
   <<Test("errors", "port")>>, <<Test("profile", "mcast")>>, <<Test("profile_min", "mcast"), Test("profile_max", "mcast")>>,
   <<Test("profile_clear", "mcast")>>, <<Test("profile_errors", "mcast")>>, <<Test("ont_create", "mcast")>>,
   <<Test("igmp_bandwidth", "igmp")>>, <<Test("ge_max", "ge")>>, <<Test("ge_variant", "ge"), Test("profile", "igmp")>>,
   <<Test("ont_clear", "ont")>>, <<Test("ont_errors", "ont")>>, <<Test("ont_template", "ont")>>}
MCNeoExisting == {{}, {"igmp", "mcast"}, {"igmp", "ge"}}

(* Lifetimes around one minute, the ninth and the tenth. *)
MCLives == {4, 5, 6, 27, 28, 30, 31, 32, 33}
MCCases == {"readwrite", "other_role", "deleted_session", "bad_login", "bad_session"}

MCAlm ==
  {<<"list", "clear", "history", "by_id", "delete">>, <<"list", "clear", "delete", "lifecycle">>, <<"lifecycle", "noaccess">>}

(* Rows: the target, its neighbours, and rows with one thing wrong. *)
Row(dev, slot, at, sn) ==
  [dev |-> dev, slot |-> slot, at |-> at, sn |-> sn, id |-> <<"right">>, fw |-> <<"right">>, state |-> <<"right">>,
   power |-> <<"right">>, active |-> "1", versionA |-> "right", versionB |-> "wrong", version |-> "wrong"]
Target == Row(TRUE, "1", TRUE, TRUE)
Rows ==
  {Target, Row(TRUE, "2", FALSE, FALSE), Row(FALSE, "1", FALSE, FALSE), [Row(TRUE, "1", TRUE, FALSE) EXCEPT !.id = <<"wrong">>],
   [Target EXCEPT !.fw = <<"wrong", "right">>], [Target EXCEPT !.active = "2"], [Target EXCEPT !.state = <<>>, !.power = <<>>],
   [Row(TRUE, "2", FALSE, FALSE) EXCEPT !.state = <<"wrong">>]}
Page(shape, rows) == [status |-> "Success", shape |-> shape, rows |-> rows]
MCPages ==
  {[status |-> s, shape |-> "other", rows |-> <<>>] : s \in {"Success", "No_data", "Fail", "Rejected"}}
  \union {Page("single", <<r>>) : r \in Rows} \union {Page("list", <<r>>) : r \in Rows}
  \union {Page("list", <<Target, r>>) : r \in Rows} \union {Page("list", <<r, Target>>) : r \in Rows}
Read(case, role) == [case |-> case, role |-> role]
MCReads ==
  {<<Read("port", "readwrite"), Read("port", "readonly"), Read("port", "noaccess")>>,
   <<Read("device", "readwrite"), Read("ont", "readonly")>>, <<Read("slot_list", "readwrite"), Read("slot", "readwrite")>>,
   <<Read("invalid", "readwrite"), Read("ont_service_list", "readwrite"), Read("ont_service", "readonly")>>,
   <<Read("ge_service_list", "readwrite"), Read("ge_service", "readonly"), Read("ge_service", "noaccess")>>}

(* Two builds of one line; two nodes that have had the same IP. *)
MCBuilds  == <<[line |-> 1, target |-> ""], [line |-> 1, target |-> "t"]>>
MCIpOf    == [NODE1 |-> "x", NODE2 |-> "x"]
MCSources == {<<"NODE1", TRUE>>, <<"NODE1", FALSE>>, <<"NODE2", TRUE>>}
MCVerdicts == {[a |-> "Pass", b |-> "Fail"], [a |-> "Fail", b |-> "Skip", c |-> "Pass"]}

MCActionOf == [a |-> "move", b |-> "move", k |-> "keep"]

MCEndpoints == <<"e", "n">>
MCRecords   == <<"e", "r", "n">>
MCCatalog   == <<"c", "r">>
MCNeox      == <<"n">>

(* Documents in which a schema is used by two fields, refers to itself, or is
   composed of others. *)
Ref(n) == [kind |-> "ref", to |-> n]
Shared(n) == [kind |-> "shared", to |-> n]
LeafOf(type, enum) == [kind |-> "leaf", type |-> type, enum |-> enum, format |-> "", parts |-> <<>>]
Object(props, required) == [kind |-> "object", props |-> props, required |-> required, parts |-> <<>>]
ArrayOf(s) == [kind |-> "array", items |-> s, parts |-> <<>>]
Composed(s, t) == [s EXCEPT !.parts = <<t>>]
Str == LeafOf("string", <<>>)
MCSchemas ==
  {Object("x" :> Str, <<>>), Object("x" :> LeafOf("string", <<"a", "b">>), <<"x">>),
   Object("x" :> LeafOf("string", <<"b", "a">>), <<"x">>), Object([x |-> Ref("B"), y |-> Ref("B")], <<"y">>),
   Object([x |-> Ref("B"), y |-> Str], <<"y">>), ArrayOf(Ref("B")), Object("x" :> Ref("A"), <<>>),
   Object("x" :> ArrayOf(Ref("A")), <<>>), Ref("B"), Str, Composed(Object("x" :> Str, <<>>), Ref("B")),
   Composed(LeafOf("", <<>>), Object("x" :> Str, <<>>))}
Op(parameters, required, content) == [parameters |-> parameters, required |-> required, content |-> content]
Par(name, schema) == [name |-> name, schema |-> schema]
Both == [request |-> Ref("A"), ok |-> Ref("B")]
MCOperations ==
  {Op({Par("id", Str)}, TRUE, Both), Op({Par("id", LeafOf("integer", <<>>))}, FALSE, Both),
   Op({Par("id", Str), Par("n", Ref("B"))}, TRUE, [request |-> ArrayOf(Ref("A"))]), Op({}, FALSE, [request |-> Str]),
   Op({}, FALSE, [request |-> Object("z" :> Str, <<>>)]), Op({}, FALSE, [request |-> Ref("A"), ok |-> Shared("B")])}
MCFirst ==
  [ops |-> "post" :> Op({Par("id", Str)}, TRUE, Both),
   schemas |-> [A |-> Object([x |-> Ref("B"), y |-> Ref("B")], <<"y">>), B |-> Object("x" :> Str, <<>>)],
   shared |-> "B" :> Str]
MCAllSchemas ==
  MCSchemas \union {LeafOf("", <<>>), Str, LeafOf("string", <<"a", "b">>), LeafOf("string", <<"b", "a">>), LeafOf("integer", <<>>),
                    Ref("A"), Ref("B"), Shared("B"), ArrayOf(Ref("A")), ArrayOf(Ref("B")), Object("z" :> Str, <<>>)}
MCNesting ==
  LET nests[s \in MCAllSchemas] ==
        CASE Doc!Inside(s) # {} -> 1 + (CHOOSE n \in 0..1 : \A x \in Doc!Inside(s) : nests[x] <= n)
          [] OTHER -> 0
  IN nests

ASSUME Parameters == Assumptions
=============================================================================
