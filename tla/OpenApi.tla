------------------------------- MODULE OpenApi -------------------------------
(***************************************************************************)
(* The comparison of two OpenAPI documents (cases/openapi_contract.py):    *)
(* the live Swagger of an EMS and the YAML file of its release.  Three     *)
(* views of a document, from the finest to the coarsest: the contract that *)
(* is kept as a baseline, the semantic view and the keys, on which the     *)
(* version guard decides.  Releases change either document in any order.   *)
(*                                                                         *)
(* A document is [ops, schemas, shared]: the operations by their path and  *)
(* method, the component schemas by their name, and what the component     *)
(* bodies and responses hold.  A schema is a reference, an object with     *)
(* named properties, an array or a leaf, the last three with parts: what   *)
(* allOf, anyOf, oneOf and additionalProperties hold.  In an operation,    *)
(* "shared" is a reference to a component body or response.                *)
(***************************************************************************)
EXTENDS Integers, Sequences, FiniteSets, Functions

CONSTANTS
  First,       \* the document both sides begin with
  Operations,  \* operations that a release may define
  Schemas,     \* schemas that a release may give to a component
  OpNames, ComponentNames,
  Nesting,     \* every schema of these documents, and those inside them: how deep it nests
  Height,      \* bound: the deepest nesting
  MaxEdits     \* bound: changes to the two documents

VARIABLES
  live,    \* the document of /v3/api-docs
  yaml,    \* the document of the newest file of the version
  edits    \* changes so far

vars == <<live, yaml, edits>>

Empty == [kind |-> "leaf", type |-> "", enum |-> <<>>, format |-> "", parts |-> <<>>]   \* {}

AllSchemas == DOMAIN Nesting

Parts(s) == {s.parts[i] : i \in DOMAIN s.parts}
Inside(s) ==
  CASE s.kind = "object" -> {s.props[f] : f \in DOMAIN s.props} \union Parts(s)
    [] s.kind = "array"  -> {s.items} \union Parts(s)
    [] s.kind = "leaf"   -> Parts(s)
    [] OTHER             -> {}

IsSchema(s) ==
  \/ s.kind \in {"ref", "shared"} /\ s.to \in STRING
  \/ s.kind = "object" /\ DOMAIN s = {"kind", "props", "required", "parts"} /\ DOMAIN s.props \subseteq STRING
  \/ s.kind = "array" /\ DOMAIN s = {"kind", "items", "parts"}
  \/ s.kind = "leaf" /\ DOMAIN s = {"kind", "type", "enum", "format", "parts"}
IsOperation(op) ==
  /\ DOMAIN op = {"parameters", "required", "content"}
  /\ \A x \in op.parameters : DOMAIN x = {"name", "schema"} /\ x.schema \in AllSchemas
  /\ \A c \in DOMAIN op.content : op.content[c] \in AllSchemas
IsDocument(doc) ==
  /\ DOMAIN doc = {"ops", "schemas", "shared"} /\ DOMAIN doc.schemas \subseteq ComponentNames
  /\ \A p \in DOMAIN doc.ops : IsOperation(doc.ops[p])
  /\ \A n \in DOMAIN doc.schemas : doc.schemas[n] \in AllSchemas
  /\ \A n \in DOMAIN doc.shared : doc.shared[n] \in AllSchemas

(* JSON is a tree: what is inside a schema nests less deep. *)
OpenApiAssumption ==
  /\ MaxEdits \in Nat /\ Height \in Nat /\ Nesting \in [AllSchemas -> 0..Height]
  /\ \A s \in AllSchemas : IsSchema(s) /\ \A x \in Inside(s) : x \in AllSchemas /\ Nesting[x] < Nesting[s]
  /\ IsFiniteSet(ComponentNames) /\ ComponentNames \subseteq STRING
  /\ Schemas \subseteq AllSchemas /\ IsDocument(First) /\ \A op \in Operations : IsOperation(op)

(***************************************************************************)
(* References.                                                             *)
(***************************************************************************)
(* _resolve_schema_ref goes on with the schema that a reference names, unless
   it has seen the name or finds none, which both count as {}. *)
Followed(schemas, s, seen) == s.kind = "ref" /\ s.to \notin seen /\ s.to \in DOMAIN schemas

(* _collect_schema_refs: every reference inside, not followed. *)
Refs[s \in AllSchemas] ==
  IF s.kind = "ref" THEN {s.to} ELSE UNION {Refs[x] : x \in Inside(s)}

(* _direct_path_schema_refs: of bodies and responses, not of parameters. *)
DirectRefs(doc) ==
  UNION {UNION {Refs[doc.ops[p].content[c]] : c \in DOMAIN doc.ops[p].content} : p \in DOMAIN doc.ops}

(***************************************************************************)
(* The fields of a schema.                                                 *)
(***************************************************************************)
(* The arguments of a call; each branch goes on with its own copy of seen. *)
Calls == [schema : AllSchemas, prefix : Seq(STRING), seen : SUBSET STRING, required : BOOLEAN]
CallOf(schema) == [schema |-> schema, prefix |-> <<>>, seen |-> {}, required |-> FALSE]
Onwards(schemas, call) ==
  [call EXCEPT !.schema = schemas[call.schema.to], !.seen = @ \union {call.schema.to}]
IntoItems(call)    == [call EXCEPT !.schema = @.items]
IntoField(call, f) ==
  [call EXCEPT !.schema = @.props[f], !.prefix = Append(@, f), !.required = f \in Range(call.schema.required)]

(* _schema_leaf_paths, which follows no parts. *)
LeafPaths(schemas, schema) ==
  LET paths[call \in Calls] ==
        LET s == call.schema
            below(f) == paths[IntoField(call, f)]
        IN CASE Followed(schemas, s, call.seen) -> paths[Onwards(schemas, call)]
             [] s.kind = "object" ->
                  UNION {IF below(f) = {} THEN {Append(call.prefix, f)} ELSE below(f) : f \in DOMAIN s.props}
             [] s.kind = "array"  -> paths[IntoItems(call)]
             [] OTHER             -> IF call.prefix = <<>> THEN {} ELSE {call.prefix}
  IN paths[CallOf(schema)]

(* _schema_leaf_contracts: the same fields with _schema_leaf_signature and
   _with_array_marker; an array without fields is a leaf itself. *)
Leaf(path, s, required) ==
  [path |-> path, required |-> required, item |-> FALSE,
   type |-> IF s.kind = "leaf" THEN s.type ELSE s.kind, enum |-> IF s.kind = "leaf" THEN Range(s.enum) ELSE {}]

LeafContracts(schemas, schema) ==
  LET fields[call \in Calls] ==
        LET s == call.schema
            below(f) == fields[IntoField(call, f)]
            items == fields[IntoItems(call)]
            own(t) == IF call.prefix = <<>> THEN {} ELSE {Leaf(call.prefix, t, call.required)}
        IN CASE Followed(schemas, s, call.seen) -> fields[Onwards(schemas, call)]
             [] s.kind = "object" ->
                  UNION {IF below(f) = {} THEN {Leaf(Append(call.prefix, f), Empty, f \in Range(s.required))} ELSE below(f)
                          : f \in DOMAIN s.props}
             [] s.kind = "array"  -> IF items = {} THEN own(s) ELSE {[x EXCEPT !.item = TRUE] : x \in items}
             [] s.kind = "leaf"   -> own(s)
             [] OTHER             -> own(Empty)
  IN fields[CallOf(schema)]

(***************************************************************************)
(* The three views, and how two documents differ in them.                  *)
(***************************************************************************)
(* _schema_ref_or_type: a schema in an operation is its reference or its
   type, whatever is inside; a reference to a component body or response is
   kept as it is, and nothing looks up what it names. *)
RefOrType(s) ==
  CASE s.kind \in {"ref", "shared"} -> s
    [] s.kind = "leaf" -> [kind |-> "inline", type |-> s.type, format |-> s.format]
    [] OTHER           -> [kind |-> "inline", type |-> s.kind, format |-> ""]
ContentView(op) == [c \in DOMAIN op.content |-> RefOrType(op.content[c])]

KeyPaths(doc) ==
  [p \in DOMAIN doc.ops |-> [parameters |-> {x.name : x \in doc.ops[p].parameters}, content |-> ContentView(doc.ops[p])]]
SemanticPaths(doc) ==
  [p \in DOMAIN doc.ops |->
     [parameters |-> {[x EXCEPT !.schema = RefOrType(@)] : x \in doc.ops[p].parameters},
      required |-> doc.ops[p].required, content |-> ContentView(doc.ops[p])]]

(* _diff_values on two mappings. *)
Changed(f, g) ==
  {k \in DOMAIN f \union DOMAIN g : k \notin DOMAIN f \/ k \notin DOMAIN g \/ f[k] # g[k]}

(* The schemas that an operation of either document refers to; one that
   neither defines is reported too. *)
ChangedSchemas(expected, actual, View(_, _)) ==
  {n \in DirectRefs(expected) \union DirectRefs(actual) :
     \/ n \notin DOMAIN expected.schemas \/ n \notin DOMAIN actual.schemas
     \/ View(expected.schemas, expected.schemas[n]) # View(actual.schemas, actual.schemas[n])}

(* diff_openapi_key_documents and diff_semantic_openapi_documents. *)
KeyDiff(expected, actual) ==
  Changed(KeyPaths(expected), KeyPaths(actual)) \union ChangedSchemas(expected, actual, LeafPaths)
SemanticDiff(expected, actual) ==
  Changed(SemanticPaths(expected), SemanticPaths(actual)) \union ChangedSchemas(expected, actual, LeafContracts)

(* build_openapi_contract: enum and required lose their order, the component
   bodies and responses are left out. *)
SchemaContract[s \in AllSchemas] ==
  LET parts == [i \in DOMAIN s.parts |-> SchemaContract[s.parts[i]]]
  IN CASE s.kind = "object" ->
            [s EXCEPT !.props = [f \in DOMAIN @ |-> SchemaContract[@[f]]], !.required = Range(@), !.parts = parts]
       [] s.kind = "array"  -> [s EXCEPT !.items = SchemaContract[@], !.parts = parts]
       [] s.kind = "leaf"   -> [s EXCEPT !.enum = Range(@), !.parts = parts]
       [] OTHER             -> s
Contract(doc) ==
  [paths |-> [p \in DOMAIN doc.ops |->
      [doc.ops[p] EXCEPT !.parameters = {[x EXCEPT !.schema = SchemaContract[@]] : x \in @},
                         !.content = [c \in DOMAIN @ |-> SchemaContract[@[c]]]]],
   schemas |-> [n \in DOMAIN doc.schemas |-> SchemaContract[doc.schemas[n]]]]

(***************************************************************************)
(* Releases.                                                               *)
(***************************************************************************)
Init == live = First /\ yaml = First /\ edits = 0

Without(f, k)  == [x \in DOMAIN f \ {k} |-> f[x]]
With(f, k, v)  == [x \in DOMAIN f \union {k} |-> IF x = k THEN v ELSE f[x]]
Edited(doc) ==
  {[doc EXCEPT !.ops = With(@, p, op)] : p \in OpNames, op \in Operations}
  \union {[doc EXCEPT !.ops = Without(@, p)] : p \in OpNames}
  \union {[doc EXCEPT !.schemas = With(@, n, s)] : n \in ComponentNames, s \in Schemas}
  \union {[doc EXCEPT !.schemas = Without(@, n)] : n \in ComponentNames}
  \union {[doc EXCEPT !.shared = With(@, n, s)] : n \in ComponentNames, s \in Schemas}

ChangeLive == edits < MaxEdits /\ edits' = edits + 1 /\ live' \in Edited(live) /\ UNCHANGED yaml
ChangeYaml == edits < MaxEdits /\ edits' = edits + 1 /\ yaml' \in Edited(yaml) /\ UNCHANGED live

Next == ChangeLive \/ ChangeYaml
Spec == Init /\ [][Next]_vars
-----------------------------------------------------------------------------
TypeOK == edits \in 0..MaxEdits /\ IsDocument(live) /\ IsDocument(yaml)

Dangling == {n \in DirectRefs(live) \union DirectRefs(yaml) : n \notin DOMAIN live.schemas /\ n \notin DOMAIN yaml.schemas}

(* The views nest: what the keys show to differ the semantic view shows too,
   and two documents with one contract differ in neither, apart from
   references that neither document resolves (openapi_contract.py:168-213). *)
ViewsNest ==
  /\ KeyDiff(live, yaml) \subseteq SemanticDiff(live, yaml)
  /\ Contract(live) = Contract(yaml) => SemanticDiff(live, yaml) \subseteq Dangling

(* The chains of field names that a client meets within k levels of a
   schema by its references, items and properties: the reference definition
   of its keys, which knows nothing of seen. *)
Chains(schemas, schema, depth) ==
  LET chains[k \in 0..depth] ==
        [s \in AllSchemas |->
           IF k = 0 THEN {<<>>}
           ELSE CASE s.kind = "ref" /\ s.to \in DOMAIN schemas -> chains[k - 1][schemas[s.to]]
                  [] s.kind = "array"  -> chains[k - 1][s.items]
                  [] s.kind = "object" ->
                       {<<>>} \union UNION {{<<f>> \o c : c \in chains[k - 1][s.props[f]]} : f \in DOMAIN s.props}
                  [] OTHER -> {<<>>}]
  IN chains[depth][schema]

(* A schema that is not recursive: the components it leads to can be ranked
   so that each refers to lower ones only.  It ends within this many levels. *)
Ends(schemas, s) ==
  \E led \in SUBSET DOMAIN schemas : \E rank \in [led -> 0..Cardinality(ComponentNames) - 1] :
    /\ Refs[s] \intersect DOMAIN schemas \subseteq led
    /\ \A n \in led : \A m \in Refs[schemas[n]] \intersect DOMAIN schemas : m \in led /\ rank[m] < rank[n]
Deepest == (Cardinality(ComponentNames) + 1) * (Height + 1)

(* When the guard finds nothing, both documents have the same operations, and
   a body or response that is a reference to a schema leads by references,
   items and properties to the same fields in both at every depth, unless its
   schema is recursive (openapi_contract.py:191-213, 572-590).  Two things are
   not covered, and the guard does miss keys there: fields inside allOf, anyOf,
   oneOf and additionalProperties, and bodies and responses that refer to a
   component of their own (openapi_contract.py:517-521, 532-534, 605-620). *)
GuardMissesNoKey ==
  KeyDiff(live, yaml) = {} =>
    /\ DOMAIN live.ops = DOMAIN yaml.ops
    /\ \A p \in DOMAIN live.ops : \A c \in DOMAIN live.ops[p].content :
         LET s == live.ops[p].content[c] IN
         s.kind = "ref" /\ Ends(live.schemas, s) /\ Ends(yaml.schemas, s) =>
           Chains(live.schemas, s, Deepest) = Chains(yaml.schemas, s, Deepest)

(* Documents that differ in types, formats, enumerations, required flags or
   compositions only have no key differences, as
   docs/openapi_version_guard.md:72 says of values, if bodies and responses are
   references: the type of an inline schema counts
   (openapi_contract.py:548-569). *)
Bare[s \in AllSchemas] ==
  CASE s.kind = "object" -> [kind |-> "object", props |-> [f \in DOMAIN s.props |-> Bare[s.props[f]]]]
    [] s.kind = "array"  -> [kind |-> "array", items |-> Bare[s.items]]
    [] s.kind = "leaf"   -> Empty
    [] OTHER             -> s
BareDoc(doc) ==
  [ops |-> [p \in DOMAIN doc.ops |->
      [parameters |-> {x.name : x \in doc.ops[p].parameters},
       content |-> [c \in DOMAIN doc.ops[p].content |-> Bare[doc.ops[p].content[c]]]]],
   schemas |-> [n \in DOMAIN doc.schemas |-> Bare[doc.schemas[n]]]]
AllRefs(doc) == \A p \in DOMAIN doc.ops : \A c \in DOMAIN doc.ops[p].content : doc.ops[p].content[c].kind \in {"ref", "shared"}
ValuesAreIgnored ==
  BareDoc(live) = BareDoc(yaml) /\ AllRefs(live) /\ AllRefs(yaml) => KeyDiff(live, yaml) \subseteq Dangling
=============================================================================
