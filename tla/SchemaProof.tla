----------------------------- MODULE SchemaProof -----------------------------
(***************************************************************************)
(* The portable closure proof of an inline JSON Schema and the two work    *)
(* estimates that follow it (formpackage/schema.go, validateFixture-       *)
(* AgainstSchema of formpackage/verify.go): three depth-first passes over  *)
(* the nodes of the schema, each with a memo by pointer, a verdict of its  *)
(* own, and Go's arbitrary order over the children kept in a map.          *)
(*                                                                         *)
(* A node is a number that stands for its canonical JSON Pointer, 1 for    *)
(* "#".  Its record keeps what the passes look at:                         *)
(*   form   "object", "true", "false", "const" (exactly one object const), *)
(*          "policy" (the reviewed map-key policy) or "bad" (no schema)    *)
(*   ill    a keyword, dialect or field name that is forbidden outright    *)
(*   types  the values of "type", {} when it is absent                     *)
(*   lit    what const or enum admit: "absent", "object", "other"          *)
(*   kids   keyword -> name or position -> child; only present keywords    *)
(*   ref    the node its $ref resolves to, NoNode when it does not         *)
(*   size, height   of an exact object const                               *)
(***************************************************************************)
EXTENDS Integers, Sequences, FiniteSets, FiniteSetsExt, SequencesExt

CONSTANTS
  Schemas,    \* the schemas proved
  Fixtures,   \* the fixture values: pointer -> [kind, names, len]
  Names,      \* property names
  Stray,      \* the one no "properties" declares and no map-key policy admits
  MaxDepth,   \* maxSchemaProofDepth
  MaxOps,     \* maxSchemaProofOps
  MaxWork     \* maxSchemaValidationWork

ASSUME LimitsAssumption == MaxDepth \in Nat /\ MaxOps \in Nat \ {0} /\ MaxWork \in Nat \ {0}

NoRef == -1   \* no $ref
NoNode == 0   \* a $ref that does not resolve
Root == 1
Empty == <<>>  \* the function of empty domain

\* A keyword with one child, in the order in which the proof looks at them.
SingleRank ==
  [additionalProperties |-> 1, items |-> 2, contains |-> 3, unevaluatedItems |-> 4,
   unevaluatedProperties |-> 5, propertyNames |-> 6, not |-> 7, if |-> 8, then |-> 9,
   else |-> 10]

\* What is parsed: a finite text, its children nodes; a $ref resolves to a node or
\* not at all, and what is no object (or an exact literal, or the policy) has no
\* keywords.
ASSUME SchemasAssumption ==
  \A s \in Schemas :
    /\ Root \in DOMAIN s /\ DOMAIN s \subseteq Nat \ {NoNode} /\ IsFiniteSet(DOMAIN s)
    /\ \A n \in DOMAIN s :
         /\ s[n].form \in {"object", "true", "false", "const", "policy", "bad"}
         /\ s[n].ref \in DOMAIN s \cup {NoRef, NoNode}
         /\ s[n].size \in Nat /\ s[n].height \in Nat
         /\ s[n].form # "object" => s[n].kids = Empty /\ s[n].ref = NoRef
         /\ \A k \in DOMAIN s[n].kids :
              /\ IsFiniteSet(DOMAIN s[n].kids[k])
              /\ \A i \in DOMAIN s[n].kids[k] : s[n].kids[k][i] \in DOMAIN s
              /\ k \in DOMAIN SingleRank => DOMAIN s[n].kids[k] = {1}
              /\ k = "properties" => Stray \notin DOMAIN s[n].kids[k]

Token == <<"1", "2", "3">>  \* the tokens of array indices

\* The tokens of the values directly within a value.
Within(v) ==
  IF v.kind = "object" THEN v.names
  ELSE IF v.kind = "array" THEN {Token[i] : i \in 1..v.len} ELSE {}

\* A value is a finite tree: a pointer leads to one exactly when its tokens do.
ASSUME FixturesAssumption ==
  \A f \in Fixtures :
    /\ <<>> \in DOMAIN f /\ IsFiniteSet(DOMAIN f)
    /\ DOMAIN f \subseteq Seq(Names \cup {Token[i] : i \in 1..Len(Token)})
    /\ \A p \in DOMAIN f :
         /\ f[p].names \subseteq Names /\ IsFiniteSet(f[p].names) /\ f[p].len \in 0..Len(Token)
         /\ \A a \in Within(f[p]) : Append(p, a) \in DOMAIN f
         /\ \A q \in DOMAIN f :
              IsPrefix(p, q) /\ p # q => \E a \in Within(f[p]) : IsPrefix(Append(p, a), q)

VARIABLES
  schema,   \* the schema: node -> record
  fixture,  \* the fixture value of the last pass
  pass,     \* "proof", "structure", "fixture" (between passes) or "instance"
  memo,     \* the memo of each pass: key -> result
  stack,    \* the calls in progress; the depth of one is its place less 1
  ops,      \* operations of the proof
  verdict   \* "none", "rejected", "accepted", "refused" or "error"

vars == <<schema, fixture, pass, memo, stack, ops, verdict>>

-----------------------------------------------------------------------------
(* The children a pass visits, as edges: the loop of the code they belong to, *)
(* their place in it (0 in a map, whose order is arbitrary) and their key.    *)

Edge(loop, slot, to) == [loop |-> loop, slot |-> slot, to |-> to]

\* "definitions" is visited as "$defs" is.
MapLoop == [defs |-> 1, properties |-> 2, dependentSchemas |-> 3]
SingleLoop == 4
ListLoop == [allOf |-> 5, anyOf |-> 6, oneOf |-> 7, prefixItems |-> 8]
RefLoop == 9

KidsOf(n, keyword) ==
  IF keyword \in DOMAIN schema[n].kids THEN schema[n].kids[keyword] ELSE Empty

ChildrenOf(n, keyword) == {KidsOf(n, keyword)[i] : i \in DOMAIN KidsOf(n, keyword)}

MapEdges(n, keywords) ==
  UNION {{Edge(MapLoop[k], 0, c) : c \in ChildrenOf(n, k)} : k \in keywords}
SingleEdges(n) ==
  UNION {{Edge(SingleLoop, SingleRank[k], c) : c \in ChildrenOf(n, k)} : k \in DOMAIN SingleRank}
ListEdges(n) ==
  UNION {{Edge(ListLoop[k], i, KidsOf(n, k)[i]) : i \in DOMAIN KidsOf(n, k)} :
           k \in DOMAIN ListLoop}
RefEdges(n) == IF schema[n].ref = NoRef THEN {} ELSE {Edge(RefLoop, 0, schema[n].ref)}

\* validateUncached: every child but an additionalProperties of false.
ProofEdges(n) ==
  IF schema[n].form # "object" THEN {}
  ELSE MapEdges(n, DOMAIN MapLoop)
       \cup {e \in SingleEdges(n) : ~(e.slot = 1 /\ schema[e.to].form = "false")}
       \cup ListEdges(n) \cup RefEdges(n)

\* schemaValidationWorkEstimator: definitions run only where referred to.
StructureEdges(n) ==
  MapEdges(n, {"properties", "dependentSchemas"}) \cup SingleEdges(n) \cup ListEdges(n)
    \cup RefEdges(n)

\* The value under a key of the instance estimate: a property name is a string.
ValueAt(pointer, role) ==
  IF role = "property-name" THEN [kind |-> "scalar", names |-> {}, len |-> 0]
  ELSE fixture[pointer]

\* schemaInstanceValidationWorkKey.
InstanceKey(n, pointer, role) == <<n, pointer, role>>

\* schemaInstanceValidationWorkEstimator: each keyword once per property, per
\* element, or once for the value itself.  Child i of keyword k of the node n, on
\* the value at "pointer".
Once(n, loop, slot, k, i, pointer, role) ==
  IF i \in DOMAIN KidsOf(n, k)
  THEN {Edge(loop, slot, InstanceKey(KidsOf(n, k)[i], pointer, role))} ELSE {}

ObjectEdges(n, p, role, names) ==
  LET property(loop, k, i, a) == Once(n, loop, 0, k, i, Append(p, a), role)
      undeclared == names \ DOMAIN KidsOf(n, "properties")
  IN (UNION {property(1, "properties", a, a)
               \cup Once(n, 2, 0, "dependentSchemas", a, p, role) : a \in names})
     \cup (UNION {property(3, "additionalProperties", 1, a) : a \in undeclared})
     \cup (UNION {Once(n, 4, 0, "propertyNames", 1, p \o <<"@propertyName", a>>, "property-name")
                    \cup property(5, "unevaluatedProperties", 1, a) : a \in names})

ArrayEdges(n, p, role, indices) ==
  LET prefix == DOMAIN KidsOf(n, "prefixItems")
      element(loop, k, i, j) == Once(n, loop, j, k, i, Append(p, Token[j]), role)
  IN (UNION {element(6, "prefixItems", j, j) : j \in indices \cap prefix})
     \cup (UNION {element(7, "items", 1, j) : j \in indices \ prefix})
     \cup (UNION {element(8, "contains", 1, j) \cup element(9, "unevaluatedItems", 1, j) :
                    j \in indices})

InstanceEdges(n, p, role) ==
  LET value == ValueAt(p, role)
      same(loop, slot, k, i) == Once(n, loop, slot, k, i, p, role)
  IN (IF value.kind = "object" THEN ObjectEdges(n, p, role, value.names) ELSE {})
     \cup (IF value.kind = "array" THEN ArrayEdges(n, p, role, 1..value.len) ELSE {})
     \cup (UNION {same(10, SingleRank[k], k, 1) : k \in {"not", "if", "then", "else"}})
     \cup (UNION {UNION {same(6 + ListLoop[k], i, k, i) : i \in DOMAIN KidsOf(n, k)} :
                    k \in {"allOf", "anyOf", "oneOf"}})
     \cup {Edge(14, 0, InstanceKey(e.to, p, role)) : e \in RefEdges(n)}

EdgesOf(key) ==
  CASE pass = "proof" -> ProofEdges(key)
    [] pass = "structure" -> StructureEdges(key)
    [] pass = "instance" -> InstanceEdges(key[1], key[2], key[3])

\* The edges that may be visited next: the first loop not finished, and in a
\* list its first place.
NextEdges(left) ==
  {e \in left : \A f \in left : e.loop < f.loop \/ (e.loop = f.loop /\ e.slot <= f.slot)}

-----------------------------------------------------------------------------
(* Object admission.                                                         *)

\* unionObjectAdmission and intersectObjectAdmission, of any number.
Widest(modes) ==
  IF "open" \in modes THEN "open" ELSE IF "closed" \in modes THEN "closed" ELSE "excluded"
Narrowest(modes) ==
  IF "excluded" \in modes THEN "excluded" ELSE IF "closed" \in modes THEN "closed" ELSE "open"

HasObjectKeywords(n) ==
  DOMAIN schema[n].kids \cap {"properties", "required", "additionalProperties",
    "unevaluatedProperties", "propertyNames", "dependentSchemas"} # {}

\* validatePortableMapPropertyNames.
KeyPolicy(c) == schema[c].form = "policy"

\* validateExplicitObjectClosure: additionalProperties false, or a typed map of
\* nothing else whose keys follow the reviewed policy.
ExplicitClosure(n) ==
  /\ "additionalProperties" \in DOMAIN schema[n].kids
  /\ LET extra == schema[schema[n].kids["additionalProperties"][1]].form
     IN \/ extra = "false"
        \/ /\ extra \notin {"true", "bad"}
           /\ DOMAIN schema[n].kids \cap
                {"properties", "required", "dependentSchemas", "unevaluatedProperties"} = {}
           /\ \E c \in ChildrenOf(n, "propertyNames") : KeyPolicy(c)

\* Mutated form: what "type" leaves open is not asked for.
MalformedUntyped(n) ==
  \/ schema[n].form \in {"true", "bad"}
  \/ schema[n].ill
  \/ "array" \in schema[n].types /\ "items" \notin DOMAIN schema[n].kids

\* validateUncached, before it visits a child.  An object, an array or any value
\* whose type is left open needs its explicit bound.
Malformed(n) ==
  \/ schema[n].form \in {"true", "bad"}
  \/ schema[n].ill
  \/ "array" \in schema[n].types /\ "items" \notin DOMAIN schema[n].kids
  \/ "object" \in schema[n].types /\ ~ExplicitClosure(n)
  \/ schema[n].types = {} /\ HasObjectKeywords(n)
  \/ \E k \in DOMAIN schema[n].kids \cap DOMAIN ListLoop : ChildrenOf(n, k) = {}

OwnMode(n) ==
  IF "object" \in schema[n].types THEN "closed"
  ELSE IF schema[n].types # {} THEN "excluded" ELSE "open"

LiteralMode(n) == IF schema[n].lit = "other" THEN "excluded" ELSE "open"

\* The admission of a node, its children proved: its type, const or enum, $ref,
\* allOf and the unions of anyOf and of oneOf, intersected.
Admission(n) ==
  LET mode(c) == memo["proof"][c].mode
      modes(k) == {mode(c) : c \in ChildrenOf(n, k)}
      union(k) == IF k \in DOMAIN schema[n].kids THEN {Widest(modes(k))} ELSE {}
  IN CASE schema[n].form \in {"false", "policy"} -> "excluded"
       [] schema[n].form = "const" -> "closed"
       [] OTHER ->
            Narrowest({OwnMode(n), LiteralMode(n)} \cup {mode(e.to) : e \in RefEdges(n)}
                        \cup modes("allOf") \cup union("anyOf") \cup union("oneOf"))

-----------------------------------------------------------------------------
(* The passes.                                                               *)

Result(mode, deep, work) == [state |-> "done", mode |-> mode, deep |-> deep, work |-> work]
Visiting == [state |-> "visiting", mode |-> "open", deep |-> 0, work |-> 0]

Frame(key) ==
  [key |-> key, left |-> EdgesOf(key), deep |-> 0, work |-> 1, via |-> Edge(0, 0, key)]

Top == stack[Len(stack)]
Below == SubSeq(stack, 1, Len(stack) - 1)
Memo == memo[pass]

\* Mutated form: a pointer serves for a value and for a property name.
MemoKeyWithoutRole(key) == IF pass = "instance" THEN <<key[1], key[2]>> ELSE key

\* What a memo is kept by: the canonical pointer, or the whole instance key.
MemoKey(key) == key

Known(key) == MemoKey(key) \in DOMAIN Memo
Recall(key) == Memo[MemoKey(key)]
Store(key, result) ==
  memo' = [memo EXCEPT ![pass] =
             [k \in DOMAIN Memo \cup {MemoKey(key)} |->
                IF k = MemoKey(key) THEN result ELSE Memo[k]]]

SaturatingAdd(a, b) == IF a + b > MaxWork THEN MaxWork + 1 ELSE a + b

\* What a loop still visits when a child has been counted: once the work is over
\* the limit the structural estimate breaks out of the loop and the instance
\* estimate counts nothing more.
LeftAfter(left, e, work) ==
  IF pass = "proof" \/ work <= MaxWork THEN left
  ELSE IF pass = "structure" THEN {f \in left : f.loop > e.loop}
  ELSE {}

\* Mutated form: a child adds its own depth and not the edge to it.
AbsorbSameDepth(frame, left, e, result) ==
  LET work == IF pass = "proof" THEN frame.work ELSE SaturatingAdd(frame.work, result.work)
  IN [frame EXCEPT !.left = LeftAfter(left, e, work), !.work = work, !.via = e,
                   !.deep = IF result.deep > @ THEN result.deep ELSE @]

\* recordChild and addChild: the caller takes in the result of its child.
Absorb(frame, left, e, result) ==
  LET work == IF pass = "proof" THEN frame.work ELSE SaturatingAdd(frame.work, result.work)
  IN [frame EXCEPT !.left = LeftAfter(left, e, work), !.work = work, !.via = e,
                   !.deep = IF result.deep + 1 > @ THEN result.deep + 1 ELSE @]

\* consumeOperation, for a local reference and for a node.
RefOps(e) == IF pass = "proof" /\ e.loop = RefLoop THEN 1 ELSE 0
NodeOps == IF pass = "proof" THEN 1 ELSE 0

NodeOf(key) == IF pass = "instance" THEN key[1] ELSE key

\* Mutated form: a node in progress is taken for one that is done.
SurvivesCycle(e) ==
  IF pass = "proof"
  THEN /\ e.to # NoNode
       /\ ops + RefOps(e) <= MaxOps
       /\ Len(stack) <= MaxDepth
       /\ IF Known(e.to) THEN Len(stack) + Recall(e.to).deep <= MaxDepth
          ELSE ops + RefOps(e) < MaxOps /\ ~Malformed(e.to)
  ELSE /\ Known(e.to) => Recall(e.to).state # "visiting"
       /\ NodeOf(e.to) # NoNode /\ schema[NodeOf(e.to)].form # "bad"

\* A pass gets over the edge e: it closes no cycle; in the proof the reference
\* resolves, operations are left, depth and known depth stay within the limit and
\* a new node is well-formed; in an estimate it leads to a schema.
Survives(e) ==
  /\ Known(e.to) => Recall(e.to).state # "visiting"
  /\ IF pass = "proof"
     THEN /\ e.to # NoNode
          /\ ops + RefOps(e) <= MaxOps
          /\ Len(stack) <= MaxDepth
          /\ IF Known(e.to) THEN Len(stack) + Recall(e.to).deep <= MaxDepth
             ELSE ops + RefOps(e) < MaxOps /\ ~Malformed(e.to)
     ELSE NodeOf(e.to) # NoNode /\ schema[NodeOf(e.to)].form # "bad"

Conclude(v) ==
  /\ verdict' = v
  /\ stack' = <<>>
  /\ UNCHANGED <<schema, fixture, pass, memo, ops>>

\* A call on a node not met before, in the callers "below".
Call(key, below) ==
  /\ Store(key, Visiting)
  /\ stack' = Append(below, Frame(key))
  /\ UNCHANGED <<schema, fixture, pass, verdict>>

RootKey == IF pass = "instance" THEN InstanceKey(Root, <<>>, "value") ELSE Root

Begin ==
  /\ pass # "fixture" /\ verdict = "none" /\ Memo = Empty
  /\ IF pass = "proof" /\ Malformed(Root) THEN Conclude("rejected")
     ELSE Call(RootKey, <<>>) /\ ops' = ops + NodeOps

Descend(e) ==
  /\ Survives(e) /\ ~Known(e.to)
  /\ Call(e.to, Append(Below, [Top EXCEPT !.left = @ \ {e}, !.via = e]))
  /\ ops' = ops + RefOps(e) + NodeOps

Revisit(e) ==
  /\ Survives(e) /\ Known(e.to)
  /\ stack' = Append(Below, Absorb(Top, Top.left \ {e}, e, Recall(e.to)))
  /\ ops' = ops + RefOps(e)
  /\ UNCHANGED <<schema, fixture, pass, memo, verdict>>

\* An error ends the pass, whoever called.
Fail(e) ==
  /\ ~Survives(e)
  /\ Conclude(IF pass = "proof" THEN "rejected" ELSE "error")

Visit ==
  /\ stack # <<>>
  /\ \E e \in NextEdges(Top.left) : Descend(e) \/ Revisit(e) \/ Fail(e)

\* validateExactObjectConst charges every node of the literal and counts its
\* height from the schema node.
LiteralOps(n) == IF schema[n].form = "const" THEN schema[n].size ELSE 0
Height(n) == IF schema[n].form = "const" THEN schema[n].height ELSE 0

\* Mutated form: the budget is not asked for a literal.
UnprovableAnySize(n, deep) ==
  \/ Admission(n) = "open"
  \/ Len(stack) - 1 + deep > MaxDepth

\* A node whose children are all visited is proved, or the proof fails there.
Unprovable(n, deep) ==
  \/ ops + LiteralOps(n) > MaxOps
  \/ Admission(n) = "open"
  \/ Len(stack) - 1 + deep > MaxDepth

\* What the frame on top returns.
Returned ==
  IF pass = "proof"
  THEN Result(Admission(Top.key), Top.deep + Height(Top.key), 0)
  ELSE Result("open", 0, Top.work)

Unproved ==
  /\ stack # <<>> /\ Top.left = {} /\ pass = "proof"
  /\ Unprovable(Top.key, Returned.deep)
  /\ Conclude("rejected")

Finished ==
  /\ stack # <<>> /\ Top.left = {}
  /\ pass = "proof" => ~Unprovable(Top.key, Returned.deep)
  /\ Store(Top.key, Returned)
  /\ ops' = ops + IF pass = "proof" THEN LiteralOps(Top.key) ELSE 0
  /\ UNCHANGED <<schema, fixture>>

\* The result goes to the caller.
Finish ==
  /\ Len(stack) > 1
  /\ Finished
  /\ LET caller == stack[Len(stack) - 1]
     IN stack' = Append(SubSeq(stack, 1, Len(stack) - 2),
                        Absorb(caller, caller.left, caller.via, Returned))
  /\ UNCHANGED <<pass, verdict>>

\* The root returns: the proof is followed by the structural estimate, and a
\* schema or a fixture over the work limit is turned down.
FinishPass ==
  /\ Len(stack) = 1
  /\ Finished
  /\ stack' = <<>>
  /\ LET over == Returned.work > MaxWork
     IN CASE pass = "proof" -> pass' = "structure" /\ UNCHANGED verdict
          [] pass = "structure" ->
               /\ pass' = IF over THEN pass ELSE "fixture"
               /\ verdict' = IF over THEN "rejected" ELSE "accepted"
          [] pass = "instance" ->
               /\ pass' = "fixture"
               /\ verdict' = IF over THEN "refused" ELSE "accepted"

\* validateFixtureAgainstSchema of another value, with a memo of its own.
ValidateFixture ==
  /\ pass = "fixture"
  /\ fixture' \in Fixtures
  /\ pass' = "instance"
  /\ verdict' = "none"
  /\ memo' = [memo EXCEPT !["instance"] = Empty]
  /\ UNCHANGED <<schema, stack, ops>>

NoFixture == Empty

Init ==
  /\ schema \in Schemas
  /\ fixture = NoFixture
  /\ pass = "proof"
  /\ memo = [p \in {"proof", "structure", "instance"} |-> Empty]
  /\ stack = <<>>
  /\ ops = 0
  /\ verdict = "none"

Next == Begin \/ Visit \/ Unproved \/ Finish \/ FinishPass \/ ValidateFixture

Spec == Init /\ [][Next]_vars

-----------------------------------------------------------------------------
(* Properties.                                                               *)

TypeOK ==
  /\ schema \in Schemas
  /\ pass \in {"proof", "structure", "fixture", "instance"}
  /\ verdict \in {"none", "rejected", "accepted", "refused", "error"}
  /\ ops \in 0..MaxOps
  /\ DOMAIN memo["proof"] \subseteq DOMAIN schema
  /\ \A i \in DOMAIN stack :
       /\ Recall(stack[i].key).state = "visiting"
       /\ stack[i].work \in 1..(MaxWork + 1)
       /\ \A j \in DOMAIN stack : stack[i].key = stack[j].key => i = j

\* What the accepted proof leaves behind certifies itself, whatever the order of
\* the visits: the nodes proved hold the root and all their children, none of
\* them malformed or open, and their depths fall along every edge, so there is
\* no cycle and no path longer than the limit.
Certified ==
  pass # "proof" =>
    LET proof == memo["proof"]
    IN /\ Root \in DOMAIN proof /\ proof[Root].deep <= MaxDepth
       /\ \A n \in DOMAIN proof :
            /\ proof[n].state = "done" /\ proof[n].mode # "open" /\ ~Malformed(n)
            /\ \A e \in ProofEdges(n) :
                 e.to \in DOMAIN proof /\ proof[e.to].deep < proof[n].deep

\* The nodes the proof has to look at.
Reachable ==
  LET reach[k \in 0..Cardinality(DOMAIN schema)] ==
        IF k = 0 THEN {Root}
        ELSE reach[k - 1] \cup
             {e.to : e \in UNION {ProofEdges(n) : n \in reach[k - 1] \ {NoNode}}}
  IN reach[Cardinality(DOMAIN schema)]

\* The edges that lead somewhere.
Resolved(edges) == {e \in edges : e.to # NoNode}

\* The length of the longest path below each node, literals included, when only
\* paths of k edges are followed.
longest[k \in 0..(MaxDepth + 1)] ==
  [n \in DOMAIN schema |->
    IF k = 0 THEN 0
    ELSE Max({Height(n)} \cup {longest[k - 1][e.to] + 1 : e \in Resolved(ProofEdges(n))})]

\* More than MaxDepth when there is a cycle.
LongestPath == longest[MaxDepth + 1][Root]

\* The evaluations of each node, k references and children expanded.
evaluations[k \in 0..(MaxDepth + 1)] ==
  [n \in DOMAIN schema |->
    IF k = 0 THEN 1
    ELSE 1 + SumFunction([e \in Resolved(StructureEdges(n)) |-> evaluations[k - 1][e.to]])]

\* The evaluations of a schema, every reference expanded.
Evaluations == evaluations[MaxDepth + 1][Root]

\* What can be evaluated: nodes on the values of the fixture and on their names.
InstanceKeys ==
  ((DOMAIN schema) \X (DOMAIN fixture) \X {"value"})
    \cup ((DOMAIN schema) \X {p \o <<"@propertyName", a>> : p \in DOMAIN fixture, a \in Names}
           \X {"property-name"})

fixtureEvaluations[k \in 0..(MaxDepth + 1)] ==
  [key \in InstanceKeys |->
    IF k = 0 THEN 1
    ELSE LET below == {e \in InstanceEdges(key[1], key[2], key[3]) : e.to[1] # NoNode}
         IN 1 + SumFunction([e \in below |-> fixtureEvaluations[k - 1][e.to]])]

\* The evaluations of a schema on the fixture.
FixtureEvaluations == fixtureEvaluations[MaxDepth + 1][InstanceKey(Root, <<>>, "value")]

\* A node bounds the objects it admits by itself or by one of its children.
Bounded(n) ==
  \/ schema[n].form \in {"false", "policy", "const"}
  \/ schema[n].types # {} \/ schema[n].lit = "other" \/ schema[n].ref # NoRef
  \/ DOMAIN schema[n].kids \cap {"allOf", "anyOf", "oneOf"} # {}

\* What the proof decides, in no order: every node that counts is well-formed and
\* bounded, paths and operations stay within their limits.
Portable ==
  /\ \A n \in Reachable : n # NoNode /\ ~Malformed(n) /\ Bounded(n)
  /\ LongestPath <= MaxDepth
  /\ SumFunction([n \in Reachable |-> 1 + Cardinality(RefEdges(n)) + LiteralOps(n)]) <= MaxOps

\* The verdict is that of the definition, so it depends neither on the order in
\* which Go visits a map nor on what the memo remembers: a node met again deeper
\* than it was proved, a loop left early, a sum cut at the limit change nothing.
VerdictDecided ==
  /\ pass = "structure" /\ Memo = Empty => Portable
  /\ verdict = "rejected" => ~(Portable /\ Evaluations <= MaxWork)
  /\ verdict = "accepted" => Evaluations <= MaxWork

\* A fixture is turned down for its work exactly when all its evaluations,
\* repeated ones included, are over the limit, and no estimate meets a cycle or
\* a reference the proof let through.
FixtureDecided ==
  /\ verdict # "error"
  /\ pass = "fixture" /\ memo["instance"] # Empty =>
       (verdict = "refused" <=> FixtureEvaluations > MaxWork)

\* Whether a node admits the value at a pointer, as far as the keywords below
\* tell, when "known" says what the nodes admit one level of the schema further;
\* the keywords left out only narrow that.  A literal that is no object is taken
\* for a scalar: an array declares what it holds, as an exact object does.
AdmitsBy(known, n, p) ==
  LET v == fixture[p]
      typeOf == IF v.kind = "scalar" THEN "string" ELSE v.kind
      here(c) == known[c][p]
      below(c, a) == known[c][Append(p, a)]
      properties == KidsOf(n, "properties")
      prefix == KidsOf(n, "prefixItems")
      all(keyword) == \A c \in ChildrenOf(n, keyword) : here(c)
      some(keyword) ==
        keyword \in DOMAIN schema[n].kids => \E c \in ChildrenOf(n, keyword) : here(c)
      object ==
        \A a \in v.names :
          IF a \in DOMAIN properties THEN below(properties[a], a)
          ELSE /\ \A c \in ChildrenOf(n, "additionalProperties") : below(c, a)
               /\ a = Stray => \A c \in ChildrenOf(n, "propertyNames") : ~KeyPolicy(c)
      array ==
        \A i \in 1..v.len :
          IF i \in DOMAIN prefix THEN below(prefix[i], Token[i])
          ELSE \A c \in ChildrenOf(n, "items") : below(c, Token[i])
      \* an exact literal declares all there is, at every depth
      exact == v.kind = "object" /\ \A q \in DOMAIN fixture :
                 IsPrefix(p, q) => Stray \notin fixture[q].names
  IN CASE schema[n].form = "false" -> FALSE
       [] schema[n].form = "policy" -> v.kind = "scalar"
       [] schema[n].form = "const" -> exact
       [] OTHER ->
            /\ schema[n].types # {} => typeOf \in schema[n].types
            /\ schema[n].lit = "other" => v.kind = "scalar"
            /\ v.kind = "object" => object
            /\ v.kind = "array" => array
            /\ all("allOf") /\ some("anyOf") /\ some("oneOf")
            /\ \A e \in RefEdges(n) : here(e.to)

\* What the nodes admit when k levels of the schema are looked at.
admits[k \in 0..(MaxDepth + 2)] ==
  [n \in DOMAIN schema |->
    [p \in DOMAIN fixture |-> IF k = 0 THEN TRUE ELSE AdmitsBy(admits[k - 1], n, p)]]

\* The additionalProperties of false is below the deepest node the proof counts.
Admits == admits[MaxDepth + 2][Root][<<>>]

\* What the proof is for: a schema that passed it admits no value with an object,
\* however deep, that has a property nothing declares.
NoStrayProperty ==
  pass = "instance" /\ Memo = Empty /\ Admits =>
    \A p \in DOMAIN fixture : fixture[p].kind = "object" => Stray \notin fixture[p].names
=============================================================================
