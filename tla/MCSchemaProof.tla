---------------------------- MODULE MCSchemaProof ----------------------------
(* Small schemas and fixtures of SchemaProof for TLC.                        *)
EXTENDS SchemaProof, TLC

Untyped == [form |-> "object", ill |-> FALSE, types |-> {}, lit |-> "absent", kids |-> Empty,
        ref |-> NoRef, size |-> 0, height |-> 0]
FalseSchema == [Untyped EXCEPT !.form = "false"]
Policy == [Untyped EXCEPT !.form = "policy", !.types = {"string"}]
Typed(type) == [Untyped EXCEPT !.types = {type}]
Ref(n) == [Untyped EXCEPT !.ref = n]
Constant(size, height) == [Untyped EXCEPT !.form = "const", !.size = size, !.height = height]
Str == Typed("string")

\* A node with the given children; a closed object whose false schema is f.
With(node, kids) == [node EXCEPT !.kids = kids @@ @]
Closed(f, properties) ==
  With(Typed("object"), [additionalProperties |-> <<f>>, properties |-> properties])
All(kids) == With(Untyped, [allOf |-> kids])

-----------------------------------------------------------------------------
(* Every schema of three nodes: a root, a second one below it and a third one *)
(* below either, each with a type and a $ref to any; the fourth node is the   *)
(* additionalProperties of false of all objects.                              *)

Keywords == {"defs", "properties", "items", "allOf", "anyOf"}
Types == {{}, {"object"}, {"array"}, {"string"}}

TreeKids(types, below, n) ==
  LET of(k) == {c \in {2, 3} : below[c] = <<n, k>>}
      kid(k) ==
        IF k \in {"defs", "properties"}
        THEN [a \in {x \in {"a", "m"} : (x = "a" /\ 2 \in of(k)) \/ (x = "m" /\ 3 \in of(k))} |->
                IF a = "a" THEN 2 ELSE 3]
        ELSE IF Cardinality(of(k)) = 2 THEN <<2, 3>>
        ELSE <<CHOOSE c \in of(k) : TRUE>>
      closed == IF "object" \in types[n] THEN [additionalProperties |-> <<4>>] ELSE Empty
  IN [k \in {x \in Keywords : of(x) # {}} |-> kid(k)] @@ closed

Trees ==
  {[n \in 1..4 |->
      IF n = 4 THEN FalseSchema
      ELSE [Untyped EXCEPT !.types = types[n], !.ref = refs[n], !.kids = TreeKids(types, below, n)]] :
     types \in [1..3 -> {{}, {"object"}, {"string"}}],
     below \in {b \in [{2, 3} -> {1, 2} \X {"defs", "properties", "allOf"}] : b[2][1] = 1},
     refs \in [1..3 -> {NoRef, 2, 3}]}

-----------------------------------------------------------------------------
(* Chosen schemas.                                                           *)

Chosen == {
  \* Objects nested to the limit and below it.
  <<Closed(5, [a |-> 2]), Closed(5, [a |-> 3]), Closed(5, [a |-> 4]), Str, FalseSchema>>,
  <<Closed(5, [a |-> 2]), Closed(5, [a |-> 3]), Closed(5, [a |-> 4]), Closed(5, [a |-> 6]),
    FalseSchema, Str>>,
  <<Closed(5, [a |-> 2]), Closed(5, [a |-> 3]), Closed(5, [a |-> 4]), Closed(5, Empty), FalseSchema>>,
  \* A node met at two depths, too deep only from the deeper one.
  <<Closed(5, [a |-> 4, m |-> 2]), Closed(5, [a |-> 3]), Ref(4), Closed(5, [a |-> 6]),
    FalseSchema, Str>>,
  <<Closed(5, [a |-> 4, m |-> 2]), Ref(4), Str, Closed(5, [a |-> 3]), FalseSchema>>,
  \* Shared references: few nodes, many evaluations; at the limit and over it.
  <<All(<<2, 3>>), Ref(4), Ref(4), All(<<5>>), Str>>,
  <<All(<<2, 3, 6, 7>>), Ref(4), Ref(4), All(<<5>>), Str, Ref(4), Ref(5)>>,
  <<All(<<2, 3, 6, 7>>), Ref(4), Ref(4), All(<<5>>), Str, Ref(4), Ref(4)>>,
  \* Definitions that refer to each other, used or not, and to themselves.
  <<With(Str, [defs |-> [a |-> 2, m |-> 3]]), Ref(3), Ref(2)>>,
  <<With(Str, [defs |-> [a |-> 2]]), Ref(1)>>,
  <<With(Ref(2), [defs |-> [a |-> 2, m |-> 3]]), Closed(4, [m |-> 3]), Str, FalseSchema>>,
  <<Ref(NoNode)>>, <<Ref(1)>>,
  \* A typed map, of objects; one without the key policy, one with properties.
  <<With(Typed("object"), [additionalProperties |-> <<2>>, propertyNames |-> <<3>>]),
    Closed(4, [m |-> 5]), Policy, FalseSchema, Str>>,
  <<With(Typed("object"), [additionalProperties |-> <<2>>, propertyNames |-> <<3>>]), Str, Str>>,
  <<With(Typed("object"), [additionalProperties |-> <<2>>, propertyNames |-> <<3>>,
                           properties |-> [a |-> 4]]), Str, Policy, Str>>,
  \* Arrays: prefix and rest, contains, none.
  <<With(Typed("array"), [prefixItems |-> <<2>>, items |-> <<3>>, contains |-> <<4>>,
                          unevaluatedItems |-> <<4>>]),
    Closed(5, [a |-> 6]), Closed(5, [m |-> 7]), Str, FalseSchema, Str, Str>>,
  <<With(Typed("array"), [prefixItems |-> <<2>>]), Str>>,
  \* Alternatives, a disjoint one among them, and conditionals.
  <<With(Untyped, [anyOf |-> <<2, 3>>]), Str, Closed(4, [a |-> 5]), FalseSchema, Str>>,
  <<With(Untyped, [oneOf |-> <<2, 3>>]), With(Untyped, [allOf |-> <<5, 6>>]), FalseSchema, FalseSchema,
    Str, FalseSchema>>,
  <<With(Closed(4, [a |-> 5]), [if |-> <<2>>, then |-> <<3>>, else |-> <<6>>, not |-> <<7>>]),
    Str, Str, FalseSchema, Str, FalseSchema, FalseSchema>>,
  <<With(Untyped, [anyOf |-> <<>>])>>,
  \* Literals: an enum of scalars, one with an object, object constants.
  <<[Untyped EXCEPT !.lit = "other"]>>, <<[Untyped EXCEPT !.lit = "object"]>>,
  <<With([Untyped EXCEPT !.lit = "object"], [anyOf |-> <<2, 3>>]), Str, Closed(4, Empty), FalseSchema>>,
  <<Constant(5, 3)>>, <<Constant(5, 4)>>, <<Constant(9, 2)>>, <<Constant(10, 2)>>,
  <<Closed(3, [a |-> 2]), Constant(4, 2), FalseSchema>>,
  <<Closed(3, [a |-> 2]), Constant(4, 3), FalseSchema>>,
  \* What is no bound at all.
  <<Untyped>>, <<[Untyped EXCEPT !.form = "true"]>>, <<With(Untyped, [properties |-> [a |-> 2]]), Str>>,
  <<Closed(3, [a |-> 2]), Untyped, FalseSchema>>,
  <<With(Typed("array"), [items |-> <<2>>]), Untyped>>,
  \* A dependent schema, and property names that share a schema with a property
  \* whose name is that of the estimate's own pointers.
  <<With(Closed(4, [a |-> 2]), [dependentSchemas |-> [a |-> 3]]), Str, Closed(4, [a |-> 5]),
    FalseSchema, Str>>,
  <<With(Closed(4, [a |-> 2] @@ ("@propertyName" :> 3)), [propertyNames |-> <<5>>]), Str,
    Closed(4, [a |-> 6]), FalseSchema, Ref(6),
    [Closed(4, [m |-> 7]) EXCEPT !.types = {"object", "string"}], Str>>}

MCSchemas == Trees \cup Chosen

-----------------------------------------------------------------------------
(* Fixtures: values as functions from their pointers.                        *)

Scalar == [kind |-> "scalar", names |-> {}, len |-> 0]
Object(names) == [kind |-> "object", names |-> names, len |-> 0]
Array(len) == [kind |-> "array", names |-> {}, len |-> len]

MCNames == {"a", "m", "x", "@propertyName"}
One(v) == <<>> :> v

MCFixtures == {
  One(Scalar), One(Object({})),
  One(Object({"a"})) @@ (<<"a">> :> Scalar),
  One(Object({"x"})) @@ (<<"x">> :> Scalar),
  One(Object({"a", "m"})) @@ (<<"a">> :> Scalar) @@ (<<"m">> :> Scalar),
  One(Object({"a"})) @@ (<<"a">> :> Object({"x"})) @@ (<<"a", "x">> :> Scalar),
  One(Object({"a"})) @@ (<<"a">> :> Object({"a"})) @@ (<<"a", "a">> :> Object({"a"}))
    @@ (<<"a", "a", "a">> :> Object({"x"})) @@ (<<"a", "a", "a", "x">> :> Scalar),
  One(Object({"m"})) @@ (<<"m">> :> Object({"m"})) @@ (<<"m", "m">> :> Scalar),
  One(Object({"m"})) @@ (<<"m">> :> Object({"x"})) @@ (<<"m", "x">> :> Scalar),
  One(Array(2)) @@ (<<"1">> :> Scalar) @@ (<<"2">> :> Object({"x"})) @@ (<<"2", "x">> :> Scalar),
  One(Array(3)) @@ (<<"1">> :> Object({"a"})) @@ (<<"1", "a">> :> Scalar)
    @@ (<<"2">> :> Object({"m"})) @@ (<<"2", "m">> :> Scalar) @@ (<<"3">> :> Scalar),
  One(Object({"@propertyName"})) @@ (<<"@propertyName">> :> Object({"a"}))
    @@ (<<"@propertyName", "a">> :> Object({"m"})) @@ (<<"@propertyName", "a", "m">> :> Scalar),
  One(Object({"a", "m", "@propertyName"})) @@ (<<"a">> :> Scalar) @@ (<<"m">> :> Scalar)
    @@ (<<"@propertyName">> :> Object({"a"}))
    @@ (<<"@propertyName", "a">> :> Object({"m"})) @@ (<<"@propertyName", "a", "m">> :> Scalar)}
=============================================================================
