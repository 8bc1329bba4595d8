-------------------------- MODULE MCSnapshotCompile --------------------------
(* Small inputs of SnapshotCompile for TLC.                                  *)
EXTENDS SnapshotCompile

\* Versions in the order of their texts: 1.0.0+a, 1.0.0+b, 10.0.0,
\* 18446744073709551616.0.0 and 9.0.0.  The first two have one precedence; the
\* fourth is a version that 64-bit numbers cannot hold.
MCSemVer == <<100, 100, 1000, NoSemVer, 900>>

Node(b, need, targets, kids, ref) ==
  [bind |-> b, need |-> need, targets |-> targets, kids |-> kids, ref |-> ref]
Leaf == Node(NoName, <<>>, <<>>, {}, NoNode)
Plain == <<Leaf>>

\* Operations.
Get == 1
Put == 2
List == 3

\* Interfaces and Bindings: <<name, version, digest>>.
I1 == <<1, 1, 1>>
I2 == <<2, 1, 2>>
B1 == <<1, 1, 3>>
B2 == <<2, 1, 4>>

Iface(o, ref, ops) ==
  [origin |-> <<o>>, pin |-> ref[3], digest |-> ref[3], valid |-> TRUE, ref |-> ref,
   operations |-> ops]
Bind(o, ref, target, ops) ==
  [origin |-> <<o>>, pin |-> ref[3], digest |-> ref[3], valid |-> TRUE, ref |-> ref,
   role |-> "role", target |-> target, operations |-> ops]

A(v) == <<1, 1, v, 50 + v>>
C(v) == <<2, 1, v, 60 + v>>

Pkg(o, ref, requires, provides, accepts, schema) ==
  [origin |-> <<o>>, issued |-> TRUE, pin |-> ref[4] + 100, digest |-> ref[4] + 100,
   hasDefinition |-> TRUE, revalidates |-> TRUE, ref |-> ref, definitionRef |-> ref,
   requires |-> requires, role |-> "role", provides |-> provides, accepts |-> accepts,
   schema |-> schema]
Simple(o, ref) == Pkg(o, ref, "", <<>>, <<>>, Plain)
Targeting(target) == Pkg(7, C(1), "v1", <<>>, <<>>, <<Node(NoName, <<>>, <<target>>, {}, NoNode)>>)

\* A node under B1 and, inside it, one under B2; both reach the node 3, which
\* requires an Interface; the second one through a $ref back into the first.
Nested(need) ==
  <<Node(NoName, <<>>, <<>>, {2, 3}, NoNode), Node(1, <<>>, <<>>, {}, 3),
    Node(NoName, need, <<>>, {4}, NoNode), Node(2, <<>>, <<>>, {}, 3)>>
\* One binding annotation, a required Interface beside it, and a cycle.
Cyclic(need) == <<Node(1, need, <<>>, {2}, NoNode), Node(NoName, <<>>, <<>>, {}, 1)>>

Consumer(accepts, schema) == Pkg(5, C(1), "v1", <<I1>>, accepts, schema)

Pin(ref) == [group |-> GroupKind(ref), ref |-> ref]
In(host, ps, is, bs, ds) ==
  [hostAPI |-> host, packages |-> ps, interfaces |-> is, bindings |-> bs, pins |-> ds]

\* Sets of packages: versions that a text order and a precedence order sort
\* differently, duplicates, unpinned and mispinned ones, targets.
PackageSets ==
  {<<Simple(1, A(3)), Simple(2, A(5))>>, <<Simple(1, A(1)), Simple(2, A(2)), Simple(3, A(5))>>,
   <<Simple(1, A(1)), Simple(2, [A(1) EXCEPT ![4] = 70]), Targeting(A(1))>>,
   <<Simple(1, A(1)), Simple(2, A(1)), Simple(3, A(1))>>,
   <<Simple(1, A(1)), Simple(1, A(1))>>, <<Targeting(A(2)), Simple(2, A(1))>>,
   <<[Simple(1, A(1)) EXCEPT !.pin = 9], [Simple(2, A(2)) EXCEPT !.pin = NoDigest],
     [Simple(3, A(3)) EXCEPT !.issued = FALSE, !.origin = <<>>, !.digest = 0]>>,
   <<Pkg(1, A(1), "v1beta4", <<I2>>, <<>>, Plain), Pkg(2, C(1), "v2", <<>>, <<>>, Plain)>>}

PinSets == {<<Pin(A(1))>>, <<Pin(A(1)), Pin(C(1))>>, <<Pin(A(1)), Pin(A(2)), Pin(C(1))>>,
            <<Pin(A(5)), Pin(C(2))>>, <<[group |-> GroupKind(A(1)), ref |-> C(1)], Pin(C(1))>>,
            <<[group |-> GroupKind(C(1)), ref |-> A(1)], Pin(A(1))>>}

InterfaceSets == {<<Iface(1, I1, {Get}), Iface(2, I2, {Get, Put})>>, <<Iface(1, I1, {Get})>>,
                  <<Iface(1, I1, {Get}), Iface(2, I1, {Get, Put})>>,
                  <<[Iface(1, I1, {Get}) EXCEPT !.pin = 9],
                    [Iface(2, I2, {Get}) EXCEPT !.valid = FALSE]>>}
BindingSets == {<<Bind(3, B1, I1, {Get}), Bind(4, B2, I2, {Put})>>,
                <<Bind(3, B1, I1, {Get, Put, List})>>, <<Bind(3, B1, I2, {Get})>>,
                <<Bind(3, B1, I1, {Get}), Bind(4, B2, I1, {Get})>>,
                <<[Bind(3, B1, I1, {Get}) EXCEPT !.role = "other"]>>, <<>>}
Consumers ==
  {Consumer(as, s) : as \in {<<B1>>, <<B1, B2>>, <<B1, B1>>},
                     s \in {Plain, Nested(I1), Nested(I2), Cyclic(I1), Cyclic(I2)}}

PassingInputs ==
  {In(h, ps, <<Iface(2, I2, {Get})>>, <<>>, ds) :
     h \in {"v1"}, ps \in PackageSets, ds \in PinSets}
  \cup {In("v1", <<c>>, is, bs, <<Pin(C(1))>>) :
          c \in Consumers, is \in InterfaceSets, bs \in BindingSets}
  \cup {In(h, <<Simple(1, A(1))>>, <<>>, <<>>, <<Pin(A(1))>>) : h \in {"v1beta4", "v2"}}

\* 10.0.0, 18446744073709551616.0.0 and 9.0.0 of one Form.
LargeInputs ==
  {In("v1", <<Simple(1, A(3)), Simple(2, A(4)), Simple(3, A(5))>>, <<>>, <<>>, <<Pin(A(3))>>)}
=============================================================================
