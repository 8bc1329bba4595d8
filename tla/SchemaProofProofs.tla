--------------------------- MODULE SchemaProofProofs ---------------------------
(***************************************************************************)
(* Theorems about SchemaProof, for every set of schemas and of values and  *)
(* all limits.  A pass is a walk: the frames of the stack are a path of    *)
(* edges, the memo holds what is on the path and what is done.  From the   *)
(* walk of the proof follows what an accepted schema certifies, from that  *)
(* what the estimates can meet, and what the schema admits.  The second    *)
(* half compares the passes with the definitions of what they decide: the  *)
(* recursions over levels have solutions, the depth of a node proved is    *)
(* its longest path, the operations counted are a sum over the nodes met,  *)
(* and the work of an estimate is the sum over all repetitions, cut at the *)
(* limit; so the verdicts are those of the definitions.                    *)
(***************************************************************************)
EXTENDS SchemaProof, SequenceTheorems, FiniteSetTheorems, WellFoundedInduction, TLAPS

Passes == {"proof", "structure", "instance"}

-----------------------------------------------------------------------------
(* Sequences of frames.                                                      *)

Entries(s) == {s[i] : i \in 1..Len(s)}
IsStack(s) == s \in Seq(Entries(s))

\* The elements are all a sequence is.
LEMMA StackOf ==
  ASSUME NEW S, NEW s \in Seq(S)
  PROVE  IsStack(s) /\ Len(s) \in Nat /\ DOMAIN s = 1..Len(s)
<1>1. Len(s) \in Nat /\ s \in [1..Len(s) -> S]
  OBVIOUS
<1>2. s \in [1..Len(s) -> Entries(s)]
  BY <1>1 DEF Entries
<1> QED  BY <1>1, <1>2 DEF IsStack

\* A frame is put on top.
LEMMA Pushed ==
  ASSUME NEW s, IsStack(s), NEW f
  PROVE  LET t == Append(s, f)
         IN /\ IsStack(t) /\ Len(s) \in Nat /\ Len(t) = Len(s) + 1 /\ t[Len(t)] = f
            /\ \A i \in 1..Len(s) : t[i] = s[i]
<1>1. s \in Seq(Entries(s) \cup {f}) /\ f \in Entries(s) \cup {f} /\ Len(s) \in Nat
  <2>1. s \in Seq(Entries(s))
    BY DEF IsStack
  <2> QED  BY <2>1
<1>2. PICK S : s \in Seq(S) /\ f \in S
  BY <1>1
<1>3. Append(s, f) \in Seq(S)
  BY <1>2
<1>4. IsStack(Append(s, f))
  BY <1>3, StackOf
<1>5. /\ Len(Append(s, f)) = Len(s) + 1 /\ Append(s, f)[Len(s) + 1] = f
      /\ \A i \in 1..Len(s) : Append(s, f)[i] = s[i]
  BY <1>2
<1> QED  BY <1>1, <1>4, <1>5

\* The frame on top is replaced, with another one put above it, or not.
LEMMA Replaced ==
  ASSUME NEW s, IsStack(s), s # <<>>, NEW f
  PROVE  LET t == Append(SubSeq(s, 1, Len(s) - 1), f)
         IN /\ IsStack(t) /\ Len(s) \in Nat /\ Len(s) >= 1 /\ Len(t) = Len(s) /\ t[Len(s)] = f
            /\ \A i \in 1..(Len(s) - 1) : t[i] = s[i]
<1> DEFINE b == SubSeq(s, 1, Len(s) - 1)
<1>1. s \in Seq(Entries(s)) /\ Len(s) \in Nat /\ Len(s) >= 1
  BY DEF IsStack
<1>2. b \in Seq(Entries(s)) /\ Len(b) = Len(s) - 1 /\ \A i \in 1..(Len(s) - 1) : b[i] = s[i]
  <2>1. Len(s) - 1 \in Int /\ \A i \in 1..(Len(s) - 1) : s[i] \in Entries(s)
    BY <1>1 DEF Entries
  <2>2. /\ b \in Seq(Entries(s)) /\ Len(b) = IF 1 <= Len(s) - 1 THEN Len(s) - 1 - 1 + 1 ELSE 0
        /\ \A i \in 1..(Len(s) - 1 - 1 + 1) : b[i] = s[1 + i - 1]
    BY <2>1, SubSeqProperties
  <2> HIDE DEF b
  <2>3. (IF 1 <= Len(s) - 1 THEN Len(s) - 1 - 1 + 1 ELSE 0) = Len(s) - 1
    BY <1>1
  <2>5. Len(b) = Len(s) - 1
    BY <2>2, <2>3
  <2>4. ASSUME NEW i \in 1..(Len(s) - 1)
        PROVE  b[i] = s[i]
    <3>1. 1 + i - 1 = i /\ i \in 1..(Len(s) - 1 - 1 + 1)
      BY <1>1
    <3> QED  BY <2>2, <3>1
  <2> QED  BY <2>2, <2>4, <2>5
<1>3. IsStack(b)
  BY <1>2, StackOf
<1> HIDE DEF b
<1> QED  BY <1>1, <1>2, <1>3, Pushed DEF b

\* The frame on top is dropped and the one below it replaced.
LEMMA Popped ==
  ASSUME NEW s, IsStack(s), Len(s) > 1, NEW f
  PROVE  LET t == Append(SubSeq(s, 1, Len(s) - 2), f)
         IN /\ IsStack(t) /\ Len(s) \in Nat /\ Len(t) = Len(s) - 1 /\ t[Len(t)] = f
            /\ \A i \in 1..(Len(s) - 2) : t[i] = s[i]
<1> DEFINE b == SubSeq(s, 1, Len(s) - 2)
<1>1. s \in Seq(Entries(s)) /\ Len(s) \in Nat /\ Len(s) >= 2
  BY DEF IsStack
<1>2. b \in Seq(Entries(s)) /\ Len(b) = Len(s) - 2 /\ \A i \in 1..(Len(s) - 2) : b[i] = s[i]
  <2>1. Len(s) - 2 \in Int /\ \A i \in 1..(Len(s) - 2) : s[i] \in Entries(s)
    BY <1>1 DEF Entries
  <2>2. /\ b \in Seq(Entries(s)) /\ Len(b) = IF 1 <= Len(s) - 2 THEN Len(s) - 2 - 1 + 1 ELSE 0
        /\ \A i \in 1..(Len(s) - 2 - 1 + 1) : b[i] = s[1 + i - 1]
    BY <2>1, SubSeqProperties
  <2> HIDE DEF b
  <2>3. (IF 1 <= Len(s) - 2 THEN Len(s) - 2 - 1 + 1 ELSE 0) = Len(s) - 2
    <3>1. \A n \in Nat : n >= 2 => (IF 1 <= n - 2 THEN n - 2 - 1 + 1 ELSE 0) = n - 2
      OBVIOUS
    <3> QED  BY <1>1, <3>1
  <2>5. Len(b) = Len(s) - 2
    BY <2>2, <2>3
  <2>4. ASSUME NEW i \in 1..(Len(s) - 2)
        PROVE  b[i] = s[i]
    <3>1. 1 + i - 1 = i /\ i \in 1..(Len(s) - 2 - 1 + 1)
      BY <1>1
    <3> QED  BY <2>2, <3>1
  <2> QED  BY <2>2, <2>4, <2>5
<1>3. IsStack(b)
  BY <1>2, StackOf
<1> HIDE DEF b
<1> QED  BY <1>1, <1>2, <1>3, Pushed DEF b

-----------------------------------------------------------------------------
(* Edges.                                                                    *)

\* What has its edges in a schema and a value has them while these stay.
LEMMA EdgesKept ==
  ASSUME schema' = schema
  PROVE  /\ \A n : ProofEdges(n)' = ProofEdges(n)
         /\ \A n : StructureEdges(n)' = StructureEdges(n)
         /\ \A n : Malformed(n)' = Malformed(n)
         /\ fixture' = fixture => \A n, p, r : InstanceEdges(n, p, r)' = InstanceEdges(n, p, r)
<1>1. /\ \A n : RefEdges(n)' = RefEdges(n)
      /\ \A n, k : KidsOf(n, k)' = KidsOf(n, k) /\ ChildrenOf(n, k)' = ChildrenOf(n, k)
  BY DEF RefEdges, KidsOf, ChildrenOf
<1>2. \A n : SingleEdges(n)' = SingleEdges(n) /\ ListEdges(n)' = ListEdges(n)
  BY <1>1 DEF SingleEdges, ListEdges
<1>3. \A n, ks : MapEdges(n, ks)' = MapEdges(n, ks)
  BY <1>1 DEF MapEdges
<1>4. \A n : StructureEdges(n)' = StructureEdges(n)
  BY <1>1, <1>2, <1>3 DEF StructureEdges
<1>5. \A n : ProofEdges(n)' = ProofEdges(n)
  BY <1>1, <1>2, <1>3 DEF ProofEdges
<1>6. \A n : Malformed(n)' = Malformed(n)
  BY <1>1 DEF Malformed, ExplicitClosure, HasObjectKeywords, KeyPolicy
<1>7. ASSUME fixture' = fixture
      PROVE  \A n, p, r : InstanceEdges(n, p, r)' = InstanceEdges(n, p, r)
  <2>1. \A p, r : ValueAt(p, r)' = ValueAt(p, r)
    BY <1>7 DEF ValueAt
  <2>2. \A n, loop, slot, k, i, p, r :
          Once(n, loop, slot, k, i, p, r)' = Once(n, loop, slot, k, i, p, r)
    BY <1>1 DEF Once
  <2>3. \A n, p, r, names : ObjectEdges(n, p, r, names)' = ObjectEdges(n, p, r, names)
    <3>1. ASSUME NEW n, NEW p, NEW r, NEW names
          PROVE  ObjectEdges(n, p, r, names)' = ObjectEdges(n, p, r, names)
      <4>1. KidsOf(n, "properties")' = KidsOf(n, "properties")
        BY <1>1
      <4> QED  BY <4>1, <2>2 DEF ObjectEdges
    <3> QED  BY <3>1
  <2>4. \A n, p, r, indices : ArrayEdges(n, p, r, indices)' = ArrayEdges(n, p, r, indices)
    BY <1>1, <2>2 DEF ArrayEdges
  <2> QED  BY <1>1, <2>1, <2>2, <2>3, <2>4 DEF InstanceEdges
<1> QED  BY <1>4, <1>5, <1>6, <1>7

\* The children under a keyword are nodes of the schema.
LEMMA KidsAreNodes ==
  ASSUME schema \in Schemas, NEW n \in DOMAIN schema
  PROVE  /\ \A k, i : i \in DOMAIN KidsOf(n, k) => KidsOf(n, k)[i] \in DOMAIN schema
         /\ \A k : ChildrenOf(n, k) \subseteq DOMAIN schema
         /\ RefEdges(n) \subseteq {Edge(RefLoop, 0, m) : m \in DOMAIN schema \cup {NoNode}}
<1>1. \A k, i : i \in DOMAIN KidsOf(n, k) => KidsOf(n, k)[i] \in DOMAIN schema
  BY SchemasAssumption DEF KidsOf, Empty
<1>2. \A k : ChildrenOf(n, k) \subseteq DOMAIN schema
  BY <1>1 DEF ChildrenOf
<1>3. schema[n].ref \in DOMAIN schema \cup {NoRef, NoNode}
  BY SchemasAssumption
<1>4. RefEdges(n) \subseteq {Edge(RefLoop, 0, m) : m \in DOMAIN schema \cup {NoNode}}
  BY <1>3 DEF RefEdges
<1> QED  BY <1>1, <1>2, <1>4

\* Only an object has children or a reference.
LEMMA Childless ==
  ASSUME schema \in Schemas, NEW n \in DOMAIN schema, schema[n].form # "object"
  PROVE  /\ \A k : KidsOf(n, k) = Empty /\ ChildrenOf(n, k) = {}
         /\ RefEdges(n) = {} /\ StructureEdges(n) = {} /\ ProofEdges(n) = {}
<1>1. schema[n].kids = Empty /\ schema[n].ref = NoRef
  BY SchemasAssumption
<1>2. \A k : KidsOf(n, k) = Empty
  BY <1>1 DEF KidsOf, Empty
<1>3. \A k : ChildrenOf(n, k) = {}
  BY <1>2 DEF ChildrenOf, Empty
<1>4. RefEdges(n) = {}
  BY <1>1 DEF RefEdges
<1>5. \A ks : MapEdges(n, ks) = {}
  BY <1>3 DEF MapEdges
<1>6. SingleEdges(n) = {} /\ ListEdges(n) = {}
  BY <1>2, <1>3 DEF SingleEdges, ListEdges, Empty
<1> QED  BY <1>2, <1>3, <1>4, <1>5, <1>6 DEF StructureEdges, ProofEdges

\* What the edges of a node lead to.
LEMMA EdgeTargets ==
  ASSUME schema \in Schemas, NEW n \in DOMAIN schema
  PROVE  /\ \A e \in StructureEdges(n) : e.to \in DOMAIN schema \cup {NoNode}
         /\ \A e \in ProofEdges(n) : e.to \in DOMAIN schema \cup {NoNode}
<1>1. \A e \in RefEdges(n) : e.to \in DOMAIN schema \cup {NoNode}
  BY KidsAreNodes DEF Edge
<1>2. \A ks : \A e \in MapEdges(n, ks) : e.to \in DOMAIN schema
  BY KidsAreNodes DEF MapEdges, Edge
<1>3. \A e \in SingleEdges(n) : e.to \in DOMAIN schema
  BY KidsAreNodes DEF SingleEdges, Edge
<1>4. \A e \in ListEdges(n) : e.to \in DOMAIN schema
  BY KidsAreNodes DEF ListEdges, Edge
<1> QED  BY <1>1, <1>2, <1>3, <1>4 DEF StructureEdges, ProofEdges

\* The structural estimate follows no edge the proof did not, but to a schema
\* of false.
LEMMA StructureWithinProof ==
  ASSUME schema \in Schemas, NEW n \in DOMAIN schema, NEW e \in StructureEdges(n)
  PROVE  /\ schema[n].form = "object"
         /\ e \in ProofEdges(n) \/ (e.to \in DOMAIN schema /\ schema[e.to].form = "false")
<1>1. schema[n].form = "object"
  BY Childless
<1>2. MapEdges(n, {"properties", "dependentSchemas"}) \subseteq MapEdges(n, DOMAIN MapLoop)
  BY DEF MapEdges, MapLoop
<1>3. /\ MapEdges(n, DOMAIN MapLoop) \subseteq ProofEdges(n)
      /\ ListEdges(n) \subseteq ProofEdges(n) /\ RefEdges(n) \subseteq ProofEdges(n)
      /\ \A f \in SingleEdges(n) : f \in ProofEdges(n) \/ schema[f.to].form = "false"
  BY <1>1 DEF ProofEdges
<1>4. \A f \in SingleEdges(n) : f.to \in DOMAIN schema
  BY KidsAreNodes DEF SingleEdges, Edge
<1> QED  BY <1>1, <1>2, <1>3, <1>4 DEF StructureEdges

Evaluated == {"properties", "dependentSchemas"} \cup DOMAIN SingleRank \cup DOMAIN ListLoop

\* Every child under a keyword that is evaluated is the end of a structural edge.
LEMMA ChildIsTarget ==
  ASSUME NEW n, NEW k \in Evaluated, NEW i \in DOMAIN KidsOf(n, k)
  PROVE  \E f \in StructureEdges(n) : f.to = KidsOf(n, k)[i]
<1>1. KidsOf(n, k)[i] \in ChildrenOf(n, k)
  BY DEF ChildrenOf
<1>2. CASE k \in {"properties", "dependentSchemas"}
  <2>1. Edge(MapLoop[k], 0, KidsOf(n, k)[i]) \in MapEdges(n, {"properties", "dependentSchemas"})
    BY <1>1, <1>2 DEF MapEdges
  <2> QED  BY <2>1 DEF StructureEdges, Edge
<1>3. CASE k \in DOMAIN SingleRank
  <2>1. Edge(SingleLoop, SingleRank[k], KidsOf(n, k)[i]) \in SingleEdges(n)
    BY <1>1, <1>3 DEF SingleEdges
  <2> QED  BY <2>1 DEF StructureEdges, Edge
<1>4. CASE k \in DOMAIN ListLoop
  <2>1. Edge(ListLoop[k], i, KidsOf(n, k)[i]) \in ListEdges(n)
    BY <1>4 DEF ListEdges
  <2> QED  BY <2>1 DEF StructureEdges, Edge
<1> QED  BY <1>2, <1>3, <1>4 DEF Evaluated

\* The estimate of a fixture follows the edges of the structure, value by value.
LEMMA InstanceWithinStructure ==
  ASSUME NEW n, NEW p, NEW r, NEW e \in InstanceEdges(n, p, r)
  PROVE  \E f \in StructureEdges(n) : f.to = e.to[1]
<1> DEFINE Target(t) == \E f \in StructureEdges(n) : f.to = t[1]
<1>1. ASSUME NEW k \in Evaluated, NEW loop, NEW slot, NEW i, NEW q, NEW s,
             NEW d \in Once(n, loop, slot, k, i, q, s)
      PROVE  Target(d.to)
  <2>1. i \in DOMAIN KidsOf(n, k) /\ d.to = <<KidsOf(n, k)[i], q, s>>
    BY <1>1 DEF Once, Edge, InstanceKey
  <2> QED  BY <2>1, ChildIsTarget
<1>2. /\ "properties" \in Evaluated /\ "dependentSchemas" \in Evaluated
      /\ "additionalProperties" \in Evaluated /\ "propertyNames" \in Evaluated
      /\ "unevaluatedProperties" \in Evaluated /\ "prefixItems" \in Evaluated
      /\ "items" \in Evaluated /\ "contains" \in Evaluated /\ "unevaluatedItems" \in Evaluated
      /\ \A k \in {"not", "if", "then", "else", "allOf", "anyOf", "oneOf"} : k \in Evaluated
  BY DEF Evaluated, SingleRank, ListLoop
<1> HIDE DEF Target
<1>3. ASSUME NEW names, NEW d \in ObjectEdges(n, p, r, names)
      PROVE  Target(d.to)
  <2> DEFINE A == UNION {Once(n, 1, 0, "properties", a, Append(p, a), r)
                           \cup Once(n, 2, 0, "dependentSchemas", a, p, r) : a \in names}
             B == UNION {Once(n, 3, 0, "additionalProperties", 1, Append(p, a), r) :
                           a \in names \ DOMAIN KidsOf(n, "properties")}
             C == UNION {Once(n, 4, 0, "propertyNames", 1, p \o <<"@propertyName", a>>,
                              "property-name")
                           \cup Once(n, 5, 0, "unevaluatedProperties", 1, Append(p, a), r) :
                           a \in names}
  <2>1. d \in A \cup B \cup C
    BY DEF ObjectEdges
  <2>2. d \in A => Target(d.to)
    BY <1>1, <1>2
  <2>3. d \in B => Target(d.to)
    BY <1>1, <1>2
  <2>4. d \in C => Target(d.to)
    BY <1>1, <1>2
  <2> HIDE DEF A, B, C
  <2> QED  BY <2>1, <2>2, <2>3, <2>4
<1>4. ASSUME NEW indices, NEW d \in ArrayEdges(n, p, r, indices)
      PROVE  Target(d.to)
  <2> DEFINE prefix == DOMAIN KidsOf(n, "prefixItems")
             A == UNION {Once(n, 6, j, "prefixItems", j, Append(p, Token[j]), r) :
                           j \in indices \cap prefix}
             B == UNION {Once(n, 7, j, "items", 1, Append(p, Token[j]), r) :
                           j \in indices \ prefix}
             C == UNION {Once(n, 8, j, "contains", 1, Append(p, Token[j]), r)
                           \cup Once(n, 9, j, "unevaluatedItems", 1, Append(p, Token[j]), r) :
                           j \in indices}
  <2>1. d \in A \cup B \cup C
    BY DEF ArrayEdges
  <2>2. d \in A => Target(d.to)
    BY <1>1, <1>2
  <2>3. d \in B => Target(d.to)
    BY <1>1, <1>2
  <2>4. d \in C => Target(d.to)
    BY <1>1, <1>2
  <2> HIDE DEF A, B, C
  <2> QED  BY <2>1, <2>2, <2>3, <2>4
<1>5. \A f \in RefEdges(n) : Target(Edge(14, 0, InstanceKey(f.to, p, r)).to)
  BY DEF StructureEdges, Target, Edge, InstanceKey
<1>6. Target(e.to)
  <2> DEFINE A == {Edge(14, 0, InstanceKey(f.to, p, r)) : f \in RefEdges(n)}
             B == UNION {Once(n, 10, SingleRank[k], k, 1, p, r) :
                           k \in {"not", "if", "then", "else"}}
             C == UNION {UNION {Once(n, 6 + ListLoop[k], i, k, i, p, r) :
                                  i \in DOMAIN KidsOf(n, k)} : k \in {"allOf", "anyOf", "oneOf"}}
             D == ObjectEdges(n, p, r, ValueAt(p, r).names)
             E == ArrayEdges(n, p, r, 1..ValueAt(p, r).len)
  <2>1. \/ e \in A \/ e \in B \/ e \in C \/ e \in D \/ e \in E
    BY DEF InstanceEdges
  <2>2. e \in A => Target(e.to)
    BY <1>5
  <2>3. e \in B => Target(e.to)
    BY <1>1, <1>2
  <2>4. e \in C => Target(e.to)
    BY <1>1, <1>2
  <2>5. e \in D \/ e \in E => Target(e.to)
    BY <1>3, <1>4
  <2> HIDE DEF A, B, C, D, E
  <2> QED  BY <2>1, <2>2, <2>3, <2>4, <2>5
<1> QED  BY <1>6 DEF Target

\* A step that leaves the schema, the value and the pass leaves the edges.
LEMMA EdgesOfKept ==
  ASSUME schema' = schema, fixture' = fixture, pass' = pass
  PROVE  \A key : EdgesOf(key)' = EdgesOf(key)
BY EdgesKept DEF EdgesOf

-----------------------------------------------------------------------------
(* The walk of a pass.                                                       *)

Verdicts == {"none", "rejected", "accepted", "refused", "error"}

Shape ==
  /\ schema \in Schemas
  /\ pass \in Passes \cup {"fixture"}
  /\ verdict \in Verdicts
  /\ DOMAIN memo = Passes
  /\ IsStack(stack)
  /\ stack # <<>> => pass \in Passes /\ verdict = "none"
  /\ pass = "fixture" => verdict \notin {"rejected", "error"}

IsFrame(f) ==
  /\ f = [key |-> f.key, left |-> f.left, deep |-> f.deep, work |-> f.work, via |-> f.via]
  /\ f.work \in 1..(MaxWork + 1)
  /\ f.left \subseteq EdgesOf(f.key)

\* The stack is a path of edges between keys that are being visited, from the root.
Path ==
  /\ \A i \in 1..Len(stack) :
       /\ IsFrame(stack[i])
       /\ stack[i].key \in DOMAIN memo[pass] /\ memo[pass][stack[i].key].state = "visiting"
       /\ i < Len(stack) =>
            stack[i].via \in EdgesOf(stack[i].key) /\ stack[i].via.to = stack[i + 1].key
       /\ \A j \in 1..Len(stack) : stack[i].key = stack[j].key => i = j
  /\ stack # <<>> => stack[1].key = RootKey

\* What a memo holds is done, or in progress.
Memos ==
  \A p \in Passes : \A k \in DOMAIN memo[p] :
    /\ memo[p][k].state \in {"done", "visiting"}
    /\ memo[p][k].state = "done" /\ p # "proof" => memo[p][k].work \in 1..(MaxWork + 1)
    /\ memo[p][k].state = "visiting" /\ verdict \notin {"rejected", "error"} =>
         p = pass /\ \E i \in 1..Len(stack) : stack[i].key = k

WalkInv == Shape /\ Path /\ Memos

\* A result is put in the memo of the pass.
LEMMA Stored ==
  ASSUME DOMAIN memo = Passes, pass \in Passes, NEW key, NEW r, Store(key, r)
  PROVE  /\ DOMAIN memo' = Passes
         /\ \A q \in Passes : q # pass => memo'[q] = memo[q]
         /\ DOMAIN memo'[pass] = DOMAIN memo[pass] \cup {key}
         /\ memo'[pass][key] = r
         /\ \A k \in DOMAIN memo[pass] : k # key => memo'[pass][k] = memo[pass][k]
BY DEF Store, Memo, MemoKey

\* A call on a key not met before, in callers of which only the one on top has
\* changed, in what it has left and where it goes.
LEMMA CallWalk ==
  ASSUME WalkInv, pass \in Passes, verdict = "none", NEW key, NEW below, IsStack(below),
         Len(below) = Len(stack), key \notin DOMAIN memo[pass], Call(key, below),
         \A i \in 1..Len(stack) :
           /\ IsFrame(below[i]) /\ below[i].key = stack[i].key
           /\ i < Len(stack) => below[i] = stack[i],
         stack # <<>> => below[Len(stack)].via \in EdgesOf(stack[Len(stack)].key)
                         /\ below[Len(stack)].via.to = key,
         stack = <<>> => key = RootKey
  PROVE  WalkInv'
<1> DEFINE new == Frame(key)
<1>1. /\ Store(key, Visiting) /\ stack' = Append(below, new)
      /\ schema' = schema /\ fixture' = fixture /\ pass' = pass /\ verdict' = verdict
  BY DEF Call
<1>2. \A k : EdgesOf(k)' = EdgesOf(k)
  BY <1>1, EdgesOfKept
<1>3. /\ IsStack(stack') /\ Len(stack) \in Nat /\ Len(stack') = Len(stack) + 1
      /\ stack'[Len(stack) + 1] = new /\ \A i \in 1..Len(stack) : stack'[i] = below[i]
  BY <1>1, Pushed
<1>4. /\ DOMAIN memo' = Passes
      /\ \A q \in Passes : q # pass => memo'[q] = memo[q]
      /\ DOMAIN memo'[pass] = DOMAIN memo[pass] \cup {key}
      /\ memo'[pass][key] = Visiting
      /\ \A k \in DOMAIN memo[pass] : k # key => memo'[pass][k] = memo[pass][k]
  BY <1>1, Stored DEF WalkInv, Shape
<1>5. /\ \A f : IsFrame(f)' = IsFrame(f)
      /\ IsFrame(new) /\ new.key = key
  BY <1>2, LimitsAssumption DEF IsFrame, Frame
<1>6. Shape'
  BY <1>1, <1>3, <1>4 DEF WalkInv, Shape
<1>7. \A i \in 1..Len(stack) : stack[i].key \in DOMAIN memo[pass] /\ stack[i].key # key
  BY DEF WalkInv, Path
<1> HIDE DEF new
<1>8. Path'
  <2>1. ASSUME NEW i \in 1..Len(stack')
        PROVE  /\ IsFrame(stack[i])' 
               /\ stack'[i].key \in DOMAIN memo'[pass] 
               /\ memo'[pass][stack'[i].key].state = "visiting"
               /\ i < Len(stack') => stack'[i].via \in EdgesOf(stack[i].key)'
                                     /\ stack'[i].via.to = stack'[i + 1].key
               /\ \A j \in 1..Len(stack') : stack'[i].key = stack'[j].key => i = j
    <3>1. CASE i = Len(stack) + 1
      BY <1>3, <1>4, <1>5, <1>7, <3>1 DEF Visiting
    <3>2. CASE i \in 1..Len(stack)
      <4>1. stack'[i] = below[i] /\ below[i].key = stack[i].key
        BY <1>3, <3>2
      <4>2. IsFrame(stack[i])'
        BY <1>5, <4>1, <3>2
      <4>3. memo'[pass][stack[i].key].state = "visiting" /\ stack[i].key \in DOMAIN memo'[pass]
        BY <1>4, <1>7, <3>2 DEF WalkInv, Path
      <4>4. ASSUME NEW j \in 1..Len(stack'), stack'[i].key = stack'[j].key
            PROVE  i = j
        <5>1. CASE j = Len(stack) + 1
          BY <1>3, <1>5, <1>7, <3>2, <4>1, <4>4, <5>1
        <5>2. CASE j \in 1..Len(stack)
          BY <1>3, <3>2, <4>4, <5>2 DEF WalkInv, Path
        <5> QED  BY <1>3, <5>1, <5>2
      <4>5. stack'[i].via \in EdgesOf(stack[i].key)' /\ stack'[i].via.to = stack'[i + 1].key
        <5>1. CASE i = Len(stack)
          <6>1. stack # <<>>
            BY <5>1, <3>2
          <6> QED  BY <1>2, <1>3, <1>5, <4>1, <5>1, <6>1
        <5>2. CASE i < Len(stack)
          <6>1. /\ below[i] = stack[i] /\ i + 1 \in 1..Len(stack)
                /\ stack'[i + 1].key = stack[i + 1].key
            BY <1>3, <3>2, <5>2
          <6> QED  BY <1>2, <4>1, <6>1, <3>2, <5>2 DEF WalkInv, Path
        <5> QED  BY <1>3, <3>2, <5>1, <5>2
      <4> QED  BY <4>1, <4>2, <4>3, <4>4, <4>5
    <3> QED  BY <1>3, <3>1, <3>2
  <2>2. RootKey' = RootKey
    BY <1>1 DEF RootKey
  <2>3. stack'[1].key = RootKey
    <3>1. CASE stack = <<>>
      BY <1>3, <1>5, <3>1
    <3>2. CASE stack # <<>>
      <4>1. 1 \in 1..Len(stack)
        BY <3>2 DEF WalkInv, Shape, IsStack
      <4> QED  BY <1>3, <3>2, <4>1 DEF WalkInv, Path
    <3> QED  BY <3>1, <3>2
  <2> QED  BY <1>1, <2>1, <2>2, <2>3 DEF Path
<1>9. Memos'
  <2>1. ASSUME NEW p \in Passes, NEW k \in DOMAIN memo'[p]
        PROVE  /\ memo'[p][k].state \in {"done", "visiting"}
               /\ memo'[p][k].state = "done" /\ p # "proof" =>
                    memo'[p][k].work \in 1..(MaxWork + 1)
               /\ memo'[p][k].state = "visiting" =>
                    p = pass /\ \E i \in 1..Len(stack') : stack'[i].key = k
    <3>1. CASE p = pass /\ k = key
      <4>1. Len(stack) + 1 \in 1..Len(stack')
        BY <1>3
      <4> QED  BY <1>3, <1>4, <1>5, <3>1, <4>1 DEF Visiting
    <3>2. CASE p # pass \/ k # key
      <4>1. k \in DOMAIN memo[p] /\ memo'[p][k] = memo[p][k]
        BY <1>4, <3>2
      <4>2. \A i \in 1..Len(stack) : i \in 1..Len(stack') /\ stack'[i].key = stack[i].key
        BY <1>3
      <4> QED  BY <4>1, <4>2 DEF WalkInv, Memos
    <3> QED  BY <3>1, <3>2
  <2> QED  BY <1>1, <2>1 DEF Memos
<1> QED  BY <1>6, <1>8, <1>9 DEF WalkInv

\* A caller takes in the result of a child, and stays the frame it was.
LEMMA Absorbed ==
  ASSUME NEW f, IsFrame(f), NEW left, left \subseteq f.left, NEW e, NEW r,
         pass = "proof" \/ r.work \in 1..(MaxWork + 1)
  PROVE  /\ IsFrame(Absorb(f, left, e, r)) /\ Absorb(f, left, e, r).key = f.key
         /\ Absorb(f, left, e, r).via = e
         /\ pass = "proof" => Absorb(f, left, e, r).left = left
         /\ Absorb(f, left, e, r).deep = IF r.deep + 1 > f.deep THEN r.deep + 1 ELSE f.deep
<1> DEFINE work == IF pass = "proof" THEN f.work ELSE SaturatingAdd(f.work, r.work)
           deep == IF r.deep + 1 > f.deep THEN r.deep + 1 ELSE f.deep
           rest == LeftAfter(left, e, work)
<1>1. work \in 1..(MaxWork + 1)
  <2>1. f.work \in 1..(MaxWork + 1) /\ MaxWork \in Nat
    BY LimitsAssumption DEF IsFrame
  <2>2. CASE pass = "proof"
    BY <2>1, <2>2
  <2>3. CASE pass # "proof"
    <3>1. \A a, b \in 1..(MaxWork + 1) : SaturatingAdd(a, b) \in 1..(MaxWork + 1)
      BY <2>1 DEF SaturatingAdd
    <3> QED  BY <2>1, <2>3, <3>1
  <2> QED  BY <2>2, <2>3
<1>2. rest \subseteq left /\ (pass = "proof" => rest = left)
  BY DEF LeftAfter
<1> HIDE DEF work, rest, deep
<1>3. Absorb(f, left, e, r) =
        [key |-> f.key, left |-> rest, deep |-> deep, work |-> work, via |-> e]
  <2> DEFINE g == [f EXCEPT !.left = rest, !.work = work, !.via = e, !.deep = deep]
             h == [key |-> f.key, left |-> rest, deep |-> deep, work |-> work, via |-> e]
  <2>1. Absorb(f, left, e, r) = g
    BY DEF Absorb, work, rest, deep
  <2>2. f = [key |-> f.key, left |-> f.left, deep |-> f.deep, work |-> f.work, via |-> f.via]
    BY DEF IsFrame
  <2>3. DOMAIN f = {"key", "left", "deep", "work", "via"}
    BY <2>2
  <2>4. /\ g = [x \in DOMAIN f |-> g[x]] /\ DOMAIN g = DOMAIN f
        /\ g.key = f.key /\ g.left = rest /\ g.deep = deep /\ g.work = work /\ g.via = e
    BY <2>3
  <2>5. h = [x \in DOMAIN f |-> h[x]] /\ DOMAIN h = DOMAIN f
    BY <2>3
  <2> HIDE DEF g
  <2>6. \A x \in DOMAIN f : g[x] = h[x]
    BY <2>3, <2>4
  <2> HIDE DEF h
  <2>7. g = h
    BY <2>4, <2>5, <2>6
  <2> QED  BY <2>1, <2>7 DEF h
<1>4. f.left \subseteq EdgesOf(f.key)
  BY DEF IsFrame
<1>5. IsFrame([key |-> f.key, left |-> rest, deep |-> deep, work |-> work, via |-> e])
  BY <1>1, <1>2, <1>4 DEF IsFrame
<1> QED  BY <1>2, <1>3, <1>5 DEF deep

\* The frame on top has changed in what it has left, counted or visited.
LEMMA ReplacedWalk ==
  ASSUME WalkInv, stack # <<>>, NEW f, IsFrame(f), f.key = Top.key, stack' = Append(Below, f),
         UNCHANGED <<schema, fixture, pass, memo, verdict>>
  PROVE  WalkInv'
<1>1. \A g : IsFrame(g)' = IsFrame(g)
  BY EdgesOfKept DEF IsFrame
<1>2. /\ IsStack(stack') /\ Len(stack) \in Nat /\ Len(stack) >= 1 /\ Len(stack') = Len(stack)
      /\ stack'[Len(stack)] = f /\ \A i \in 1..(Len(stack) - 1) : stack'[i] = stack[i]
  BY Replaced DEF Below, WalkInv, Shape
<1>3. \A i \in 1..Len(stack) : stack'[i].key = stack[i].key
  BY <1>2 DEF Top
<1>4. Shape'
  BY <1>2 DEF WalkInv, Shape
<1>5. Path'
  <2>1. ASSUME NEW i \in 1..Len(stack')
        PROVE  /\ IsFrame(stack[i])'
               /\ stack'[i].key \in DOMAIN memo[pass]
               /\ memo[pass][stack'[i].key].state = "visiting"
               /\ i < Len(stack') => stack'[i].via \in EdgesOf(stack[i].key)'
                                     /\ stack'[i].via.to = stack'[i + 1].key
               /\ \A j \in 1..Len(stack') : stack'[i].key = stack'[j].key => i = j
    <3>1. IsFrame(stack[i])'
      BY <1>1, <1>2 DEF WalkInv, Path
    <3>2. /\ stack'[i].key \in DOMAIN memo[pass]
          /\ memo[pass][stack'[i].key].state = "visiting"
      BY <1>2, <1>3 DEF WalkInv, Path
    <3>3. \A j \in 1..Len(stack') : stack'[i].key = stack'[j].key => i = j
      BY <1>2, <1>3 DEF WalkInv, Path
    <3>4. ASSUME i < Len(stack')
          PROVE  stack'[i].via \in EdgesOf(stack[i].key)' /\ stack'[i].via.to = stack'[i + 1].key
      <4>1. stack'[i] = stack[i] /\ stack'[i + 1].key = stack[i + 1].key
        BY <1>2, <1>3, <3>4
      <4> QED  BY <1>2, <3>4, <4>1, EdgesOfKept DEF WalkInv, Path
    <3> QED  BY <3>1, <3>2, <3>3, <3>4
  <2>2. RootKey' = RootKey
    BY DEF RootKey
  <2>3. stack'[1].key = RootKey
    BY <1>2, <1>3 DEF WalkInv, Path
  <2> QED  BY <2>1, <2>2, <2>3 DEF Path
<1>6. Memos'
  BY <1>2, <1>3 DEF WalkInv, Memos
<1> QED  BY <1>4, <1>5, <1>6 DEF WalkInv

\* The frame on top returns to its caller.
LEMMA ReturnedWalk ==
  ASSUME WalkInv, Len(stack) > 1, NEW f, IsFrame(f), f.key = stack[Len(stack) - 1].key,
         NEW r, Store(Top.key, r), r.state = "done", pass # "proof" => r.work \in 1..(MaxWork + 1),
         stack' = Append(SubSeq(stack, 1, Len(stack) - 2), f),
         UNCHANGED <<schema, fixture, pass, verdict>>
  PROVE  WalkInv'
<1>1. \A g : IsFrame(g)' = IsFrame(g)
  BY EdgesOfKept DEF IsFrame
<1>2. /\ IsStack(stack') /\ Len(stack) \in Nat /\ Len(stack') = Len(stack) - 1
      /\ stack'[Len(stack) - 1] = f /\ \A i \in 1..(Len(stack) - 2) : stack'[i] = stack[i]
  BY Popped DEF WalkInv, Shape
<1>3. \A i \in 1..Len(stack') : i \in 1..Len(stack) /\ stack'[i].key = stack[i].key
  BY <1>2
<1>4. /\ DOMAIN memo' = Passes /\ pass \in Passes
      /\ \A q \in Passes : q # pass => memo'[q] = memo[q]
      /\ DOMAIN memo'[pass] = DOMAIN memo[pass] \cup {Top.key}
      /\ memo'[pass][Top.key] = r
      /\ \A k \in DOMAIN memo[pass] : k # Top.key => memo'[pass][k] = memo[pass][k]
  BY <1>2, Stored DEF WalkInv, Shape
<1>5. Shape'
  BY <1>2, <1>4 DEF WalkInv, Shape
<1>6. \A i \in 1..Len(stack') : stack[i].key # Top.key
  BY <1>2, <1>3 DEF Top, WalkInv, Path
<1>7. Path'
  <2>1. ASSUME NEW i \in 1..Len(stack')
        PROVE  /\ IsFrame(stack[i])'
               /\ stack'[i].key \in DOMAIN memo'[pass]
               /\ memo'[pass][stack'[i].key].state = "visiting"
               /\ i < Len(stack') => stack'[i].via \in EdgesOf(stack[i].key)'
                                     /\ stack'[i].via.to = stack'[i + 1].key
               /\ \A j \in 1..Len(stack') : stack'[i].key = stack'[j].key => i = j
    <3>1. IsFrame(stack[i])'
      BY <1>1, <1>2 DEF WalkInv, Path
    <3>2. /\ stack'[i].key \in DOMAIN memo'[pass]
          /\ memo'[pass][stack'[i].key].state = "visiting"
      <4>1. stack'[i].key = stack[i].key /\ stack[i].key # Top.key
        BY <1>3, <1>6
      <4>2. /\ stack[i].key \in DOMAIN memo[pass]
            /\ memo[pass][stack[i].key].state = "visiting"
        BY <1>3 DEF WalkInv, Path
      <4> QED  BY <1>4, <4>1, <4>2
    <3>3. \A j \in 1..Len(stack') : stack'[i].key = stack'[j].key => i = j
      BY <1>3 DEF WalkInv, Path
    <3>4. ASSUME i < Len(stack')
          PROVE  stack'[i].via \in EdgesOf(stack[i].key)' /\ stack'[i].via.to = stack'[i + 1].key
      <4>1. stack'[i] = stack[i] /\ stack'[i + 1].key = stack[i + 1].key /\ i < Len(stack)
        <5>1. i \in 1..(Len(stack) - 2) /\ i + 1 \in 1..Len(stack') /\ i < Len(stack)
          BY <1>2, <3>4
        <5>2. stack'[i] = stack[i]
          BY <1>2, <5>1
        <5>3. stack'[i + 1].key = stack[i + 1].key
          BY <1>3, <5>1
        <5> QED  BY <5>1, <5>2, <5>3
      <4>2. stack[i].via \in EdgesOf(stack[i].key) /\ stack[i].via.to = stack[i + 1].key
        BY <1>3, <4>1 DEF WalkInv, Path
      <4> QED  BY <4>1, <4>2, EdgesOfKept
    <3> QED  BY <3>1, <3>2, <3>3, <3>4
  <2>2. RootKey' = RootKey
    BY DEF RootKey
  <2>3. stack'[1].key = RootKey
    BY <1>2, <1>3 DEF WalkInv, Path
  <2> QED  BY <2>1, <2>2, <2>3 DEF Path
<1>8. Memos'
  <2>1. ASSUME NEW p \in Passes, NEW k \in DOMAIN memo'[p]
        PROVE  /\ memo'[p][k].state \in {"done", "visiting"}
               /\ memo'[p][k].state = "done" /\ p # "proof" =>
                    memo'[p][k].work \in 1..(MaxWork + 1)
               /\ memo'[p][k].state = "visiting" /\ verdict \notin {"rejected", "error"} =>
                    p = pass /\ \E i \in 1..Len(stack') : stack'[i].key = k
    <3>1. CASE p = pass /\ k = Top.key
      BY <1>4, <3>1
    <3>2. CASE p # pass \/ k # Top.key
      <4>1. k \in DOMAIN memo[p] /\ memo'[p][k] = memo[p][k]
        BY <1>4, <3>2
      <4>2. \A i \in 1..Len(stack) : stack[i].key = Top.key \/ i \in 1..Len(stack')
        BY <1>2 DEF Top
      <4>3. p = pass => k # Top.key
        BY <3>2
      <4>4. ASSUME memo[p][k].state = "visiting", verdict \notin {"rejected", "error"}
            PROVE  p = pass /\ \E i \in 1..Len(stack') : stack'[i].key = k
        <5>1. p = pass
          BY <4>1, <4>4 DEF WalkInv, Memos
        <5>2. PICK i \in 1..Len(stack) : stack[i].key = k
          BY <4>1, <4>4 DEF WalkInv, Memos
        <5>3. i \in 1..Len(stack') /\ stack'[i].key = k
          BY <1>3, <4>2, <4>3, <5>1, <5>2
        <5> QED  BY <5>1, <5>3
      <4> QED  BY <4>1, <4>4 DEF WalkInv, Memos
    <3> QED  BY <3>1, <3>2
  <2> QED  BY <2>1, <1>4 DEF Memos
<1> QED  BY <1>5, <1>7, <1>8 DEF WalkInv

\* A frame from which an edge is taken stays the frame it was.
LEMMA Left ==
  ASSUME NEW f, IsFrame(f), NEW e
  PROVE  LET g == [f EXCEPT !.left = @ \ {e}, !.via = e]
         IN /\ IsFrame(g) /\ g.key = f.key /\ g.via = e /\ g.left = f.left \ {e}
            /\ g.deep = f.deep
<1> DEFINE g == [f EXCEPT !.left = @ \ {e}, !.via = e]
           h == [key |-> f.key, left |-> f.left \ {e}, deep |-> f.deep, work |-> f.work, via |-> e]
<1>1. f = [key |-> f.key, left |-> f.left, deep |-> f.deep, work |-> f.work, via |-> f.via]
  BY DEF IsFrame
<1>2. DOMAIN f = {"key", "left", "deep", "work", "via"}
  BY <1>1
<1>3. /\ g = [x \in DOMAIN f |-> g[x]] /\ DOMAIN g = DOMAIN f
      /\ g.key = f.key /\ g.left = f.left \ {e} /\ g.deep = f.deep /\ g.work = f.work /\ g.via = e
  BY <1>2
<1>4. h = [x \in DOMAIN f |-> h[x]] /\ DOMAIN h = DOMAIN f
  BY <1>2
<1> HIDE DEF g
<1>5. \A x \in DOMAIN f : g[x] = h[x]
  BY <1>2, <1>3
<1> HIDE DEF h
<1>6. g = h
  BY <1>3, <1>4, <1>5
<1>7. f.left \subseteq EdgesOf(f.key) /\ f.work \in 1..(MaxWork + 1)
  BY DEF IsFrame
<1>8. IsFrame(h)
  BY <1>7 DEF IsFrame, h
<1> QED  BY <1>3, <1>6, <1>8 DEF g

\* A pass that has ended leaves no frame.
LEMMA EndWalk ==
  ASSUME WalkInv, stack' = <<>>, schema' \in Schemas, pass' \in Passes \cup {"fixture"},
         verdict' \in Verdicts, pass' = "fixture" => verdict' \notin {"rejected", "error"},
         DOMAIN memo' = Passes,
         \A p \in Passes : \A k \in DOMAIN memo'[p] :
           /\ memo'[p][k].state \in {"done", "visiting"}
           /\ memo'[p][k].state = "done" /\ p # "proof" => memo'[p][k].work \in 1..(MaxWork + 1)
           /\ memo'[p][k].state = "visiting" => verdict' \in {"rejected", "error"}
  PROVE  WalkInv'
<1>1. IsStack(stack)'
  <2>1. <<>> \in Seq({})
    OBVIOUS
  <2>2. IsStack(<<>>)
    BY <2>1, StackOf
  <2> QED  BY <2>2 DEF IsStack, Entries
<1>2. 1..Len(stack') = {}
  OBVIOUS
<1> QED  BY <1>1, <1>2 DEF WalkInv, Shape, Path, Memos

\* An error ends the pass.
LEMMA ConcludeWalk ==
  ASSUME WalkInv, pass \in Passes, NEW v \in {"rejected", "error"}, Conclude(v)
  PROVE  WalkInv'
<1>1. /\ pass # "fixture" /\ stack' = <<>> /\ verdict' = v
      /\ schema' = schema /\ pass' = pass /\ memo' = memo
  BY DEF Conclude, Passes
<1> QED  BY <1>1, EndWalk DEF WalkInv, Shape, Memos, Verdicts

\* What is known of the frame on top.
LEMMA TopFrame ==
  ASSUME WalkInv, stack # <<>>
  PROVE  /\ Len(stack) \in Nat /\ Len(stack) >= 1 /\ Len(stack) \in 1..Len(stack)
         /\ Top = stack[Len(stack)] /\ IsFrame(Top) /\ Top.left \subseteq EdgesOf(Top.key)
         /\ Top.key \in DOMAIN memo[pass] /\ memo[pass][Top.key].state = "visiting"
         /\ pass \in Passes /\ verdict = "none" /\ DOMAIN memo = Passes
<1>1. Len(stack) \in Nat /\ Len(stack) >= 1
  BY DEF WalkInv, Shape, IsStack
<1> QED  BY <1>1 DEF WalkInv, Shape, Path, Top, IsFrame

\* The visit of an edge the top frame has left.
LEMMA DescendWalk ==
  ASSUME WalkInv, stack # <<>>, NEW e \in Top.left, Descend(e)
  PROVE  WalkInv'
<1> DEFINE f == [Top EXCEPT !.left = @ \ {e}, !.via = e]
           below == Append(Below, f)
<1>1. IsFrame(f) /\ f.key = Top.key /\ f.via = e
  <2>1. IsFrame(Top)
    BY TopFrame
  <2> QED  BY <2>1, Left
<1> HIDE DEF f
<1>2. /\ IsStack(below) /\ Len(below) = Len(stack) /\ below[Len(stack)] = f
      /\ \A i \in 1..(Len(stack) - 1) : below[i] = stack[i]
  BY Replaced DEF Below, WalkInv, Shape
<1>3. e.to \notin DOMAIN memo[pass] /\ Call(e.to, below)
  BY DEF Descend, Known, MemoKey, Memo, f
<1> HIDE DEF below
<1>4. ASSUME NEW i \in 1..Len(stack)
      PROVE  /\ IsFrame(below[i]) /\ below[i].key = stack[i].key
             /\ i < Len(stack) => below[i] = stack[i]
  <2>1. CASE i = Len(stack)
    BY <1>1, <1>2, <2>1, TopFrame
  <2>2. CASE i \in 1..(Len(stack) - 1)
    BY <1>2, <2>2, TopFrame DEF WalkInv, Path
  <2> QED  BY <2>1, <2>2, TopFrame
<1>5. below[Len(stack)].via \in EdgesOf(stack[Len(stack)].key) /\ below[Len(stack)].via.to = e.to
  BY <1>1, <1>2, TopFrame
<1> QED  BY <1>2, <1>3, <1>4, <1>5, TopFrame, CallWalk

\* A child met again is taken in by the frame on top.
LEMMA RevisitWalk ==
  ASSUME WalkInv, stack # <<>>, NEW e \in Top.left, Revisit(e)
  PROVE  WalkInv'
<1> DEFINE f == Absorb(Top, Top.left \ {e}, e, Recall(e.to))
<1>1. e.to \in DOMAIN memo[pass] /\ memo[pass][e.to].state # "visiting"
  BY DEF Revisit, Survives, Known, Recall, MemoKey, Memo
<1>2. pass # "proof" => Recall(e.to).work \in 1..(MaxWork + 1)
  BY <1>1, TopFrame DEF WalkInv, Memos, Recall, MemoKey, Memo
<1>3. IsFrame(f) /\ f.key = Top.key
  <2>1. IsFrame(Top)
    BY TopFrame
  <2>2. Top.left \ {e} \subseteq Top.left
    OBVIOUS
  <2>3. pass = "proof" \/ Recall(e.to).work \in 1..(MaxWork + 1)
    BY <1>2
  <2>4. IsFrame(f)
    BY <2>1, <2>2, <2>3, Absorbed
  <2>5. f.key = Top.key
    BY <2>1, <2>2, <2>3, Absorbed
  <2> QED  BY <2>4, <2>5
<1>4. stack' = Append(Below, f) /\ UNCHANGED <<schema, fixture, pass, memo, verdict>>
  BY DEF Revisit
<1> HIDE DEF f
<1> QED  BY <1>3, <1>4, ReplacedWalk

\* The result of a frame can be put in a memo.
LEMMA ReturnedWork ==
  ASSUME WalkInv, stack # <<>>
  PROVE  Returned.state = "done" /\ (pass # "proof" => Returned.work \in 1..(MaxWork + 1))
BY TopFrame DEF Returned, Result, IsFrame

\* A frame that returns is taken in by its caller.
LEMMA FinishWalk ==
  ASSUME WalkInv, Finish
  PROVE  WalkInv'
<1>1. Len(stack) > 1 /\ stack # <<>>
  BY DEF Finish, Finished
<1> DEFINE caller == stack[Len(stack) - 1]
           f == Absorb(caller, caller.left, caller.via, Returned)
<1>2. IsFrame(caller)
  BY <1>1, TopFrame DEF WalkInv, Path
<1>3. IsFrame(f) /\ f.key = caller.key
  <2>1. pass = "proof" \/ Returned.work \in 1..(MaxWork + 1)
    BY <1>1, ReturnedWork
  <2>2. caller.left \subseteq caller.left
    OBVIOUS
  <2> HIDE DEF caller
  <2>3. IsFrame(f)
    BY <1>2, <2>1, <2>2, Absorbed
  <2>4. f.key = caller.key
    BY <1>2, <2>1, <2>2, Absorbed
  <2> QED  BY <2>3, <2>4
<1>4. /\ stack' = Append(SubSeq(stack, 1, Len(stack) - 2), f) /\ Store(Top.key, Returned)
      /\ UNCHANGED <<schema, fixture, pass, verdict>>
  BY DEF Finish, Finished
<1> HIDE DEF f
<1> QED  BY <1>1, <1>3, <1>4, ReturnedWork, ReturnedWalk

\* The frame of the root returns.
LEMMA FinishPassWalk ==
  ASSUME WalkInv, FinishPass
  PROVE  WalkInv'
<1>1. /\ Len(stack) = 1 /\ stack # <<>> /\ stack' = <<>> /\ schema' = schema
      /\ Store(Top.key, Returned)
  BY DEF FinishPass, Finished
<1>2. /\ DOMAIN memo' = Passes
      /\ \A q \in Passes : q # pass => memo'[q] = memo[q]
      /\ DOMAIN memo'[pass] = DOMAIN memo[pass] \cup {Top.key}
      /\ memo'[pass][Top.key] = Returned
      /\ \A k \in DOMAIN memo[pass] : k # Top.key => memo'[pass][k] = memo[pass][k]
  BY <1>1, TopFrame, Stored
<1>3. ASSUME NEW p \in Passes, NEW k \in DOMAIN memo'[p]
      PROVE  /\ memo'[p][k].state = "done"
             /\ p # "proof" => memo'[p][k].work \in 1..(MaxWork + 1)
  <2>1. CASE p = pass /\ k = Top.key
    BY <1>1, <1>2, <2>1, ReturnedWork
  <2>2. CASE p # pass \/ k # Top.key
    <3>1. k \in DOMAIN memo[p] /\ memo'[p][k] = memo[p][k]
      BY <1>2, <2>2
    <3>2. memo[p][k].state # "visiting"
      <4>1. SUFFICES ASSUME memo[p][k].state = "visiting" PROVE FALSE
        OBVIOUS
      <4>2. p = pass /\ \E i \in 1..Len(stack) : stack[i].key = k
        BY <1>1, <3>1, <4>1, TopFrame DEF WalkInv, Memos
      <4> QED  BY <1>1, <2>2, <4>2 DEF Top
    <3> QED  BY <3>1, <3>2 DEF WalkInv, Memos
  <2> QED  BY <2>1, <2>2
<1>4. /\ pass' \in Passes \cup {"fixture"} /\ verdict' \in Verdicts
      /\ pass' = "fixture" => verdict' \notin {"rejected", "error"}
  BY <1>1, TopFrame DEF FinishPass, Passes, Verdicts
<1> QED  BY <1>1, <1>2, <1>3, <1>4, EndWalk DEF WalkInv, Shape

\* The walk goes on as it should, whatever it meets.
LEMMA WalkInit == Init => WalkInv
<1> SUFFICES ASSUME Init PROVE WalkInv
  OBVIOUS
<1>1. IsStack(<<>>) /\ 1..Len(<<>>) = {} /\ DOMAIN memo = Passes
  <2>1. <<>> \in Seq({})
    OBVIOUS
  <2>2. IsStack(<<>>)
    BY <2>1, StackOf
  <2> QED  BY <2>2 DEF Init, Passes
<1>2. \A p \in Passes : DOMAIN memo[p] = {}
  BY DEF Init, Passes, Empty
<1> QED  BY <1>1, <1>2 DEF Init, WalkInv, Shape, Path, Memos, Passes, Verdicts

\* Every step of every pass keeps the walk.
LEMMA WalkStep == WalkInv /\ [Next]_vars => WalkInv'
<1> SUFFICES ASSUME WalkInv, [Next]_vars PROVE WalkInv'
  OBVIOUS
<1>1. CASE Begin
  <2>1. CASE pass = "proof" /\ Malformed(Root)
    BY <1>1, <2>1, ConcludeWalk DEF Begin, Passes
  <2>2. CASE ~(pass = "proof" /\ Malformed(Root))
    <3>1. Call(RootKey, <<>>) /\ pass \in Passes /\ verdict = "none" /\ Memo = Empty
      BY <1>1, <2>2 DEF Begin, WalkInv, Shape
    <3>2. RootKey \notin DOMAIN memo[pass]
      BY <3>1 DEF Memo, Empty
    <3>3. stack = <<>>
      <4>1. stack # <<>> => Top.key \in DOMAIN memo[pass]
        BY TopFrame
      <4> QED  BY <3>1, <4>1 DEF Memo, Empty
    <3>4. IsStack(<<>>) /\ 1..Len(stack) = {}
      BY <3>3 DEF WalkInv, Shape
    <3> QED  BY <3>1, <3>2, <3>3, <3>4, CallWalk
  <2> QED  BY <2>1, <2>2
<1>2. CASE Visit
  <2>1. stack # <<>>
    BY <1>2 DEF Visit
  <2>2. PICK e \in Top.left : Descend(e) \/ Revisit(e) \/ Fail(e)
    BY <1>2 DEF Visit, NextEdges
  <2>3. CASE Fail(e)
    BY <2>1, <2>3, TopFrame, ConcludeWalk DEF Fail
  <2> QED  BY <2>1, <2>2, <2>3, DescendWalk, RevisitWalk
<1>3. CASE Unproved
  BY <1>3, TopFrame, ConcludeWalk DEF Unproved
<1>4. CASE ValidateFixture
  <2>1. /\ stack' = stack /\ schema' = schema /\ pass' = "instance" /\ verdict' = "none"
        /\ memo' = [memo EXCEPT !["instance"] = Empty] /\ pass = "fixture"
    BY <1>4 DEF ValidateFixture
  <2>2. stack = <<>>
    BY <2>1 DEF WalkInv, Shape, Passes
  <2>3. ASSUME NEW p \in Passes, NEW k \in DOMAIN memo'[p]
        PROVE  memo'[p] = memo[p] /\ k \in DOMAIN memo[p]
    BY <2>1 DEF WalkInv, Shape, Empty
  <2>4. verdict \notin {"rejected", "error"}
    BY <2>1 DEF WalkInv, Shape
  <2>5. \A p \in Passes : \A k \in DOMAIN memo[p] : memo[p][k].state # "visiting"
    BY <2>1, <2>4 DEF WalkInv, Memos, Passes
  <2>6. DOMAIN memo' = Passes
    BY <2>1 DEF WalkInv, Shape
  <2>7. schema' \in Schemas /\ stack' = <<>>
    BY <2>1, <2>2 DEF WalkInv, Shape
  <2>8. ASSUME NEW p \in Passes, NEW k \in DOMAIN memo'[p]
        PROVE  /\ memo'[p][k].state = "done"
               /\ p # "proof" => memo'[p][k].work \in 1..(MaxWork + 1)
    <3>1. memo'[p] = memo[p] /\ k \in DOMAIN memo[p]
      BY <2>3
    <3>2. memo[p][k].state = "done"
      BY <2>5, <3>1 DEF WalkInv, Memos
    <3> QED  BY <3>1, <3>2 DEF WalkInv, Memos
  <2> QED  BY <2>1, <2>6, <2>7, <2>8, EndWalk DEF Passes, Verdicts
<1>5. CASE UNCHANGED vars
  <2>1. UNCHANGED <<schema, fixture, pass, memo, stack, verdict>>
    BY <1>5 DEF vars
  <2>2. \A key : EdgesOf(key)' = EdgesOf(key)
    BY <2>1, EdgesOfKept
  <2>3. /\ \A f : IsFrame(f)' = IsFrame(f)
        /\ RootKey' = RootKey
    BY <2>1, <2>2 DEF IsFrame, RootKey
  <2>4. Path'
    BY <2>1, <2>2, <2>3 DEF WalkInv, Path
  <2>5. Shape' /\ Memos'
    BY <2>1 DEF WalkInv, Shape, Memos
  <2> QED  BY <2>4, <2>5 DEF WalkInv
<1> QED  BY <1>1, <1>2, <1>3, <1>4, <1>5, FinishWalk, FinishPassWalk DEF Next

-----------------------------------------------------------------------------
(* What the proof leaves in its memo.                                        *)

Proved(n) == n \in DOMAIN memo["proof"] /\ memo["proof"][n].state = "done"
Deep(n) == memo["proof"][n].deep

\* A node is proved after all its children, with what it says of them.
Settled(n) ==
  /\ Deep(n) \in Nat
  /\ memo["proof"][n].mode # "open" /\ memo["proof"][n].mode = Admission(n)
  /\ ~Malformed(n)
  /\ \A e \in ProofEdges(n) : Proved(e.to) /\ Deep(e.to) < Deep(n)

\* A frame of the proof has counted the children it does not have left, but the
\* one it is waiting for.
Counted(i) ==
  /\ ~Malformed(stack[i].key)
  /\ stack[i].deep \in Nat
  /\ \A e \in ProofEdges(stack[i].key) :
       \/ e \in stack[i].left
       \/ Proved(e.to) /\ Deep(e.to) < stack[i].deep
       \/ i < Len(stack) /\ e = stack[i].via

ProofInv ==
  /\ DOMAIN memo["proof"] \subseteq DOMAIN schema
  /\ \A n \in DOMAIN memo["proof"] : Proved(n) => Settled(n)
  /\ pass = "proof" => \A i \in 1..Len(stack) : Counted(i)
  /\ pass # "proof" =>
       /\ Root \in DOMAIN memo["proof"] /\ Deep(Root) <= MaxDepth
       /\ \A n \in DOMAIN memo["proof"] : Proved(n)
  /\ ops \in 0..MaxOps
  /\ pass = "proof" /\ Memo = Empty => ops = 0

\* The admission of a node depends on the results of its children alone.
LEMMA AdmissionKept ==
  ASSUME schema \in Schemas, schema' = schema, NEW n \in DOMAIN schema,
         \A e \in ProofEdges(n) : memo'["proof"][e.to] = memo["proof"][e.to]
  PROVE  Admission(n)' = Admission(n)
<1>1. /\ \A k : ChildrenOf(n, k)' = ChildrenOf(n, k)
      /\ RefEdges(n)' = RefEdges(n)
      /\ OwnMode(n)' = OwnMode(n) /\ LiteralMode(n)' = LiteralMode(n)
  BY DEF ChildrenOf, KidsOf, RefEdges, OwnMode, LiteralMode
<1> DEFINE Modes(k) == {memo["proof"][c].mode : c \in ChildrenOf(n, k)}
           Refs == {memo["proof"][e.to].mode : e \in RefEdges(n)}
           Union(k) == IF k \in DOMAIN schema[n].kids THEN {Widest(Modes(k))} ELSE {}
<1>4. ASSUME \A k \in {"allOf", "anyOf", "oneOf"} : Modes(k)' = Modes(k), Refs' = Refs
      PROVE  Admission(n)' = Admission(n)
  <2>1. Union("anyOf")' = Union("anyOf") /\ Union("oneOf")' = Union("oneOf")
    BY <1>4 DEF Widest
  <2>2. Admission(n) =
          CASE schema[n].form \in {"false", "policy"} -> "excluded"
            [] schema[n].form = "const" -> "closed"
            [] OTHER -> Narrowest({OwnMode(n), LiteralMode(n)} \cup Refs
                                    \cup Modes("allOf") \cup Union("anyOf") \cup Union("oneOf"))
    BY DEF Admission
  <2>3. Admission(n)' =
          CASE schema[n].form \in {"false", "policy"} -> "excluded"
            [] schema[n].form = "const" -> "closed"
            [] OTHER -> Narrowest({OwnMode(n)', LiteralMode(n)'} \cup Refs'
                          \cup Modes("allOf")' \cup Union("anyOf")' \cup Union("oneOf")')
    BY DEF Admission, Narrowest
  <2> QED  BY <1>1, <1>4, <2>1, <2>2, <2>3
<1>2. CASE schema[n].form = "object"
  <2>1. \A e \in RefEdges(n) : memo'["proof"][e.to].mode = memo["proof"][e.to].mode
    BY <1>2 DEF ProofEdges
  <2>2. ASSUME NEW k \in DOMAIN ListLoop, NEW c \in ChildrenOf(n, k)
        PROVE  memo'["proof"][c].mode = memo["proof"][c].mode
    <3>1. PICK i \in DOMAIN KidsOf(n, k) : c = KidsOf(n, k)[i]
      BY DEF ChildrenOf
    <3>2. Edge(ListLoop[k], i, c) \in ProofEdges(n)
      BY <1>2, <3>1 DEF ProofEdges, ListEdges
    <3> QED  BY <3>2 DEF Edge
  <2>3. \A k \in {"allOf", "anyOf", "oneOf"} :
          {memo'["proof"][c].mode : c \in ChildrenOf(n, k)} =
          {memo["proof"][c].mode : c \in ChildrenOf(n, k)}
    BY <2>2 DEF ListLoop
  <2>4. {memo'["proof"][e.to].mode : e \in RefEdges(n)} =
        {memo["proof"][e.to].mode : e \in RefEdges(n)}
    BY <2>1
  <2>5. \A k \in {"allOf", "anyOf", "oneOf"} : Modes(k)' = Modes(k)
    BY <1>1, <2>3
  <2>6. Refs' = Refs
    BY <1>1, <2>4
  <2> QED  BY <1>4, <2>5, <2>6
<1>3. CASE schema[n].form # "object"
  <2>1. /\ RefEdges(n) = {} /\ \A k : ChildrenOf(n, k) = {}
    BY <1>3, Childless
  <2>2. \A k \in {"allOf", "anyOf", "oneOf"} : Modes(k)' = Modes(k)
    BY <1>1, <2>1
  <2>3. Refs' = Refs
    BY <1>1, <2>1
  <2> QED  BY <1>4, <2>2, <2>3
<1> QED  BY <1>2, <1>3

\* What is proved stays so.
LEMMA SettledKept ==
  ASSUME schema \in Schemas, schema' = schema, NEW n \in DOMAIN schema, Proved(n), Settled(n),
         \A m : Proved(m) => m \in DOMAIN memo'["proof"] /\ memo'["proof"][m] = memo["proof"][m]
  PROVE  Settled(n)'
<1>1. \A m : Proved(m) => Proved(m)' /\ memo'["proof"][m] = memo["proof"][m]
  BY DEF Proved
<1>2. \A e \in ProofEdges(n) : Proved(e.to)
  BY DEF Settled
<1>3. Admission(n)' = Admission(n)
  BY <1>1, <1>2, AdmissionKept
<1>4. ProofEdges(n)' = ProofEdges(n) /\ Malformed(n)' = Malformed(n)
  BY EdgesKept
<1> QED  BY <1>1, <1>2, <1>3, <1>4 DEF Settled, Deep

\* Nothing proved is lost: a memo only grows, and what it holds in progress is
\* not proved.
Keeps == \A m : Proved(m) => Proved(m)' /\ memo'["proof"][m] = memo["proof"][m]

\* What was proved stays settled: what it rests on is proved with it.
LEMMA ProvedNodes ==
  ASSUME WalkInv, ProofInv, Keeps, schema' = schema
  PROVE  \A n : Proved(n) => Settled(n)'
<1> SUFFICES ASSUME NEW n, Proved(n) PROVE Settled(n)'
  OBVIOUS
<1>1. n \in DOMAIN schema /\ Settled(n) /\ schema \in Schemas
  BY DEF ProofInv, Proved, WalkInv, Shape
<1> QED  BY <1>1, SettledKept DEF Keeps, Proved

\* A step of an estimate leaves the proof alone.
LEMMA EstimateProof ==
  ASSUME WalkInv, ProofInv, pass # "proof", pass' # "proof", schema' = schema, ops' = ops,
         memo'["proof"] = memo["proof"]
  PROVE  ProofInv'
<1>1. Keeps /\ \A n : Proved(n)' = Proved(n) /\ Deep(n)' = Deep(n)
  BY DEF Keeps, Proved, Deep
<1>2. \A n \in DOMAIN memo'["proof"] : Proved(n)' => Settled(n)'
  BY <1>1, ProvedNodes
<1> QED  BY <1>1, <1>2 DEF ProofInv

\* The memo of an estimate is not the one of the proof.
LEMMA StoreElsewhere ==
  ASSUME WalkInv, pass # "proof", pass \in Passes, NEW key, NEW r, Store(key, r)
  PROVE  memo'["proof"] = memo["proof"]
BY Stored DEF WalkInv, Shape, Passes

\* A node the proof meets is a node of the schema and well-formed, and has all
\* its children left.
LEMMA CallProof ==
  ASSUME WalkInv, ProofInv, pass = "proof", NEW key \in DOMAIN schema, NEW below, IsStack(below),
         Len(below) = Len(stack), ~Proved(key), Call(key, below), ~Malformed(key),
         ops' \in 0..MaxOps,
         \A i \in 1..Len(stack) :
           /\ below[i].key = stack[i].key /\ below[i].deep \in Nat
           /\ \A e \in ProofEdges(stack[i].key) :
                \/ e \in below[i].left
                \/ Proved(e.to) /\ Deep(e.to) < below[i].deep
                \/ e = below[i].via
  PROVE  ProofInv'
<1> DEFINE new == Frame(key)
<1>1. /\ Store(key, Visiting) /\ stack' = Append(below, new)
      /\ schema' = schema /\ fixture' = fixture /\ pass' = pass /\ verdict' = verdict
  BY DEF Call
<1>2. /\ IsStack(stack') /\ Len(stack) \in Nat /\ Len(stack') = Len(stack) + 1
      /\ stack'[Len(stack) + 1] = new /\ \A i \in 1..Len(stack) : stack'[i] = below[i]
  BY <1>1, Pushed
<1>3. /\ DOMAIN memo'["proof"] = DOMAIN memo["proof"] \cup {key}
      /\ memo'["proof"][key] = Visiting
      /\ \A k \in DOMAIN memo["proof"] : k # key => memo'["proof"][k] = memo["proof"][k]
  BY <1>1, Stored DEF WalkInv, Shape, Passes
<1>4. Keeps /\ \A n : Proved(n)' = Proved(n)
  BY <1>3 DEF Keeps, Proved, Visiting
<1>5. new.key = key /\ new.deep = 0 /\ new.left = ProofEdges(key)
  BY DEF Frame, EdgesOf
<1> HIDE DEF new
<1>6. ASSUME NEW i \in 1..Len(stack')
      PROVE  Counted(i)'
  <2>1. /\ ProofEdges(stack[i].key)' = ProofEdges(stack'[i].key)
        /\ Malformed(stack[i].key)' = Malformed(stack'[i].key)
    BY <1>1, EdgesKept
  <2>2. CASE i = Len(stack) + 1
    BY <1>2, <1>5, <2>1, <2>2 DEF Counted
  <2>3. CASE i \in 1..Len(stack)
    <3>1. stack'[i] = below[i] /\ below[i].key = stack[i].key /\ i < Len(stack')
      BY <1>2, <2>3
    <3>2. ~Malformed(stack[i].key)
      BY <2>3 DEF ProofInv, Counted
    <3>3. \A e : Proved(e.to) => Proved(e.to)' /\ Deep(e.to)' = Deep(e.to)
      BY <1>4 DEF Keeps, Deep
    <3> QED  BY <2>1, <2>3, <3>1, <3>2, <3>3 DEF Counted
  <2> QED  BY <1>2, <2>2, <2>3
<1>7. \A n \in DOMAIN memo'["proof"] : Proved(n)' => Settled(n)'
  BY <1>1, <1>4, ProvedNodes
<1>8. DOMAIN memo'["proof"] \subseteq DOMAIN schema' /\ memo'[pass'] # Empty
  BY <1>1, <1>3 DEF ProofInv, Empty
<1> QED  BY <1>1, <1>6, <1>7, <1>8 DEF ProofInv, Memo

\* A node met again is proved, and its depth counts in full.
LEMMA RevisitProof ==
  ASSUME WalkInv, ProofInv, pass = "proof", stack # <<>>, NEW e \in Top.left, Revisit(e)
  PROVE  ProofInv'
<1> DEFINE f == Absorb(Top, Top.left \ {e}, e, Recall(e.to))
<1>1. /\ stack' = Append(Below, f) /\ UNCHANGED <<schema, fixture, pass, memo, verdict>>
      /\ ops' = ops + RefOps(e) /\ ops + RefOps(e) <= MaxOps /\ Proved(e.to)
      /\ Recall(e.to).deep = Deep(e.to)
  BY DEF Revisit, Survives, Known, Recall, MemoKey, Memo, Proved, WalkInv, Memos, Passes, Deep
<1>2. Deep(e.to) \in Nat
  BY <1>1 DEF ProofInv, Settled, Proved
<1>3. /\ f.key = Top.key /\ f.via = e /\ f.left = Top.left \ {e}
      /\ f.deep = IF Deep(e.to) + 1 > Top.deep THEN Deep(e.to) + 1 ELSE Top.deep
  <2>1. IsFrame(Top)
    BY TopFrame
  <2>2. Top.left \ {e} \subseteq Top.left
    OBVIOUS
  <2> QED  BY <1>1, <2>1, <2>2, Absorbed
<1> HIDE DEF f
<1>4. /\ Len(stack) \in Nat /\ Len(stack) >= 1 /\ Len(stack') = Len(stack)
      /\ stack'[Len(stack)] = f /\ \A i \in 1..(Len(stack) - 1) : stack'[i] = stack[i]
  BY <1>1, Replaced DEF Below, WalkInv, Shape
<1>5. Keeps /\ \A n : Proved(n)' = Proved(n) /\ Deep(n)' = Deep(n)
  BY <1>1 DEF Keeps, Proved, Deep
<1>6. ASSUME NEW i \in 1..Len(stack')
      PROVE  Counted(i)'
  <2>1. /\ ProofEdges(stack[i].key)' = ProofEdges(stack'[i].key)
        /\ Malformed(stack[i].key)' = Malformed(stack'[i].key)
    BY <1>1, EdgesKept
  <2>2. Counted(i)
    BY <1>1, <1>4 DEF ProofInv
  <2>3. CASE i = Len(stack)
    <3>1. Top.deep \in Nat /\ stack[i] = Top /\ stack'[i] = f
      BY <1>4, <2>2, <2>3 DEF Counted, Top
    <3>2. f.deep \in Nat /\ f.deep >= Top.deep /\ Deep(e.to) < f.deep
      BY <1>2, <1>3, <3>1
    <3>3. ASSUME NEW d \in ProofEdges(Top.key)
          PROVE  d \in f.left \/ (Proved(d.to)' /\ Deep(d.to)' < f.deep)
      <4>1. CASE d = e
        BY <1>1, <1>5, <3>2, <4>1
      <4>2. CASE d # e
        <5>1. d \in Top.left \/ (Proved(d.to) /\ Deep(d.to) < Top.deep)
          BY <1>4, <2>2, <2>3, <3>1 DEF Counted
        <5>2. Proved(d.to) => Deep(d.to) \in Nat
          BY DEF ProofInv, Settled, Proved
        <5> QED  BY <1>3, <1>5, <3>1, <3>2, <4>2, <5>1, <5>2
      <4> QED  BY <4>1, <4>2
    <3> QED  BY <1>3, <2>1, <2>2, <3>1, <3>2, <3>3 DEF Counted
  <2>4. CASE i \in 1..(Len(stack) - 1)
    BY <1>4, <1>5, <2>1, <2>2, <2>4 DEF Counted
  <2> QED  BY <1>4, <2>3, <2>4
<1>7. \A n \in DOMAIN memo'["proof"] : Proved(n)' => Settled(n)'
  BY <1>1, <1>5, ProvedNodes
<1>8. ops' \in 0..MaxOps
  BY <1>1, LimitsAssumption DEF ProofInv, RefOps
<1>9. memo["proof"] # Empty
  BY TopFrame DEF Empty
<1> QED  BY <1>1, <1>6, <1>7, <1>8, <1>9 DEF ProofInv, Memo

\* A node met for the first time is well-formed and within the depth.
LEMMA DescendProof ==
  ASSUME WalkInv, ProofInv, pass = "proof", stack # <<>>, NEW e \in Top.left, Descend(e)
  PROVE  ProofInv'
<1> DEFINE f == [Top EXCEPT !.left = @ \ {e}, !.via = e]
           below == Append(Below, f)
<1>1. f.key = Top.key /\ f.via = e /\ f.left = Top.left \ {e} /\ f.deep = Top.deep
  <2>1. IsFrame(Top)
    BY TopFrame
  <2> QED  BY <2>1, Left
<1> HIDE DEF f
<1>2. /\ Len(stack) \in Nat /\ IsStack(below) /\ Len(below) = Len(stack) /\ below[Len(stack)] = f
      /\ \A i \in 1..(Len(stack) - 1) : below[i] = stack[i]
  BY Replaced DEF Below, WalkInv, Shape
<1>3. /\ Call(e.to, below) /\ e.to \notin DOMAIN memo["proof"] /\ ~Malformed(e.to) /\ e.to # NoNode
      /\ ops' = ops + RefOps(e) + 1 /\ ops + RefOps(e) < MaxOps
  BY DEF Descend, Survives, Known, MemoKey, Memo, f, NodeOps
<1> HIDE DEF below
<1>4. Top.key \in DOMAIN schema /\ e \in ProofEdges(Top.key)
  BY TopFrame DEF ProofInv, EdgesOf
<1>5. e.to \in DOMAIN schema
  BY <1>3, <1>4, EdgeTargets DEF WalkInv, Shape
<1>6. ops' \in 0..MaxOps
  BY <1>3, LimitsAssumption DEF ProofInv, RefOps
<1>7. ASSUME NEW i \in 1..Len(stack)
      PROVE  /\ below[i].key = stack[i].key /\ below[i].deep \in Nat
             /\ \A d \in ProofEdges(stack[i].key) :
                  \/ d \in below[i].left
                  \/ Proved(d.to) /\ Deep(d.to) < below[i].deep
                  \/ d = below[i].via
  <2>1. Counted(i)
    BY DEF ProofInv
  <2>2. CASE i = Len(stack)
    BY <1>1, <1>2, <2>1, <2>2 DEF Counted, Top
  <2>3. CASE i \in 1..(Len(stack) - 1)
    BY <1>2, <2>1, <2>3 DEF Counted
  <2> QED  BY <1>2, <2>2, <2>3
<1> QED  BY <1>2, <1>3, <1>5, <1>6, <1>7, CallProof DEF Proved

\* What the frame on top returns from the proof settles its node.
LEMMA ReturnedProof ==
  ASSUME WalkInv, ProofInv, pass = "proof", stack # <<>>, Finished
  PROVE  /\ Top.key \in DOMAIN schema /\ ~Proved(Top.key) /\ ~Malformed(Top.key)
         /\ Returned.state = "done" /\ Returned.deep \in Nat
         /\ Returned.mode # "open" /\ Returned.mode = Admission(Top.key)
         /\ \A e \in ProofEdges(Top.key) : Proved(e.to) /\ Deep(e.to) < Returned.deep
         /\ Len(stack) - 1 + Returned.deep <= MaxDepth
         /\ ops' \in 0..MaxOps
<1>1. /\ Top.key \in DOMAIN schema /\ memo["proof"][Top.key].state = "visiting"
      /\ Top = stack[Len(stack)] /\ Len(stack) \in 1..Len(stack) /\ Top.left = {}
  BY TopFrame DEF ProofInv, Finished
<1>2. Counted(Len(stack))
  BY <1>1 DEF ProofInv
<1>3. schema[Top.key].height \in Nat /\ schema[Top.key].size \in Nat
  BY <1>1, SchemasAssumption DEF WalkInv, Shape
<1>4. /\ Returned.state = "done" /\ Returned.mode = Admission(Top.key)
      /\ Returned.deep = Top.deep + Height(Top.key)
  BY DEF Returned, Result
<1>5. Height(Top.key) \in Nat /\ LiteralOps(Top.key) \in Nat
  BY <1>3 DEF Height, LiteralOps
<1>6. Top.deep \in Nat
  BY <1>1, <1>2 DEF Counted
<1>7. /\ Admission(Top.key) # "open" /\ ~(ops + LiteralOps(Top.key) > MaxOps)
      /\ ~(Len(stack) - 1 + Returned.deep > MaxDepth) /\ ops' = ops + LiteralOps(Top.key)
  BY DEF Finished, Unprovable
<1>8. ops' \in 0..MaxOps
  BY <1>5, <1>7, LimitsAssumption DEF ProofInv
<1>9. ASSUME NEW e \in ProofEdges(Top.key)
      PROVE  Proved(e.to) /\ Deep(e.to) < Returned.deep
  <2>1. Proved(e.to) /\ Deep(e.to) < Top.deep
    BY <1>1, <1>2, TopFrame DEF Counted
  <2>2. Deep(e.to) \in Nat
    BY <2>1 DEF ProofInv, Settled, Proved
  <2> QED  BY <1>4, <1>5, <1>6, <2>1, <2>2
<1>10. Len(stack) - 1 + Returned.deep <= MaxDepth
  BY <1>1, <1>4, <1>5, <1>6, <1>7, TopFrame, LimitsAssumption
<1> QED  BY <1>1, <1>2, <1>4, <1>5, <1>6, <1>7, <1>8, <1>9, <1>10 DEF Counted, Proved

\* The node returned from is proved, and no other changes.
LEMMA ReturnedKeeps ==
  ASSUME WalkInv, ProofInv, pass = "proof", stack # <<>>, Finished, NEW key, key = Top.key
  PROVE  /\ Keeps /\ Proved(key)' /\ memo'["proof"][key] = Returned
         /\ DOMAIN memo'["proof"] \subseteq DOMAIN schema'
         /\ \A n \in DOMAIN memo'["proof"] : Proved(n)' => Settled(n)'
         /\ \A n \in DOMAIN memo'["proof"] :
              n = key \/ (n \in DOMAIN memo["proof"] /\ memo'["proof"][n] = memo["proof"][n])
<1>1. Store(key, Returned) /\ schema' = schema
  BY DEF Finished
<1>2. /\ DOMAIN memo'["proof"] = DOMAIN memo["proof"] \cup {key}
      /\ memo'["proof"][key] = Returned
      /\ \A k \in DOMAIN memo["proof"] : k # key => memo'["proof"][k] = memo["proof"][k]
  BY <1>1, TopFrame, Stored
<1>3. ~Proved(key) /\ Returned.state = "done" /\ key \in DOMAIN schema
  BY ReturnedProof
<1>4. Keeps /\ Proved(key)'
  BY <1>2, <1>3 DEF Keeps, Proved
<1>5. Settled(key)'
  <2>1. schema \in Schemas
    BY DEF WalkInv, Shape
  <2>2. \A e \in ProofEdges(key) : Proved(e.to) /\ Deep(e.to) < Returned.deep
    BY ReturnedProof
  <2>3. \A e \in ProofEdges(key) :
          Proved(e.to)' /\ memo'["proof"][e.to] = memo["proof"][e.to]
    BY <1>4, <2>2 DEF Keeps
  <2>4. Admission(key)' = Admission(key)
    BY <1>1, <1>3, <2>1, <2>3, AdmissionKept
  <2>5. ProofEdges(key)' = ProofEdges(key) /\ Malformed(key)' = Malformed(key)
    BY <1>1, EdgesKept
  <2>6. /\ Returned.deep \in Nat /\ Returned.mode # "open" /\ Returned.mode = Admission(key)
        /\ ~Malformed(key)
    BY ReturnedProof
  <2> QED  BY <1>2, <2>2, <2>3, <2>4, <2>5, <2>6 DEF Settled, Deep
<1>6. ASSUME NEW n \in DOMAIN memo'["proof"], Proved(n)'
      PROVE  Settled(n)'
  <2>1. CASE n = key
    BY <1>5, <2>1
  <2>2. CASE n # key
    <3>1. Proved(n)
      BY <1>2, <1>6, <2>2 DEF Proved
    <3> QED  BY <1>1, <1>4, <3>1, ProvedNodes
  <2> QED  BY <2>1, <2>2
<1>7. DOMAIN memo'["proof"] \subseteq DOMAIN schema'
  BY <1>1, <1>2, <1>3 DEF ProofInv
<1> QED  BY <1>2, <1>4, <1>6, <1>7

\* A node whose children are proved is settled by their depths and modes.
LEMMA FinishProof ==
  ASSUME WalkInv, ProofInv, pass = "proof", Finish
  PROVE  ProofInv'
<1>1. Len(stack) > 1 /\ stack # <<>> /\ Finished
  BY DEF Finish, Finished
<1> DEFINE caller == stack[Len(stack) - 1]
           f == Absorb(caller, caller.left, caller.via, Returned)
<1>2. /\ IsFrame(caller) /\ caller.via.to = Top.key /\ Len(stack) - 1 \in 1..Len(stack)
      /\ Len(stack) \in Nat
  BY <1>1, TopFrame DEF WalkInv, Path
<1>3. /\ f.key = caller.key /\ f.via = caller.via /\ f.left = caller.left
      /\ f.deep = IF Returned.deep + 1 > caller.deep THEN Returned.deep + 1 ELSE caller.deep
  <2>1. caller.left \subseteq caller.left
    OBVIOUS
  <2> HIDE DEF caller
  <2> QED  BY <1>2, <2>1, Absorbed
<1>4. /\ stack' = Append(SubSeq(stack, 1, Len(stack) - 2), f)
      /\ UNCHANGED <<schema, fixture, pass, verdict>>
  BY DEF Finish, Finished
<1> HIDE DEF f
<1>5. /\ Len(stack') = Len(stack) - 1 /\ stack'[Len(stack) - 1] = f
      /\ \A i \in 1..(Len(stack) - 2) : stack'[i] = stack[i]
  BY <1>1, <1>4, Popped DEF WalkInv, Shape
<1>6. PICK key : key = Top.key
  OBVIOUS
<1>7. /\ Keeps /\ Proved(key)' /\ memo'["proof"][key] = Returned
      /\ DOMAIN memo'["proof"] \subseteq DOMAIN schema'
      /\ \A n \in DOMAIN memo'["proof"] : Proved(n)' => Settled(n)'
  BY <1>1, <1>6, ReturnedKeeps
<1>8. \A m : Proved(m) => Proved(m)' /\ Deep(m)' = Deep(m)
  BY <1>7 DEF Keeps, Deep
<1>9. Deep(key)' = Returned.deep /\ Returned.deep \in Nat /\ ops' \in 0..MaxOps
  BY <1>1, <1>7, ReturnedProof DEF Deep
<1>10. ASSUME NEW i \in 1..Len(stack')
      PROVE  Counted(i)'
  <2>1. /\ ProofEdges(stack[i].key)' = ProofEdges(stack'[i].key)
        /\ Malformed(stack[i].key)' = Malformed(stack'[i].key)
    BY <1>4, EdgesKept
  <2>2. Counted(i) /\ i < Len(stack)
    BY <1>2, <1>5 DEF ProofInv
  <2>3. CASE i = Len(stack) - 1
    <3>1. stack[i] = caller /\ stack'[i] = f /\ caller.deep \in Nat
      BY <1>5, <2>2, <2>3 DEF Counted
    <3>2. f.deep \in Nat /\ f.deep >= caller.deep /\ Returned.deep < f.deep
      BY <1>3, <1>9, <3>1
    <3>3. ASSUME NEW d \in ProofEdges(caller.key)
          PROVE  d \in f.left \/ (Proved(d.to)' /\ Deep(d.to)' < f.deep)
      <4>1. CASE d = caller.via
        BY <1>2, <1>6, <1>7, <1>9, <3>2, <4>1
      <4>2. CASE d # caller.via
        <5>1. d \in caller.left \/ (Proved(d.to) /\ Deep(d.to) < caller.deep)
          BY <2>2, <3>1, <4>2 DEF Counted
        <5>2. Proved(d.to) => Deep(d.to) \in Nat
          BY DEF ProofInv, Settled, Proved
        <5> QED  BY <1>3, <1>8, <3>1, <3>2, <4>2, <5>1, <5>2
      <4> QED  BY <4>1, <4>2
    <3> QED  BY <1>3, <2>1, <2>2, <3>1, <3>2, <3>3 DEF Counted
  <2>4. CASE i \in 1..(Len(stack) - 2)
    <3>1. stack'[i] = stack[i] /\ i < Len(stack')
      BY <1>2, <1>5, <2>4
    <3> QED  BY <1>8, <2>1, <2>2, <3>1 DEF Counted
  <2> QED  BY <1>2, <1>5, <2>3, <2>4
<1>11. memo'["proof"] # Empty
  BY <1>7 DEF Proved, Empty
<1> QED  BY <1>4, <1>7, <1>9, <1>10, <1>11 DEF ProofInv, Memo

\* The root is proved and the estimates begin.
LEMMA FinishPassProof ==
  ASSUME WalkInv, ProofInv, pass = "proof", FinishPass
  PROVE  ProofInv'
<1>1. /\ Len(stack) = 1 /\ stack # <<>> /\ Finished /\ pass' = "structure"
      /\ schema' = schema
  BY DEF FinishPass, Finished
<1>2. PICK key : key = Top.key
  OBVIOUS
<1>3. key = Root
  BY <1>1, <1>2 DEF WalkInv, Path, Top, RootKey
<1>4. /\ Proved(key)' /\ memo'["proof"][key] = Returned
      /\ DOMAIN memo'["proof"] \subseteq DOMAIN schema'
      /\ \A n \in DOMAIN memo'["proof"] : Proved(n)' => Settled(n)'
      /\ \A n \in DOMAIN memo'["proof"] :
           n = key \/ (n \in DOMAIN memo["proof"] /\ memo'["proof"][n] = memo["proof"][n])
  BY <1>1, <1>2, ReturnedKeeps
<1>5. Root \in DOMAIN memo'["proof"] /\ Deep(Root)' <= MaxDepth
  <2>1. Len(stack) - 1 + Returned.deep <= MaxDepth /\ Returned.deep \in Nat
    BY <1>1, ReturnedProof
  <2>2. Deep(key)' = Returned.deep
    BY <1>4 DEF Deep
  <2> QED  BY <1>1, <1>3, <1>4, <2>1, <2>2 DEF Proved
<1>6. ASSUME NEW n \in DOMAIN memo'["proof"]
      PROVE  Proved(n)'
  <2>1. CASE n = key
    BY <1>4, <2>1
  <2>2. CASE n # key
    <3>1. n \in DOMAIN memo["proof"] /\ memo'["proof"][n] = memo["proof"][n]
      BY <1>4, <2>2
    <3>2. memo["proof"][n].state # "visiting"
      <4>1. SUFFICES ASSUME memo["proof"][n].state = "visiting" PROVE FALSE
        OBVIOUS
      <4>2. \E i \in 1..Len(stack) : stack[i].key = n
        BY <1>1, <3>1, <4>1, TopFrame DEF WalkInv, Memos
      <4> QED  BY <1>1, <1>2, <2>2, <4>2 DEF Top
    <3> QED  BY <3>1, <3>2 DEF WalkInv, Memos, Passes, Proved
  <2> QED  BY <2>1, <2>2
<1>7. ops' \in 0..MaxOps
  BY <1>1, ReturnedProof
<1> QED  BY <1>1, <1>4, <1>5, <1>6, <1>7 DEF ProofInv

\* A verdict leaves what was proved.
LEMMA ConcludeProof ==
  ASSUME WalkInv, ProofInv, NEW v, Conclude(v)
  PROVE  ProofInv'
<1>1. /\ stack' = <<>> /\ schema' = schema /\ pass' = pass /\ memo' = memo /\ ops' = ops
  BY DEF Conclude
<1>2. Keeps /\ \A n : Proved(n)' = Proved(n) /\ Deep(n)' = Deep(n)
  BY <1>1 DEF Keeps, Proved, Deep
<1>3. \A n \in DOMAIN memo'["proof"] : Proved(n)' => Settled(n)'
  BY <1>1, <1>2, ProvedNodes
<1>4. 1..Len(stack') = {}
  BY <1>1
<1> QED  BY <1>1, <1>2, <1>3, <1>4 DEF ProofInv, Memo

\* No node is proved yet and none is being visited.
LEMMA ProofInit == Init => ProofInv
<1> SUFFICES ASSUME Init PROVE ProofInv
  OBVIOUS
<1>1. /\ pass = "proof" /\ memo["proof"] = Empty /\ 1..Len(stack) = {} /\ ops = 0
  BY DEF Init
<1> QED  BY <1>1, LimitsAssumption DEF ProofInv, Empty

\* The estimates leave the memo of the proof alone.
LEMMA EstimateStep ==
  ASSUME WalkInv, ProofInv, pass # "proof", Next
  PROVE  schema' = schema /\ ops' = ops /\ pass' # "proof" /\ memo'["proof"] = memo["proof"]
<1>1. ops + 0 = ops /\ NodeOps = 0 /\ \A e : RefOps(e) = 0
  BY LimitsAssumption DEF ProofInv, NodeOps, RefOps
<1>2. CASE Begin
  <2>1. Call(RootKey, <<>>) /\ ops' = ops + NodeOps /\ pass \in Passes
    BY <1>2 DEF Begin, WalkInv, Shape
  <2> QED  BY <1>1, <2>1, StoreElsewhere DEF Call
<1>3. CASE Visit
  <2>1. PICK e \in Top.left : Descend(e) \/ Revisit(e) \/ Fail(e)
    BY <1>3 DEF Visit, NextEdges
  <2>2. stack # <<>>
    BY <1>3 DEF Visit
  <2>3. CASE Descend(e)
    <3>1. /\ Store(e.to, Visiting) /\ schema' = schema /\ pass' = pass
          /\ ops' = ops + RefOps(e) + NodeOps
      BY <2>3 DEF Descend, Call
    <3> QED  BY <1>1, <2>2, <3>1, TopFrame, StoreElsewhere
  <2>4. CASE Revisit(e)
    BY <1>1, <2>4 DEF Revisit
  <2>5. CASE Fail(e)
    BY <2>5 DEF Fail, Conclude
  <2> QED  BY <2>1, <2>3, <2>4, <2>5
<1>4. CASE Unproved
  BY <1>4 DEF Unproved
<1>5. CASE Finish
  <2>1. /\ Store(Top.key, Returned) /\ stack # <<>>
        /\ schema' = schema /\ pass' = pass /\ ops' = ops + 0
    BY <1>5 DEF Finish, Finished
  <2> QED  BY <1>1, <2>1, TopFrame, StoreElsewhere
<1>6. CASE FinishPass
  <2>1. Store(Top.key, Returned) /\ stack # <<>> /\ schema' = schema /\ ops' = ops + 0
    BY <1>6 DEF FinishPass, Finished
  <2>2. pass' # "proof"
    BY <1>6, <2>1, TopFrame DEF FinishPass, Passes
  <2> QED  BY <1>1, <2>1, <2>2, TopFrame, StoreElsewhere
<1>7. CASE ValidateFixture
  BY <1>7 DEF ValidateFixture, WalkInv, Shape, Passes
<1> QED  BY <1>2, <1>3, <1>4, <1>5, <1>6, <1>7 DEF Next

\* Every step keeps what the proof has established.
LEMMA ProofStep == WalkInv /\ ProofInv /\ [Next]_vars => ProofInv'
<1> SUFFICES ASSUME WalkInv, ProofInv, [Next]_vars PROVE ProofInv'
  OBVIOUS
<1>1. CASE pass = "proof"
  <2>1. CASE Begin
    <3>1. CASE Malformed(Root)
      BY <1>1, <2>1, <3>1, ConcludeProof DEF Begin
    <3>2. CASE ~Malformed(Root)
      <4>1. /\ Call(Root, <<>>) /\ ops' = ops + 1 /\ Memo = Empty
        BY <1>1, <2>1, <3>2 DEF Begin, RootKey, NodeOps
      <4>2. ops' \in 0..MaxOps /\ ~Proved(Root)
        BY <1>1, <4>1, LimitsAssumption DEF ProofInv, Proved, Memo, Empty
      <4>3. stack = <<>>
        <5>1. stack # <<>> => Top.key \in DOMAIN memo[pass]
          BY TopFrame
        <5> QED  BY <4>1, <5>1 DEF Memo, Empty
      <4>4. IsStack(<<>>) /\ 1..Len(stack) = {}
        BY <4>3 DEF WalkInv, Shape
      <4>5. Root \in DOMAIN schema
        BY SchemasAssumption DEF WalkInv, Shape
      <4> QED  BY <1>1, <3>2, <4>1, <4>2, <4>3, <4>4, <4>5, CallProof
    <3> QED  BY <3>1, <3>2
  <2>2. CASE Visit
    <3>1. stack # <<>>
      BY <2>2 DEF Visit
    <3>2. PICK e \in Top.left : Descend(e) \/ Revisit(e) \/ Fail(e)
      BY <2>2 DEF Visit, NextEdges
    <3>3. CASE Fail(e)
      BY <3>3, ConcludeProof DEF Fail
    <3> QED  BY <1>1, <3>1, <3>2, <3>3, DescendProof, RevisitProof
  <2>3. CASE Unproved
    BY <2>3, ConcludeProof DEF Unproved
  <2>4. CASE ValidateFixture
    BY <1>1, <2>4 DEF ValidateFixture
  <2>5. CASE UNCHANGED vars
    <3>1. UNCHANGED <<schema, pass, memo, stack, ops>>
      BY <2>5 DEF vars
    <3>2. Keeps /\ \A n : Proved(n)' = Proved(n) /\ Deep(n)' = Deep(n)
      BY <3>1 DEF Keeps, Proved, Deep
    <3>3. \A n \in DOMAIN memo'["proof"] : Proved(n)' => Settled(n)'
      BY <3>1, <3>2, ProvedNodes
    <3>4. ASSUME NEW i \in 1..Len(stack)
          PROVE  Counted(i)'
      <4>1. Counted(i)
        BY <1>1 DEF ProofInv
      <4>2. /\ ProofEdges(stack[i].key)' = ProofEdges(stack[i].key)
            /\ Malformed(stack[i].key)' = Malformed(stack[i].key)
        BY <3>1, EdgesKept
      <4> QED  BY <3>1, <3>2, <4>1, <4>2 DEF Counted
    <3> QED  BY <3>1, <3>2, <3>3, <3>4 DEF ProofInv, Memo
  <2> QED  BY <1>1, <2>1, <2>2, <2>3, <2>4, <2>5, FinishProof, FinishPassProof DEF Next
<1>2. CASE pass # "proof"
  <2>1. CASE Next
    BY <1>2, <2>1, EstimateStep, EstimateProof
  <2>2. CASE UNCHANGED vars
    BY <1>2, <2>2, EstimateProof DEF vars
  <2> QED  BY <2>1, <2>2
<1> QED  BY <1>1, <1>2

-----------------------------------------------------------------------------
(* The estimates that follow an accepted proof.                              *)

\* How the steps of a pass change the keys on the stack.
LEMMA DescendKeys ==
  ASSUME WalkInv, stack # <<>>, NEW e, Descend(e)
  PROVE  /\ Len(stack) \in Nat /\ Len(stack') = Len(stack) + 1
         /\ stack'[Len(stack) + 1].key = e.to
         /\ \A i \in 1..Len(stack) : stack'[i].key = stack[i].key
<1> DEFINE f == [Top EXCEPT !.left = @ \ {e}, !.via = e]
           below == Append(Below, f)
<1>1. f.key = Top.key
  <2>1. IsFrame(Top)
    BY TopFrame
  <2> QED  BY <2>1, Left
<1>2. stack' = Append(below, Frame(e.to)) /\ Frame(e.to).key = e.to
  BY DEF Descend, Call, Frame
<1> HIDE DEF f
<1>3. /\ Len(stack) \in Nat /\ IsStack(below) /\ Len(below) = Len(stack) /\ below[Len(stack)] = f
      /\ \A i \in 1..(Len(stack) - 1) : below[i] = stack[i]
  BY Replaced DEF Below, WalkInv, Shape
<1> HIDE DEF below
<1>4. /\ Len(stack') = Len(stack) + 1 /\ stack'[Len(stack) + 1] = Frame(e.to)
      /\ \A i \in 1..Len(stack) : stack'[i] = below[i]
  BY <1>2, <1>3, Pushed
<1>5. \A i \in 1..Len(stack) : i = Len(stack) \/ i \in 1..(Len(stack) - 1)
  BY <1>3
<1> QED  BY <1>1, <1>2, <1>3, <1>4, <1>5 DEF Top

\* A child met again changes no key on the stack.
LEMMA RevisitKeys ==
  ASSUME WalkInv, stack # <<>>, NEW e, Revisit(e)
  PROVE  /\ Len(stack) \in Nat /\ Len(stack') = Len(stack)
         /\ \A i \in 1..Len(stack) : stack'[i].key = stack[i].key
<1> DEFINE f == Absorb(Top, Top.left \ {e}, e, Recall(e.to))
<1>1. e.to \in DOMAIN memo[pass] /\ memo[pass][e.to].state # "visiting"
  BY DEF Revisit, Survives, Known, Recall, MemoKey, Memo
<1>2. pass = "proof" \/ Recall(e.to).work \in 1..(MaxWork + 1)
  BY <1>1, TopFrame DEF WalkInv, Memos, Recall, MemoKey, Memo
<1>3. f.key = Top.key
  <2>1. IsFrame(Top)
    BY TopFrame
  <2>2. Top.left \ {e} \subseteq Top.left
    OBVIOUS
  <2> QED  BY <1>2, <2>1, <2>2, Absorbed
<1>4. stack' = Append(Below, f)
  BY DEF Revisit
<1> HIDE DEF f
<1>5. /\ Len(stack) \in Nat /\ Len(stack') = Len(stack) /\ stack'[Len(stack)] = f
      /\ \A i \in 1..(Len(stack) - 1) : stack'[i] = stack[i]
  BY <1>4, Replaced DEF Below, WalkInv, Shape
<1>6. \A i \in 1..Len(stack) : i = Len(stack) \/ i \in 1..(Len(stack) - 1)
  BY <1>5
<1> QED  BY <1>3, <1>5, <1>6 DEF Top

\* A frame that returns leaves the keys below it.
LEMMA FinishKeys ==
  ASSUME WalkInv, Finish
  PROVE  /\ Len(stack) \in Nat /\ Len(stack') = Len(stack) - 1
         /\ \A i \in 1..Len(stack') : stack'[i].key = stack[i].key
<1>1. Len(stack) > 1 /\ stack # <<>>
  BY DEF Finish, Finished
<1> DEFINE caller == stack[Len(stack) - 1]
           f == Absorb(caller, caller.left, caller.via, Returned)
<1>2. IsFrame(caller) /\ Len(stack) \in Nat
  BY <1>1, TopFrame DEF WalkInv, Path
<1>3. f.key = caller.key
  <2>1. pass = "proof" \/ Returned.work \in 1..(MaxWork + 1)
    BY <1>1, ReturnedWork
  <2>2. caller.left \subseteq caller.left
    OBVIOUS
  <2> HIDE DEF caller
  <2> QED  BY <1>2, <2>1, <2>2, Absorbed
<1>4. stack' = Append(SubSeq(stack, 1, Len(stack) - 2), f)
  BY DEF Finish
<1> HIDE DEF f
<1>5. /\ Len(stack') = Len(stack) - 1 /\ stack'[Len(stack) - 1] = f
      /\ \A i \in 1..(Len(stack) - 2) : stack'[i] = stack[i]
  BY <1>1, <1>4, Popped DEF WalkInv, Shape
<1>6. \A i \in 1..(Len(stack) - 1) : i = Len(stack) - 1 \/ i \in 1..(Len(stack) - 2)
  BY <1>2
<1> QED  BY <1>2, <1>3, <1>5, <1>6

\* What an estimate can look at: a node the proof let through, or a schema of false.
Sound(n) == n \in DOMAIN schema /\ (n \in DOMAIN memo["proof"] \/ schema[n].form = "false")

\* What falls along the edges of an estimate.
Fall(n) == IF schema[n].form = "false" THEN -1 ELSE Deep(n)

EstimateInv ==
  /\ verdict # "error"
  /\ pass # "proof" => \A i \in 1..Len(stack) :
       /\ Sound(NodeOf(stack[i].key))
       /\ \A j \in 1..(i - 1) : Fall(NodeOf(stack[i].key)) < Fall(NodeOf(stack[j].key))

\* A node an estimate may meet has its place in the order of depths.
LEMMA SoundFall ==
  ASSUME WalkInv, ProofInv, pass # "proof", NEW n, Sound(n)
  PROVE  Fall(n) \in Int /\ n # NoNode /\ schema[n].form # "bad"
<1>1. n \in DOMAIN schema /\ n # NoNode
  BY SchemasAssumption DEF Sound, WalkInv, Shape
<1>2. CASE schema[n].form = "false"
  BY <1>1, <1>2 DEF Fall
<1>3. CASE schema[n].form # "false"
  <2>1. n \in DOMAIN memo["proof"] /\ Settled(n)
    BY <1>3 DEF Sound, ProofInv
  <2> QED  BY <1>1, <1>3, <2>1 DEF Settled, Malformed, Fall
<1> QED  BY <1>2, <1>3

\* The structural estimate goes down in that order.
LEMMA StructureFalls ==
  ASSUME WalkInv, ProofInv, pass # "proof", NEW n, Sound(n), NEW e \in StructureEdges(n)
  PROVE  Sound(e.to) /\ Fall(e.to) < Fall(n)
<1>1. /\ n \in DOMAIN schema /\ schema \in Schemas /\ schema[n].form = "object"
      /\ e \in ProofEdges(n) \/ (e.to \in DOMAIN schema /\ schema[e.to].form = "false")
  BY StructureWithinProof DEF Sound, WalkInv, Shape
<1>2. n \in DOMAIN memo["proof"] /\ Settled(n) /\ Fall(n) = Deep(n) /\ Deep(n) \in Nat
  BY <1>1 DEF Sound, ProofInv, Fall, Settled
<1>3. CASE schema[e.to].form = "false" /\ e.to \in DOMAIN schema
  BY <1>2, <1>3 DEF Sound, Fall
<1>4. CASE e \in ProofEdges(n)
  <2>1. Proved(e.to) /\ Deep(e.to) < Deep(n)
    BY <1>2, <1>4 DEF Settled
  <2>2. Sound(e.to)
    BY <2>1 DEF Proved, Sound, ProofInv
  <2>3. Fall(e.to) = -1 \/ Fall(e.to) = Deep(e.to)
    BY DEF Fall
  <2> QED  BY <1>2, <2>1, <2>2, <2>3
<1> QED  BY <1>1, <1>3, <1>4

\* So does the estimate of a value.
LEMMA WalkFalls ==
  ASSUME WalkInv, ProofInv, pass \in {"structure", "instance"}, NEW key, Sound(NodeOf(key)),
         NEW e \in EdgesOf(key)
  PROVE  Sound(NodeOf(e.to)) /\ Fall(NodeOf(e.to)) < Fall(NodeOf(key))
<1>1. CASE pass = "structure"
  BY <1>1, StructureFalls DEF EdgesOf, NodeOf
<1>2. CASE pass = "instance"
  <2>1. /\ e \in InstanceEdges(key[1], key[2], key[3])
        /\ NodeOf(key) = key[1] /\ NodeOf(e.to) = e.to[1]
    BY <1>2 DEF EdgesOf, NodeOf
  <2>2. PICK f \in StructureEdges(key[1]) : f.to = e.to[1]
    BY <2>1, InstanceWithinStructure
  <2> QED  BY <1>2, <2>1, <2>2, StructureFalls
<1> QED  BY <1>1, <1>2

\* No edge of an estimate leads back to a node in progress.
LEMMA EstimateSurvives ==
  ASSUME WalkInv, ProofInv, EstimateInv, pass # "proof", stack # <<>>, NEW e \in Top.left
  PROVE  Survives(e)
<1>1. /\ pass \in {"structure", "instance"} /\ e \in EdgesOf(Top.key) /\ Top = stack[Len(stack)]
      /\ Len(stack) \in 1..Len(stack) /\ verdict = "none" /\ DOMAIN memo = Passes
      /\ Len(stack) \in Nat
  BY TopFrame DEF Passes
<1>2. Sound(NodeOf(Top.key))
  BY <1>1 DEF EstimateInv
<1>3. Sound(NodeOf(e.to)) /\ Fall(NodeOf(e.to)) < Fall(NodeOf(Top.key))
  BY <1>1, <1>2, WalkFalls
<1>4. ASSUME Known(e.to), Recall(e.to).state = "visiting"
      PROVE  FALSE
  <2>1. PICK i \in 1..Len(stack) : stack[i].key = e.to
    <3>1. e.to \in DOMAIN memo[pass] /\ memo[pass][e.to].state = "visiting" /\ pass \in Passes
      BY <1>1, <1>4 DEF Known, Recall, MemoKey, Memo, Passes
    <3> QED  BY <1>1, <3>1 DEF WalkInv, Memos
  <2>2. Fall(NodeOf(e.to)) \in Int /\ Fall(NodeOf(Top.key)) \in Int
    BY <1>2, <1>3, SoundFall
  <2>3. CASE i = Len(stack)
    BY <1>1, <1>3, <2>1, <2>2, <2>3
  <2>4. CASE i \in 1..(Len(stack) - 1)
    <3>1. Fall(NodeOf(Top.key)) < Fall(NodeOf(stack[i].key))
      BY <1>1, <2>4 DEF EstimateInv
    <3> QED  BY <1>3, <2>1, <2>2, <3>1
  <2> QED  BY <1>1, <2>3, <2>4
<1>5. NodeOf(e.to) # NoNode /\ schema[NodeOf(e.to)].form # "bad"
  BY <1>3, SoundFall
<1> QED  BY <1>4, <1>5 DEF Survives

\* The proof changes while an estimate runs neither for a node nor for its fall.
LEMMA FallKept ==
  ASSUME schema' = schema, memo'["proof"] = memo["proof"]
  PROVE  /\ \A n : Sound(n)' = Sound(n)
         /\ \A n : Fall(n)' = Fall(n)
BY DEF Sound, Fall, Deep

\* A stack of keys that were on it before is no concern.
LEMMA EstimateShrinks ==
  ASSUME EstimateInv, pass # "proof", schema' = schema, memo'["proof"] = memo["proof"],
         pass' = pass, verdict' # "error",
         \A i \in 1..Len(stack') : i \in 1..Len(stack) /\ stack'[i].key = stack[i].key,
         Len(stack') \in Nat
  PROVE  EstimateInv'
<1>1. \A k : NodeOf(k)' = NodeOf(k)
  BY DEF NodeOf
<1>2. ASSUME NEW i \in 1..Len(stack')
      PROVE  /\ Sound(NodeOf(stack[i].key))'
             /\ \A j \in 1..(i - 1) :
                  Fall(NodeOf(stack[i].key))' < Fall(NodeOf(stack[j].key))'
  <2>1. /\ Sound(NodeOf(stack[i].key))
        /\ \A j \in 1..(i - 1) : Fall(NodeOf(stack[i].key)) < Fall(NodeOf(stack[j].key))
    BY DEF EstimateInv
  <2>2. \A j \in 1..(i - 1) : stack'[j].key = stack[j].key
    BY <1>2
  <2> QED  BY <1>1, <2>1, <2>2, FallKept
<1> QED  BY <1>2 DEF EstimateInv

\* A child an estimate meets first is lower than all its callers, so new to them.
LEMMA EstimateDescends ==
  ASSUME WalkInv, ProofInv, EstimateInv, pass # "proof", stack # <<>>, NEW e \in Top.left,
         Descend(e)
  PROVE  EstimateInv'
<1>1. /\ Len(stack) \in Nat /\ Len(stack') = Len(stack) + 1
      /\ stack'[Len(stack) + 1].key = e.to
      /\ \A i \in 1..Len(stack) : stack'[i].key = stack[i].key
  BY DescendKeys
<1>2. /\ schema' = schema /\ pass' = pass /\ verdict' = verdict
      /\ memo'["proof"] = memo["proof"]
  BY TopFrame, StoreElsewhere DEF Descend, Call
<1>3. /\ pass \in {"structure", "instance"} /\ e \in EdgesOf(Top.key)
      /\ Top = stack[Len(stack)] /\ Len(stack) \in 1..Len(stack)
  BY TopFrame DEF Passes
<1>4. Sound(NodeOf(e.to)) /\ Fall(NodeOf(e.to)) < Fall(NodeOf(Top.key))
  BY <1>3, WalkFalls DEF EstimateInv
<1>5. \A k : NodeOf(k)' = NodeOf(k)
  BY <1>2 DEF NodeOf
<1>6. \A i \in 1..Len(stack) : Fall(NodeOf(stack[i].key)) \in Int
  BY SoundFall DEF EstimateInv
<1>7. Fall(NodeOf(e.to)) \in Int
  BY <1>4, SoundFall
<1>8. \A j \in 1..Len(stack) : Fall(NodeOf(e.to)) < Fall(NodeOf(stack[j].key))
  <2>1. ASSUME NEW j \in 1..Len(stack)
        PROVE  Fall(NodeOf(e.to)) < Fall(NodeOf(stack[j].key))
    <3>1. CASE j = Len(stack)
      BY <1>3, <1>4, <3>1
    <3>2. CASE j \in 1..(Len(stack) - 1)
      <4>1. Fall(NodeOf(Top.key)) < Fall(NodeOf(stack[j].key))
        BY <1>3, <3>2 DEF EstimateInv
      <4> QED  BY <1>3, <1>4, <1>6, <1>7, <4>1
    <3> QED  BY <1>1, <3>1, <3>2
  <2> QED  BY <2>1
<1>9. ASSUME NEW i \in 1..Len(stack')
      PROVE  /\ Sound(NodeOf(stack[i].key))'
             /\ \A j \in 1..(i - 1) :
                  Fall(NodeOf(stack[i].key))' < Fall(NodeOf(stack[j].key))'
  <2>1. CASE i = Len(stack) + 1
    <3>1. \A j \in 1..(i - 1) : j \in 1..Len(stack)
      BY <1>1, <2>1
    <3> QED  BY <1>1, <1>2, <1>4, <1>5, <1>8, <2>1, <3>1, FallKept
  <2>2. CASE i \in 1..Len(stack)
    <3>1. /\ Sound(NodeOf(stack[i].key))
          /\ \A j \in 1..(i - 1) : Fall(NodeOf(stack[i].key)) < Fall(NodeOf(stack[j].key))
      BY <2>2 DEF EstimateInv
    <3>2. \A j \in 1..(i - 1) : stack'[j].key = stack[j].key
      BY <1>1, <2>2
    <3> QED  BY <1>1, <1>2, <1>5, <2>2, <3>1, <3>2, FallKept
  <2> QED  BY <1>1, <2>1, <2>2
<1> QED  BY <1>2, <1>9 DEF EstimateInv

\* Every step keeps the path of an estimate falling.
LEMMA EstimateInvStep ==
  ASSUME WalkInv, ProofInv, EstimateInv, [Next]_vars
  PROVE  EstimateInv'
<1>1. CASE Begin
  <2>1. CASE pass = "proof"
    BY <1>1, <2>1 DEF Begin, Call, Conclude, EstimateInv
  <2>2. CASE pass # "proof"
    <3>1. /\ Store(RootKey, Visiting) /\ stack' = Append(<<>>, Frame(RootKey))
          /\ schema' = schema /\ pass' = pass /\ verdict' = verdict /\ pass \in Passes
      BY <1>1, <2>2 DEF Begin, Call, WalkInv, Shape
    <3>2. Len(stack') = 1 /\ stack'[1].key = RootKey
      BY <3>1 DEF Frame
    <3>3. NodeOf(RootKey) = Root /\ \A k : NodeOf(k)' = NodeOf(k)
      BY <3>1 DEF NodeOf, RootKey, InstanceKey
    <3>4. Sound(Root) /\ memo'["proof"] = memo["proof"]
      BY <2>2, <3>1, StoreElsewhere DEF ProofInv, Sound
    <3>5. ASSUME NEW i \in 1..Len(stack')
          PROVE  Sound(NodeOf(stack[i].key))' /\ 1..(i - 1) = {}
      <4>1. i = 1
        BY <3>2
      <4> QED  BY <3>1, <3>2, <3>3, <3>4, <4>1, FallKept
    <3> QED  BY <3>1, <3>5 DEF EstimateInv
  <2> QED  BY <2>1, <2>2
<1>2. CASE Visit
  <2>1. PICK e \in Top.left : Descend(e) \/ Revisit(e) \/ Fail(e)
    BY <1>2 DEF Visit, NextEdges
  <2>2. stack # <<>>
    BY <1>2 DEF Visit
  <2>3. CASE pass = "proof"
    BY <2>1, <2>3 DEF Descend, Revisit, Fail, Call, Conclude, EstimateInv
  <2>4. CASE pass # "proof"
    <3>1. CASE Descend(e)
      BY <2>2, <2>4, <3>1, EstimateDescends
    <3>2. CASE Revisit(e)
      <4>1. schema' = schema /\ memo' = memo /\ pass' = pass /\ verdict' = verdict
        BY <3>2 DEF Revisit
      <4> QED  BY <2>2, <2>4, <3>2, <4>1, RevisitKeys, EstimateShrinks DEF EstimateInv
    <3>3. CASE Fail(e)
      BY <2>2, <2>4, <3>3, EstimateSurvives DEF Fail
    <3> QED  BY <2>1, <3>1, <3>2, <3>3
  <2> QED  BY <2>3, <2>4
<1>3. CASE Unproved
  BY <1>3 DEF Unproved, Conclude, EstimateInv
<1>4. CASE Finish
  <2>1. /\ schema' = schema /\ pass' = pass /\ verdict' = verdict /\ stack # <<>>
        /\ Store(Top.key, Returned)
    BY <1>4 DEF Finish, Finished
  <2>2. CASE pass = "proof"
    BY <2>1, <2>2 DEF EstimateInv
  <2>3. CASE pass # "proof"
    <3>1. memo'["proof"] = memo["proof"]
      BY <2>1, <2>3, TopFrame, StoreElsewhere
    <3>2. /\ Len(stack) \in Nat /\ Len(stack') = Len(stack) - 1 /\ Len(stack) > 1
          /\ \A i \in 1..Len(stack') : stack'[i].key = stack[i].key
      BY <1>4, FinishKeys DEF Finish
    <3> QED  BY <2>1, <2>3, <3>1, <3>2, EstimateShrinks DEF EstimateInv
  <2> QED  BY <2>2, <2>3
<1>5. CASE FinishPass
  <2>1. stack' = <<>> /\ verdict' # "error"
    <3>1. stack # <<>>
      BY <1>5 DEF FinishPass, Finished
    <3> QED  BY <1>5, <3>1, TopFrame DEF FinishPass, Passes, EstimateInv
  <2> QED  BY <2>1 DEF EstimateInv
<1>6. CASE ValidateFixture
  <2>1. stack' = <<>> /\ verdict' # "error"
    BY <1>6 DEF ValidateFixture, WalkInv, Shape, Passes
  <2> QED  BY <2>1 DEF EstimateInv
<1>7. CASE UNCHANGED vars
  <2>1. UNCHANGED <<schema, pass, memo, stack, verdict>>
    BY <1>7 DEF vars
  <2>2. CASE pass = "proof"
    BY <2>1, <2>2 DEF EstimateInv
  <2>3. CASE pass # "proof"
    <3>1. Len(stack) \in Nat
      BY DEF WalkInv, Shape, IsStack
    <3> QED  BY <2>1, <2>3, <3>1, EstimateShrinks DEF EstimateInv
  <2> QED  BY <2>2, <2>3
<1> QED  BY <1>1, <1>2, <1>3, <1>4, <1>5, <1>6, <1>7 DEF Next

-----------------------------------------------------------------------------
(* Theorems.                                                                 *)

\* The memo, the stack and the count of operations are what they are taken for:
\* a key is on the stack at most once, in progress, and no work passes the limit.
THEOREM TypeInvariant == Spec => []TypeOK
<1>1. WalkInv /\ ProofInv => TypeOK
  <2> SUFFICES ASSUME WalkInv, ProofInv PROVE TypeOK
    OBVIOUS
  <2>1. DOMAIN stack = 1..Len(stack)
    BY StackOf DEF WalkInv, Shape, IsStack
  <2>2. ASSUME NEW i \in 1..Len(stack)
        PROVE  /\ Recall(stack[i].key).state = "visiting" /\ stack[i].work \in 1..(MaxWork + 1)
               /\ \A j \in 1..Len(stack) : stack[i].key = stack[j].key => i = j
    BY DEF WalkInv, Path, IsFrame, Recall, MemoKey, Memo
  <2> QED  BY <2>1, <2>2 DEF WalkInv, Shape, ProofInv, TypeOK, Passes, Verdicts
<1>2. Init => WalkInv /\ ProofInv
  BY WalkInit, ProofInit
<1>3. WalkInv /\ ProofInv /\ [Next]_vars => (WalkInv /\ ProofInv)'
  BY WalkStep, ProofStep
<1> QED  BY <1>1, <1>2, <1>3, PTL DEF Spec

\* What an accepted proof leaves behind certifies itself: it holds the root and
\* every child of what it holds, nothing malformed or open, and depths that fall
\* along every edge from the limit down.
THEOREM ProofCertifies == Spec => []Certified
<1>1. WalkInv /\ ProofInv => Certified
  BY DEF ProofInv, Settled, Proved, Deep, Certified
<1>2. Init => WalkInv /\ ProofInv
  BY WalkInit, ProofInit
<1>3. WalkInv /\ ProofInv /\ [Next]_vars => (WalkInv /\ ProofInv)'
  BY WalkStep, ProofStep
<1> QED  BY <1>1, <1>2, <1>3, PTL DEF Spec

\* No estimate meets a cycle, a reference that leads nowhere or a node that is no
\* schema: what the proof let through, and the values of false it passed over, are
\* all they look at.
THEOREM EstimatesNeverFail == Spec => [](verdict # "error")
<1>1. Init => WalkInv /\ ProofInv /\ EstimateInv
  BY WalkInit, ProofInit DEF Init, EstimateInv
<1>2. WalkInv /\ ProofInv /\ EstimateInv /\ [Next]_vars => (WalkInv /\ ProofInv /\ EstimateInv)'
  BY WalkStep, ProofStep, EstimateInvStep
<1>3. EstimateInv => verdict # "error"
  BY DEF EstimateInv
<1> QED  BY <1>1, <1>2, <1>3, PTL DEF Spec

-----------------------------------------------------------------------------
(* What a schema that was proved admits.                                     *)

\* Every nonempty set of naturals has a least element.
LEMMA LeastNatural ==
  ASSUME NEW S, S \subseteq Nat, S # {}
  PROVE  \E m \in S : \A k \in S : m <= k
<1>1. IsWellFoundedOn(OpToRel(<, Nat), Nat)
  BY NatLessThanWellFounded
<1>2. PICK m \in S : \A k \in S : <<k, m>> \notin OpToRel(<, Nat)
  BY <1>1, WFMin
<1>3. ASSUME NEW k \in S
      PROVE  m <= k
  <2>1. m \in Nat /\ k \in Nat /\ <<k, m>> \in Nat \X Nat
    OBVIOUS
  <2>2. ~(k < m)
    BY <1>2, <2>1 DEF OpToRel
  <2> QED  BY <2>1, <2>2
<1> QED  BY <1>3

\* One level more of what the nodes admit.
Level(known) ==
  [n \in DOMAIN schema |-> [p \in DOMAIN fixture |-> AdmitsBy(known, n, p)]]
NoLevel == [n \in DOMAIN schema |-> [p \in DOMAIN fixture |-> TRUE]]

\* The recursion has a solution: a solution to one depth is continued by a step.
LEMMA AdmitsDefined ==
  \A k \in 0..(MaxDepth + 2) : admits[k] = IF k = 0 THEN NoLevel ELSE Level(admits[k - 1])
<1> DEFINE M == MaxDepth + 2
           Solves(f, m) == f = [k \in 0..m |-> IF k = 0 THEN NoLevel ELSE Level(f[k - 1])]
           Unsolved == {m \in Nat : ~\E f : Solves(f, m)}
<1>1. M \in Nat
  BY LimitsAssumption
<1>2. Unsolved = {}
  <2>1. SUFFICES ASSUME Unsolved # {} PROVE FALSE
    OBVIOUS
  <2>2. PICK m \in Unsolved : \A k \in Unsolved : m <= k
    BY <2>1, LeastNatural
  <2>3. m # 0
    <3>1. SUFFICES ASSUME m = 0 PROVE FALSE
      OBVIOUS
    <3>2. Solves([k \in 0..0 |-> NoLevel], 0)
      OBVIOUS
    <3> QED  BY <2>2, <3>1, <3>2
  <2>4. m - 1 \in Nat /\ m - 1 \notin Unsolved
    <3>1. m \in Nat /\ m - 1 \in Nat /\ ~(m <= m - 1)
      BY <2>2, <2>3
    <3> HIDE DEF Unsolved
    <3> QED  BY <2>2, <3>1
  <2>5. PICK f : Solves(f, m - 1)
    BY <2>4
  <2> DEFINE g == [k \in 0..m |-> IF k = m THEN Level(f[m - 1]) ELSE f[k]]
  <2>6. ASSUME NEW k \in 0..m
        PROVE  g[k] = IF k = 0 THEN NoLevel ELSE Level(g[k - 1])
    <3>1. CASE k = m
      <4>1. m - 1 \in 0..m /\ m - 1 # m
        BY <2>4
      <4>2. g[m - 1] = f[m - 1]
        BY <4>1
      <4> QED  BY <2>3, <3>1, <4>2
    <3>2. CASE k # m
      <4>1. k \in 0..(m - 1) /\ g[k] = f[k]
        BY <2>4, <3>2
      <4>2. f[k] = IF k = 0 THEN NoLevel ELSE Level(f[k - 1])
        BY <2>5, <4>1
      <4>3. k # 0 => k - 1 \in 0..m /\ k - 1 # m /\ g[k - 1] = f[k - 1]
        BY <2>4, <4>1
      <4> QED  BY <4>1, <4>2, <4>3
    <3> QED  BY <3>1, <3>2
  <2>7. Solves(g, m)
    BY <2>6
  <2> QED  BY <2>2, <2>7
<1>3. \E f : Solves(f, M)
  BY <1>1, <1>2
<1>4. Solves(admits, M)
  <2> DEFINE Body(f, k) ==
               [n \in DOMAIN schema |-> [p \in DOMAIN fixture |->
                 IF k = 0 THEN TRUE ELSE AdmitsBy(f[k - 1], n, p)]]
  <2>1. \A f, k : Body(f, k) = IF k = 0 THEN NoLevel ELSE Level(f[k - 1])
    BY DEF NoLevel, Level
  <2>2. \A f : [k \in 0..M |-> Body(f, k)] =
               [k \in 0..M |-> IF k = 0 THEN NoLevel ELSE Level(f[k - 1])]
    BY <2>1
  <2>3. \E f : f = [k \in 0..M |-> Body(f, k)]
    <3> HIDE DEF Body
    <3>1. PICK f : Solves(f, M)
      BY <1>3
    <3>2. f = [k \in 0..M |-> Body(f, k)]
      BY <3>1, <2>2
    <3> QED  BY <3>2
  <2>4. admits = [k \in 0..M |-> Body(admits, k)]
    BY <2>3, Zenon DEF admits
  <2> HIDE DEF Body
  <2> QED  BY <2>2, <2>4
<1> HIDE DEF M
<1>5. \A k \in 0..M : admits[k] = IF k = 0 THEN NoLevel ELSE Level(admits[k - 1])
  BY <1>4
<1> QED  BY <1>5 DEF M

\* The children that count for what a node admits are ends of edges of the proof.
LEMMA ProofChild ==
  ASSUME NEW n, schema[n].form = "object",
         NEW k \in {"properties", "items", "additionalProperties", "prefixItems", "allOf",
                    "anyOf", "oneOf"},
         NEW i \in DOMAIN KidsOf(n, k),
         k = "additionalProperties" => schema[KidsOf(n, k)[i]].form # "false"
  PROVE  \E e \in ProofEdges(n) : e.to = KidsOf(n, k)[i]
<1>1. KidsOf(n, k)[i] \in ChildrenOf(n, k)
  BY DEF ChildrenOf
<1>2. CASE k = "properties"
  <2>1. Edge(MapLoop[k], 0, KidsOf(n, k)[i]) \in MapEdges(n, DOMAIN MapLoop)
    BY <1>1, <1>2 DEF MapEdges, MapLoop
  <2> QED  BY <2>1 DEF ProofEdges, Edge
<1>3. CASE k \in {"items", "additionalProperties"}
  <2>1. Edge(SingleLoop, SingleRank[k], KidsOf(n, k)[i]) \in SingleEdges(n)
    BY <1>1, <1>3 DEF SingleEdges, SingleRank
  <2>2. SingleRank[k] = 1 => k = "additionalProperties"
    BY <1>3 DEF SingleRank
  <2> QED  BY <2>1, <2>2 DEF ProofEdges, Edge
<1>4. CASE k \in {"prefixItems", "allOf", "anyOf", "oneOf"}
  <2>1. Edge(ListLoop[k], i, KidsOf(n, k)[i]) \in ListEdges(n)
    BY <1>4 DEF ListEdges, ListLoop
  <2> QED  BY <2>1 DEF ProofEdges, Edge
<1> QED  BY <1>2, <1>3, <1>4

\* No object at a value or below it has the property that nothing declares.
Declared(p) ==
  \A q \in DOMAIN fixture :
    IsPrefix(p, q) /\ fixture[q].kind = "object" => Stray \notin fixture[q].names

Clean(n, p) ==
  /\ Declared(p)
  /\ memo["proof"][n].mode = "excluded" => fixture[p].kind # "object"

\* What is below a value is at or below a value directly within it.
LEMMA DeclaredWithin ==
  ASSUME fixture \in Fixtures, NEW p \in DOMAIN fixture,
         fixture[p].kind = "object" => Stray \notin fixture[p].names,
         \A a \in Within(fixture[p]) : Declared(Append(p, a))
  PROVE  Declared(p)
<1> SUFFICES ASSUME NEW q \in DOMAIN fixture, IsPrefix(p, q), fixture[q].kind = "object"
             PROVE  Stray \notin fixture[q].names
  BY DEF Declared
<1>1. CASE p = q
  BY <1>1
<1>2. CASE p # q
  <2>1. PICK a \in Within(fixture[p]) : IsPrefix(Append(p, a), q)
    BY <1>2, FixturesAssumption
  <2> QED  BY <2>1 DEF Declared
<1> QED  BY <1>1, <1>2

\* What an object schema asks of a value.
LEMMA ObjectAdmits ==
  ASSUME NEW known, NEW n, NEW p, schema[n].form = "object", AdmitsBy(known, n, p)
  PROVE  /\ schema[n].types # {} =>
              (IF fixture[p].kind = "scalar" THEN "string" ELSE fixture[p].kind) \in schema[n].types
         /\ schema[n].lit = "other" => fixture[p].kind = "scalar"
         /\ fixture[p].kind = "object" => \A a \in fixture[p].names :
              IF a \in DOMAIN KidsOf(n, "properties")
              THEN known[KidsOf(n, "properties")[a]][Append(p, a)]
              ELSE /\ \A c \in ChildrenOf(n, "additionalProperties") : known[c][Append(p, a)]
                   /\ a = Stray => \A c \in ChildrenOf(n, "propertyNames") : ~KeyPolicy(c)
         /\ fixture[p].kind = "array" => \A i \in 1..fixture[p].len :
              IF i \in DOMAIN KidsOf(n, "prefixItems")
              THEN known[KidsOf(n, "prefixItems")[i]][Append(p, Token[i])]
              ELSE \A c \in ChildrenOf(n, "items") : known[c][Append(p, Token[i])]
         /\ \A c \in ChildrenOf(n, "allOf") : known[c][p]
         /\ \A k \in {"anyOf", "oneOf"} :
              k \in DOMAIN schema[n].kids => \E c \in ChildrenOf(n, k) : known[c][p]
         /\ \A e \in RefEdges(n) : known[e.to][p]
BY DEF AdmitsBy

\* A level of admission is one step of the definition above the level below it.
LEMMA AdmitsStep ==
  ASSUME NEW k \in 1..(MaxDepth + 2), NEW n \in DOMAIN schema, NEW p \in DOMAIN fixture
  PROVE  admits[k][n][p] = AdmitsBy(admits[k - 1], n, p)
<1>1. k \in 0..(MaxDepth + 2) /\ k # 0
  BY LimitsAssumption
<1>2. admits[k] = Level(admits[k - 1])
  BY <1>1, AdmitsDefined
<1> QED  BY <1>2 DEF Level

\* The schema false admits nothing.
LEMMA AdmitsFalse ==
  ASSUME NEW k \in 1..(MaxDepth + 2), NEW n \in DOMAIN schema, NEW p \in DOMAIN fixture,
         schema[n].form = "false"
  PROVE  ~admits[k][n][p]
<1>1. ~AdmitsBy(admits[k - 1], n, p)
  BY DEF AdmitsBy
<1> QED  BY <1>1, AdmitsStep

\* What the admission of an object schema is made of.
Parts(n) ==
  {OwnMode(n), LiteralMode(n)} \cup {memo["proof"][e.to].mode : e \in RefEdges(n)}
    \cup {memo["proof"][c].mode : c \in ChildrenOf(n, "allOf")}
    \cup {Widest({memo["proof"][c].mode : c \in ChildrenOf(n, k)}) :
            k \in DOMAIN schema[n].kids \cap {"anyOf", "oneOf"}}

\* An admission that is not open comes from one of the parts intersected.
LEMMA AdmissionParts ==
  ASSUME NEW n
  PROVE  /\ Admission(n) \in {"open", "closed", "excluded"}
         /\ schema[n].form = "object" =>
              /\ Admission(n) = "excluded" => "excluded" \in Parts(n)
              /\ Admission(n) # "open" => "excluded" \in Parts(n) \/ "closed" \in Parts(n)
<1>1. Admission(n) \in {"open", "closed", "excluded"}
  BY DEF Admission, Narrowest
<1>2. ASSUME schema[n].form = "object"
      PROVE  Admission(n) = Narrowest(Parts(n))
  BY <1>2 DEF Admission, Parts
<1> QED  BY <1>1, <1>2 DEF Narrowest

\* The case of a schema with keywords: a value it admits is clean because it is no
\* object or array, by the closure and the children of its own type, or by the one
\* of its references and lists that bounds it.
LEMMA CleanObject ==
  ASSUME WalkInv, ProofInv, pass # "proof", fixture \in Fixtures,
         NEW n \in DOMAIN memo["proof"], NEW p \in DOMAIN fixture, NEW known,
         schema[n].form = "object", AdmitsBy(known, n, p), Settled(n),
         fixture[p].kind \in {"object", "array"},
         \A c \in DOMAIN schema : \A q \in DOMAIN fixture :
           schema[c].form = "false" => ~known[c][q],
         \A e \in ProofEdges(n) : \A q \in DOMAIN fixture : known[e.to][q] => Clean(e.to, q)
  PROVE  Clean(n, p)
<1> DEFINE v == fixture[p]
<1>1. n \in DOMAIN schema /\ schema \in Schemas
  BY DEF ProofInv, WalkInv, Shape
<1>2. memo["proof"][n].mode = Admission(n) /\ Admission(n) # "open" /\ ~Malformed(n)
  BY DEF Settled
<1>3. ASSUME NEW k \in {"properties", "items", "additionalProperties", "prefixItems", "allOf",
                        "anyOf", "oneOf"},
             NEW i \in DOMAIN KidsOf(n, k), NEW q \in DOMAIN fixture, known[KidsOf(n, k)[i]][q]
      PROVE  Clean(KidsOf(n, k)[i], q)
  <2>1. KidsOf(n, k)[i] \in DOMAIN schema
    BY <1>1, KidsAreNodes
  <2>2. schema[KidsOf(n, k)[i]].form # "false"
    BY <1>3, <2>1
  <2>3. PICK e \in ProofEdges(n) : e.to = KidsOf(n, k)[i]
    BY <2>2, ProofChild
  <2> QED  BY <1>3, <2>3
<1>4. ASSUME NEW k \in {"allOf", "anyOf", "oneOf"}, NEW c \in ChildrenOf(n, k), known[c][p]
      PROVE  Clean(c, p) /\ memo["proof"][c].mode \in {"open", "closed", "excluded"}
  <2>1. PICK i \in DOMAIN KidsOf(n, k) : c = KidsOf(n, k)[i]
    BY DEF ChildrenOf
  <2>2. \E e \in ProofEdges(n) : e.to = c
    BY <2>1, ProofChild
  <2>3. c \in DOMAIN memo["proof"] /\ memo["proof"][c].mode = Admission(c)
    BY <2>2 DEF Settled, ProofInv, Proved
  <2> QED  BY <1>3, <1>4, <2>1, <2>3, AdmissionParts
<1>5. ASSUME NEW e \in RefEdges(n)
      PROVE  Clean(e.to, p)
  <2>1. e \in ProofEdges(n)
    BY DEF ProofEdges
  <2> QED  BY <2>1, ObjectAdmits
<1>6. /\ \A c \in ChildrenOf(n, "allOf") : Clean(c, p)
      /\ \A k \in {"anyOf", "oneOf"} : k \in DOMAIN schema[n].kids =>
           \E c \in ChildrenOf(n, k) :
             Clean(c, p) /\ memo["proof"][c].mode \in {"open", "closed", "excluded"}
  <2>1. /\ \A c \in ChildrenOf(n, "allOf") : known[c][p]
        /\ \A k \in {"anyOf", "oneOf"} :
             k \in DOMAIN schema[n].kids => \E c \in ChildrenOf(n, k) : known[c][p]
    BY ObjectAdmits
  <2> QED  BY <1>4, <2>1
<1>7. /\ LiteralMode(n) = "open"
      /\ schema[n].types # {} => v.kind \in schema[n].types
  BY ObjectAdmits DEF LiteralMode
<1>8. ASSUME v.kind = "object", Admission(n) = "excluded"
      PROVE  FALSE
  <2>1. "excluded" \in Parts(n)
    BY <1>8, AdmissionParts
  <2>2. OwnMode(n) # "excluded"
    BY <1>7, <1>8 DEF OwnMode
  <2>3. ASSUME NEW e \in RefEdges(n), memo["proof"][e.to].mode = "excluded"
        PROVE  FALSE
    BY <1>5, <1>8, <2>3 DEF Clean
  <2>4. ASSUME NEW c \in ChildrenOf(n, "allOf"), memo["proof"][c].mode = "excluded"
        PROVE  FALSE
    BY <1>6, <1>8, <2>4 DEF Clean
  <2>5. ASSUME NEW k \in DOMAIN schema[n].kids \cap {"anyOf", "oneOf"},
               Widest({memo["proof"][c].mode : c \in ChildrenOf(n, k)}) = "excluded"
        PROVE  FALSE
    <3>1. PICK c \in ChildrenOf(n, k) :
            Clean(c, p) /\ memo["proof"][c].mode \in {"open", "closed", "excluded"}
      BY <1>6
    <3>2. memo["proof"][c].mode # "excluded"
      BY <1>8, <3>1 DEF Clean
    <3> QED  BY <2>5, <3>1, <3>2 DEF Widest
  <2> QED  BY <1>7, <2>1, <2>2, <2>3, <2>4, <2>5 DEF Parts
<1>9. CASE schema[n].types = {}
  <2>1. OwnMode(n) = "open"
    BY <1>9 DEF OwnMode
  <2>2. "excluded" \in Parts(n) \/ "closed" \in Parts(n)
    BY <1>2, AdmissionParts
  <2>3. \/ RefEdges(n) # {} \/ ChildrenOf(n, "allOf") # {}
        \/ DOMAIN schema[n].kids \cap {"anyOf", "oneOf"} # {}
    BY <1>7, <2>1, <2>2 DEF Parts
  <2>4. \E c : Clean(c, p)
    BY <1>5, <1>6, <2>3
  <2> QED  BY <1>2, <1>8, <2>4 DEF Clean
<1>10. \A a \in Within(v) : Append(p, a) \in DOMAIN fixture
  BY FixturesAssumption
<1>11. CASE v.kind = "array" /\ schema[n].types # {}
  <2>1. "items" \in DOMAIN schema[n].kids
    BY <1>2, <1>7, <1>11 DEF Malformed
  <2>2. 1 \in DOMAIN KidsOf(n, "items") /\ KidsOf(n, "items")[1] \in ChildrenOf(n, "items")
    BY <1>1, <2>1, SchemasAssumption DEF KidsOf, ChildrenOf, SingleRank
  <2>3. ASSUME NEW a \in Within(v)
        PROVE  Declared(Append(p, a))
    <3>1. PICK i \in 1..v.len : a = Token[i]
      BY <1>11 DEF Within
    <3>2. Append(p, Token[i]) \in DOMAIN fixture
      BY <1>10, <3>1
    <3>3. CASE i \in DOMAIN KidsOf(n, "prefixItems")
      <4>1. known[KidsOf(n, "prefixItems")[i]][Append(p, Token[i])]
        BY <1>11, <3>3, ObjectAdmits
      <4> QED  BY <1>3, <3>1, <3>2, <3>3, <4>1 DEF Clean
    <3>4. CASE i \notin DOMAIN KidsOf(n, "prefixItems")
      <4>1. known[KidsOf(n, "items")[1]][Append(p, Token[i])]
        BY <1>11, <2>2, <3>4, ObjectAdmits
      <4> QED  BY <1>3, <2>2, <3>1, <3>2, <4>1 DEF Clean
    <3> QED  BY <3>3, <3>4
  <2> QED  BY <1>11, <2>3, DeclaredWithin DEF Clean
<1>12. CASE v.kind = "object" /\ schema[n].types # {}
  <2>1. ExplicitClosure(n) /\ Within(v) = v.names
    BY <1>2, <1>7, <1>12 DEF Malformed, Within
  <2> DEFINE extra == KidsOf(n, "additionalProperties")[1]
  <2>2. /\ 1 \in DOMAIN KidsOf(n, "additionalProperties") /\ extra \in DOMAIN schema
        /\ extra \in ChildrenOf(n, "additionalProperties")
        /\ extra = schema[n].kids["additionalProperties"][1]
    <3>1. "additionalProperties" \in DOMAIN schema[n].kids
      BY <2>1 DEF ExplicitClosure
    <3>2. /\ 1 \in DOMAIN KidsOf(n, "additionalProperties")
          /\ extra = schema[n].kids["additionalProperties"][1]
      BY <1>1, <3>1, SchemasAssumption DEF KidsOf, SingleRank
    <3> QED  BY <1>1, <3>2, KidsAreNodes DEF ChildrenOf
  <2> HIDE DEF extra
  <2>3. ASSUME NEW a \in v.names, a \notin DOMAIN KidsOf(n, "properties")
        PROVE  /\ known[extra][Append(p, a)]
               /\ a = Stray => \A c \in ChildrenOf(n, "propertyNames") : ~KeyPolicy(c)
    BY <1>12, <2>2, <2>3, ObjectAdmits
  <2>4. Stray \notin DOMAIN KidsOf(n, "properties")
    BY <1>1, SchemasAssumption DEF KidsOf, Empty
  <2>5. Stray \notin v.names
    <3>1. SUFFICES ASSUME Stray \in v.names PROVE FALSE
      OBVIOUS
    <3>2. known[extra][Append(p, Stray)] /\ Append(p, Stray) \in DOMAIN fixture
      BY <1>10, <2>1, <2>3, <2>4, <3>1
    <3>3. schema[extra].form # "false"
      BY <2>2, <3>2
    <3>4. \E c \in ChildrenOf(n, "propertyNames") : KeyPolicy(c)
      BY <2>1, <2>2, <3>3 DEF ExplicitClosure
    <3> QED  BY <2>3, <2>4, <3>1, <3>4
  <2>6. ASSUME NEW a \in Within(v)
        PROVE  Declared(Append(p, a))
    <3>1. a \in v.names /\ Append(p, a) \in DOMAIN fixture
      BY <1>10, <2>1
    <3>2. CASE a \in DOMAIN KidsOf(n, "properties")
      <4>1. known[KidsOf(n, "properties")[a]][Append(p, a)]
        BY <1>12, <3>1, <3>2, ObjectAdmits
      <4> QED  BY <1>3, <3>1, <3>2, <4>1 DEF Clean
    <3>3. CASE a \notin DOMAIN KidsOf(n, "properties")
      <4>1. known[extra][Append(p, a)]
        BY <2>3, <3>1, <3>3
      <4> QED  BY <1>3, <2>2, <3>1, <4>1 DEF Clean, extra
    <3> QED  BY <3>2, <3>3
  <2> QED  BY <1>2, <1>8, <1>12, <2>5, <2>6, DeclaredWithin DEF Clean
<1> QED  BY <1>9, <1>11, <1>12

\* One level of the argument: a node admits only clean values when its children do.
LEMMA CleanStep ==
  ASSUME WalkInv, ProofInv, pass # "proof", fixture \in Fixtures,
         NEW k \in 2..(MaxDepth + 2), NEW n \in DOMAIN memo["proof"], NEW p \in DOMAIN fixture,
         admits[k][n][p],
         \A e \in ProofEdges(n) : \A q \in DOMAIN fixture : admits[k - 1][e.to][q] => Clean(e.to, q)
  PROVE  Clean(n, p)
<1> DEFINE v == fixture[p]
           known == admits[k - 1]
<1>1. /\ n \in DOMAIN schema /\ schema \in Schemas /\ Settled(n)
      /\ k \in 1..(MaxDepth + 2) /\ k - 1 \in 1..(MaxDepth + 2)
  <2>1. Proved(n)
    BY DEF ProofInv
  <2> QED  BY <2>1, LimitsAssumption DEF ProofInv, WalkInv, Shape
<1>2. AdmitsBy(known, n, p)
  BY <1>1, AdmitsStep
<1>3. /\ memo["proof"][n].mode = Admission(n) /\ Admission(n) # "open" /\ ~Malformed(n)
  BY <1>1 DEF Settled
<1>4. ASSUME v.kind \notin {"object", "array"}
      PROVE  Clean(n, p)
  <2>1. Within(v) = {}
    BY <1>4 DEF Within
  <2> QED  BY <1>4, <2>1, DeclaredWithin DEF Clean
<1>5. CASE schema[n].form = "false"
  BY <1>1, <1>5, AdmitsFalse
<1>6. CASE schema[n].form = "policy"
  <2>1. v.kind = "scalar"
    BY <1>2, <1>6 DEF AdmitsBy
  <2> QED  BY <1>4, <2>1
<1>7. CASE schema[n].form = "const"
  <2>1. /\ v.kind = "object"
        /\ \A q \in DOMAIN fixture : IsPrefix(p, q) => Stray \notin fixture[q].names
    BY <1>2, <1>7 DEF AdmitsBy
  <2>2. Admission(n) = "closed"
    BY <1>7 DEF Admission
  <2> QED  BY <1>3, <2>1, <2>2 DEF Clean, Declared
<1>8. CASE schema[n].form = "object"
  <2>1. \A c \in DOMAIN schema : \A q \in DOMAIN fixture :
          schema[c].form = "false" => ~known[c][q]
    BY <1>1, AdmitsFalse
  <2>2. \A e \in ProofEdges(n) : \A q \in DOMAIN fixture : known[e.to][q] => Clean(e.to, q)
    OBVIOUS
  <2> HIDE DEF known
  <2> QED  BY <1>1, <1>2, <1>4, <1>8, <2>1, <2>2, CleanObject
<1>9. schema[n].form \in {"object", "false", "policy", "const"}
  BY <1>1, <1>3, SchemasAssumption DEF Malformed
<1> QED  BY <1>5, <1>6, <1>7, <1>8, <1>9

\* Enough levels for the depth of a node tell that what it admits is clean.
LEMMA AdmittedClean ==
  ASSUME WalkInv, ProofInv, pass # "proof", fixture \in Fixtures
  PROVE  \A k \in 0..(MaxDepth + 2) : \A n \in DOMAIN memo["proof"] : \A p \in DOMAIN fixture :
           Deep(n) + 2 <= k /\ admits[k][n][p] => Clean(n, p)
<1> DEFINE Holds(k) == \A n \in DOMAIN memo["proof"] : \A p \in DOMAIN fixture :
                         Deep(n) + 2 <= k /\ admits[k][n][p] => Clean(n, p)
           Bad == {k \in 0..(MaxDepth + 2) : ~Holds(k)}
<1>1. SUFFICES ASSUME Bad # {} PROVE FALSE
  OBVIOUS
<1>2. PICK k \in Bad : \A j \in Bad : k <= j
  <2>1. Bad \subseteq Nat
    BY LimitsAssumption
  <2> HIDE DEF Bad
  <2> QED  BY <1>1, <2>1, LeastNatural
<1>3. k \in 0..(MaxDepth + 2) /\ ~Holds(k)
  BY <1>2
<1>4. PICK n \in DOMAIN memo["proof"], p \in DOMAIN fixture :
        Deep(n) + 2 <= k /\ admits[k][n][p] /\ ~Clean(n, p)
  BY <1>3
<1>5. Settled(n) /\ Deep(n) \in Nat
  BY DEF ProofInv, Settled
<1>6. k \in 2..(MaxDepth + 2) /\ k - 1 \in 0..(MaxDepth + 2) /\ ~(k <= k - 1)
  BY <1>3, <1>4, <1>5, LimitsAssumption
<1>7. k - 1 \notin Bad
  <2> HIDE DEF Bad
  <2> QED  BY <1>2, <1>6
<1>8. Holds(k - 1)
  BY <1>6, <1>7
<1>9. ASSUME NEW e \in ProofEdges(n), NEW q \in DOMAIN fixture, admits[k - 1][e.to][q]
      PROVE  Clean(e.to, q)
  <2>1. Proved(e.to) /\ Deep(e.to) < Deep(n)
    BY <1>5 DEF Settled
  <2>2. e.to \in DOMAIN memo["proof"] /\ Deep(e.to) \in Nat
    BY <2>1 DEF Proved, ProofInv, Settled
  <2>3. Deep(e.to) + 2 <= k - 1
    BY <1>4, <1>5, <1>6, <2>1, <2>2
  <2> QED  BY <1>8, <1>9, <2>2, <2>3
<1> QED  BY <1>4, <1>6, <1>9, CleanStep

\* What is being estimated is a fixture's value.
FixtureInv == pass = "instance" => fixture \in Fixtures

\* A value is being estimated only after it was chosen.
LEMMA FixtureStep ==
  ASSUME WalkInv, FixtureInv, [Next]_vars
  PROVE  FixtureInv'
<1>1. CASE ValidateFixture
  BY <1>1 DEF ValidateFixture, FixtureInv
<1>2. ASSUME FinishPass
      PROVE  pass' # "instance" \/ (pass' = pass /\ fixture' = fixture)
  <2>1. stack # <<>>
    <3>1. Len(stack) = 1
      BY <1>2 DEF FinishPass
    <3> QED  BY <3>1
  <2>2. pass \in Passes
    BY <2>1, TopFrame
  <2> QED  BY <1>2, <2>2 DEF FinishPass, Passes
<1>3. ASSUME Begin \/ Visit \/ Unproved \/ Finish \/ UNCHANGED vars
      PROVE  pass' = pass /\ fixture' = fixture
  <2>1. CASE Begin
    BY <2>1 DEF Begin, Conclude, Call
  <2>2. CASE Visit
    BY <2>2 DEF Visit, Descend, Revisit, Fail, Conclude, Call
  <2>3. CASE Unproved
    BY <2>3 DEF Unproved, Conclude
  <2>4. CASE Finish
    BY <2>4 DEF Finish, Finished
  <2>5. CASE UNCHANGED vars
    BY <2>5 DEF vars
  <2> QED  BY <1>3, <2>1, <2>2, <2>3, <2>4, <2>5
<1> QED  BY <1>1, <1>2, <1>3 DEF Next, FixtureInv

\* A schema that was proved admits no value with an object, however deep, that has
\* a property nothing declares.
THEOREM ProofCloses == Spec => []NoStrayProperty
<1>1. Init => WalkInv /\ ProofInv /\ FixtureInv
  BY WalkInit, ProofInit DEF Init, FixtureInv
<1>2. WalkInv /\ ProofInv /\ FixtureInv /\ [Next]_vars => (WalkInv /\ ProofInv /\ FixtureInv)'
  BY WalkStep, ProofStep, FixtureStep
<1>3. WalkInv /\ ProofInv /\ FixtureInv => NoStrayProperty
  <2> SUFFICES ASSUME WalkInv, ProofInv, FixtureInv, pass = "instance", Admits
               PROVE  \A p \in DOMAIN fixture :
                        fixture[p].kind = "object" => Stray \notin fixture[p].names
    BY DEF NoStrayProperty
  <2>1. fixture \in Fixtures /\ <<>> \in DOMAIN fixture
    BY FixturesAssumption DEF FixtureInv
  <2>2. /\ Root \in DOMAIN memo["proof"] /\ Deep(Root) <= MaxDepth /\ Deep(Root) \in Nat
    BY DEF ProofInv, Settled
  <2>3. MaxDepth + 2 \in 0..(MaxDepth + 2) /\ Deep(Root) + 2 <= MaxDepth + 2
    BY <2>2, LimitsAssumption
  <2>4. Clean(Root, <<>>)
    BY <2>1, <2>2, <2>3, AdmittedClean DEF Admits
  <2>5. ASSUME NEW p \in DOMAIN fixture
        PROVE  IsPrefix(<<>>, p)
    <3>1. p \in Seq(Names \cup {Token[i] : i \in 1..Len(Token)})
      BY <2>1, FixturesAssumption
    <3>2. Len(<<>>) = 0 /\ 0 <= Len(p)
      BY <3>1
    <3>3. SubSeq(<<>>, 1, 0) = <<>> /\ SubSeq(p, 1, 0) = <<>>
      BY SubSeqEmpty
    <3> QED  BY <3>2, <3>3 DEF IsPrefix
  <2> QED  BY <2>4, <2>5 DEF Clean, Declared
<1> QED  BY <1>1, <1>2, <1>3, PTL DEF Spec

-----------------------------------------------------------------------------
(* Sums over finite sets.                                                    *)

\* A nonempty set of subsets of a finite set has a least element by inclusion.
LEMMA LeastSubset ==
  ASSUME NEW S, IsFiniteSet(S), NEW T, T \subseteq SUBSET S, T # {}
  PROVE  \E m \in T : \A k \in T : k \subseteq m => k = m
<1>1. IsWellFoundedOn(StrictSubsetOrdering(S), FiniteSubsetsOf(S))
  BY FS_StrictSubsetOrderingWellFounded
<1>2. FiniteSubsetsOf(S) = SUBSET S
  BY FS_FiniteSubsetsOfFinite
<1>3. PICK m \in T : \A k \in T : <<k, m>> \notin StrictSubsetOrdering(S)
  BY <1>1, <1>2, WFMin
<1> QED  BY <1>3 DEF StrictSubsetOrdering

\* A sum over a set takes any one of its elements and the sum of the rest.
Pick(s) == CHOOSE x \in s : TRUE
Next1(f, g, s) == IF s = {} THEN 0 ELSE f[Pick(s)] + g[s \ {Pick(s)}]
Sums(f, S, g) == g = [s \in SUBSET S |-> Next1(f, g, s)]

\* The recursion over the subsets has a solution: each application solves it for
\* the sets of one element more.
LEMMA SumsExist ==
  ASSUME NEW S, IsFiniteSet(S), NEW f
  PROVE  \E g : Sums(f, S, g)
<1> DEFINE Solved(g, n) == \A t \in SUBSET S : Cardinality(t) <= n => g[t] = Next1(f, g, t)
           Unsolved == {n \in Nat : ~\E g : Solved(g, n)}
<1>0. \A t \in SUBSET S :
        IsFiniteSet(t) /\ Cardinality(t) \in Nat /\ Cardinality(t) <= Cardinality(S)
  BY FS_Subset, FS_CardinalityType
<1>1. Unsolved = {}
  <2>1. SUFFICES ASSUME Unsolved # {} PROVE FALSE
    OBVIOUS
  <2>2. PICK n \in Unsolved : \A k \in Unsolved : n <= k
    BY <2>1, LeastNatural
  <2>3. n # 0
    <3>1. \A t \in SUBSET S : Cardinality(t) <= 0 => t = {}
      BY <1>0, FS_EmptySet
    <3>2. Solved([t \in SUBSET S |-> 0], 0)
      BY <3>1 DEF Next1
    <3> QED  BY <2>2, <3>2
  <2>4. n - 1 \in Nat /\ n - 1 \notin Unsolved
    <3>1. n \in Nat /\ n - 1 \in Nat /\ ~(n <= n - 1)
      BY <2>2, <2>3
    <3> HIDE DEF Unsolved
    <3> QED  BY <2>2, <3>1
  <2>5. PICK g : Solved(g, n - 1)
    BY <2>4
  <2> DEFINE h == [t \in SUBSET S |-> Next1(f, g, t)]
  <2>6. ASSUME NEW t \in SUBSET S, Cardinality(t) <= n
        PROVE  h[t] = Next1(f, h, t)
    <3>1. CASE t = {}
      BY <3>1 DEF Next1
    <3>2. CASE t # {}
      <4> DEFINE u == t \ {Pick(t)}
      <4>1. Pick(t) \in t
        BY <3>2 DEF Pick
      <4>2. u \in SUBSET S /\ Cardinality(u) = Cardinality(t) - 1
        BY <1>0, <4>1, FS_RemoveElement
      <4>3. Cardinality(u) <= n - 1
        BY <1>0, <2>4, <2>6, <4>2
      <4>4. g[u] = Next1(f, g, u)
        BY <2>5, <4>2, <4>3
      <4>5. h[u] = g[u]
        BY <4>2, <4>4
      <4>6. h[t] = Next1(f, g, t)
        OBVIOUS
      <4> HIDE DEF h
      <4> QED  BY <3>2, <4>5, <4>6 DEF Next1
    <3> QED  BY <3>1, <3>2
  <2>7. Solved(h, n)
    BY <2>6
  <2> QED  BY <2>2, <2>7
<1>2. Cardinality(S) \in Nat
  BY FS_CardinalityType
<1>3. PICK g : Solved(g, Cardinality(S))
  BY <1>1, <1>2
<1>4. \A t \in SUBSET S : g[t] = Next1(f, g, t)
  BY <1>0, <1>3
<1> DEFINE h == [t \in SUBSET S |-> g[t]]
<1>5. ASSUME NEW t \in SUBSET S
      PROVE  Next1(f, h, t) = Next1(f, g, t)
  <2>1. t \ {Pick(t)} \in SUBSET S
    OBVIOUS
  <2>2. h[t \ {Pick(t)}] = g[t \ {Pick(t)}]
    BY <2>1
  <2> HIDE DEF h
  <2> QED  BY <2>2 DEF Next1
<1>6. \A t \in SUBSET S : h[t] = Next1(f, h, t)
  BY <1>4, <1>5
<1>7. Sums(f, S, h)
  <2>1. h = [t \in SUBSET S |-> h[t]]
    OBVIOUS
  <2> HIDE DEF h
  <2> QED  BY <1>6, <2>1 DEF Sums
<1> QED  BY <1>7

\* It has but one, whatever set the subsets are of.
LEMMA SumsAgree ==
  ASSUME NEW f, NEW S, NEW T, IsFiniteSet(S), NEW g, NEW h, Sums(f, S, g), Sums(f, T, h),
         NEW t, t \subseteq S, t \subseteq T
  PROVE  g[t] = h[t]
<1> DEFINE Apart == {u \in SUBSET t : g[u] # h[u]}
<1>1. SUFFICES ASSUME Apart # {} PROVE FALSE
  OBVIOUS
<1>2. IsFiniteSet(t)
  BY FS_Subset
<1>3. PICK u \in Apart : \A k \in Apart : k \subseteq u => k = u
  <2>1. Apart \subseteq SUBSET t
    OBVIOUS
  <2> HIDE DEF Apart
  <2> QED  BY <1>1, <1>2, <2>1, LeastSubset
<1>4. u \in SUBSET S /\ u \in SUBSET T /\ u \subseteq t
  BY <1>3
<1>5. g[u] = Next1(f, g, u) /\ h[u] = Next1(f, h, u)
  BY <1>4 DEF Sums
<1>6. u # {}
  BY <1>3, <1>5 DEF Next1
<1>7. Pick(u) \in u
  BY <1>6 DEF Pick
<1>8. g[u \ {Pick(u)}] = h[u \ {Pick(u)}]
  BY <1>3, <1>4, <1>7
<1> QED  BY <1>3, <1>5, <1>6, <1>8 DEF Next1

\* SumFunctionOnSet is such a solution's value.
LEMMA SumIs ==
  ASSUME NEW S, IsFiniteSet(S), NEW f
  PROVE  \E g : Sums(f, S, g) /\ SumFunctionOnSet(f, S) = g[S]
<1> DEFINE it == CHOOSE g : g = [s \in SUBSET S |->
                    IF s = {} THEN 0
                    ELSE f[CHOOSE x \in s : TRUE] + g[s \ {CHOOSE x \in s : TRUE}]]
<1>1. SumFunctionOnSet(f, S) = it[S]
  BY DEF SumFunctionOnSet, FoldFunctionOnSet, MapThenFoldSet
<1>2. \A g : Sums(f, S, g) <=> g = [s \in SUBSET S |->
                    IF s = {} THEN 0
                    ELSE f[CHOOSE x \in s : TRUE] + g[s \ {CHOOSE x \in s : TRUE}]]
  BY DEF Sums, Next1, Pick
<1>3. Sums(f, S, it)
  <2>1. \E g : g = [s \in SUBSET S |->
                    IF s = {} THEN 0
                    ELSE f[CHOOSE x \in s : TRUE] + g[s \ {CHOOSE x \in s : TRUE}]]
    <3>1. PICK g : Sums(f, S, g)
      BY SumsExist
    <3>2. g = [s \in SUBSET S |->
                    IF s = {} THEN 0
                    ELSE f[CHOOSE x \in s : TRUE] + g[s \ {CHOOSE x \in s : TRUE}]]
      BY <1>2, <3>1
    <3> QED  BY <3>2
  <2>2. it = [s \in SUBSET S |->
                    IF s = {} THEN 0
                    ELSE f[CHOOSE x \in s : TRUE] + it[s \ {CHOOSE x \in s : TRUE}]]
    BY <2>1, Zenon
  <2> HIDE DEF it
  <2> QED  BY <1>2, <2>2
<1> QED  BY <1>1, <1>3

\* The sum over nothing, and over a set of which an element is taken out.
LEMMA SumEmpty ==
  ASSUME NEW f
  PROVE  SumFunctionOnSet(f, {}) = 0
<1>1. PICK g : Sums(f, {}, g) /\ SumFunctionOnSet(f, {}) = g[{}]
  BY SumIs, FS_EmptySet
<1> QED  BY <1>1 DEF Sums, Next1

\* What the sum takes first is any one of the elements.
LEMMA SumPicked ==
  ASSUME NEW S, IsFiniteSet(S), S # {}, NEW f
  PROVE  /\ Pick(S) \in S
         /\ SumFunctionOnSet(f, S) = f[Pick(S)] + SumFunctionOnSet(f, S \ {Pick(S)})
<1>1. PICK g : Sums(f, S, g) /\ SumFunctionOnSet(f, S) = g[S]
  BY SumIs
<1> DEFINE T == S \ {Pick(S)}
<1>2. IsFiniteSet(T) /\ T \subseteq S
  BY FS_Subset
<1> HIDE DEF T
<1>3. PICK h : Sums(f, T, h) /\ SumFunctionOnSet(f, T) = h[T]
  BY <1>2, SumIs
<1>4. h[T] = g[T]
  BY <1>1, <1>2, <1>3, SumsAgree
<1>5. g[S] = f[Pick(S)] + g[T]
  BY <1>1 DEF Sums, Next1, T
<1>6. Pick(S) \in S
  BY DEF Pick
<1> QED  BY <1>1, <1>3, <1>4, <1>5, <1>6 DEF T

\* A sum of numbers is one.
LEMMA SumNat ==
  ASSUME NEW S, IsFiniteSet(S), NEW f, \A x \in S : f[x] \in Nat
  PROVE  SumFunctionOnSet(f, S) \in Nat
<1> DEFINE Bad == {u \in SUBSET S : SumFunctionOnSet(f, u) \notin Nat}
<1>1. SUFFICES ASSUME Bad # {} PROVE FALSE
  OBVIOUS
<1>2. PICK u \in Bad : \A k \in Bad : k \subseteq u => k = u
  <2>1. Bad \subseteq SUBSET S
    OBVIOUS
  <2> HIDE DEF Bad
  <2> QED  BY <1>1, <2>1, LeastSubset
<1>3. u \subseteq S /\ IsFiniteSet(u) /\ SumFunctionOnSet(f, u) \notin Nat
  BY <1>2, FS_Subset
<1>4. u # {}
  BY <1>3, SumEmpty
<1>5. Pick(u) \in u /\ SumFunctionOnSet(f, u) = f[Pick(u)] + SumFunctionOnSet(f, u \ {Pick(u)})
  BY <1>3, <1>4, SumPicked
<1>6. SumFunctionOnSet(f, u \ {Pick(u)}) \in Nat
  <2>1. u \ {Pick(u)} \in SUBSET S /\ u \ {Pick(u)} \subseteq u /\ u \ {Pick(u)} # u
    BY <1>3, <1>5
  <2> QED  BY <1>2, <2>1
<1>7. f[Pick(u)] \in Nat
  BY <1>3, <1>5
<1> HIDE DEF Bad
<1> QED  BY <1>3, <1>5, <1>6, <1>7

\* Any element can be taken out of a sum.
LEMMA SumSplit ==
  ASSUME NEW S, IsFiniteSet(S), NEW f, \A x \in S : f[x] \in Nat, NEW y \in S
  PROVE  /\ SumFunctionOnSet(f, S) = f[y] + SumFunctionOnSet(f, S \ {y})
         /\ SumFunctionOnSet(f, S \ {y}) \in Nat
<1> DEFINE Sum(u) == SumFunctionOnSet(f, u)
           Bad == {u \in SUBSET S : \E x \in u : Sum(u) # f[x] + Sum(u \ {x})}
<1>0. \A u \in SUBSET S : IsFiniteSet(u) /\ Sum(u) \in Nat
  BY FS_Subset, SumNat
<1>1. Bad = {}
  <2>1. SUFFICES ASSUME Bad # {} PROVE FALSE
    OBVIOUS
  <2>2. PICK u \in Bad : \A k \in Bad : k \subseteq u => k = u
    <3>1. Bad \subseteq SUBSET S
      OBVIOUS
    <3> HIDE DEF Bad
    <3> QED  BY <2>1, <3>1, LeastSubset
  <2>3. PICK x \in u : Sum(u) # f[x] + Sum(u \ {x})
    BY <2>2
  <2> DEFINE c == Pick(u)
             v == u \ {c}
             w == u \ {x}
  <2>4. u \in SUBSET S /\ u # {} /\ IsFiniteSet(u)
    BY <1>0, <2>2, <2>3
  <2>5. c \in u /\ Sum(u) = f[c] + Sum(v)
    BY <2>4, SumPicked
  <2>6. x # c
    BY <2>3, <2>5
  <2>7. v \in SUBSET S /\ v \notin Bad /\ w \in SUBSET S /\ w \notin Bad
    <3>1. v \in SUBSET S /\ v \subseteq u /\ v # u /\ w \in SUBSET S /\ w \subseteq u /\ w # u
      BY <2>3, <2>4, <2>5
    <3> HIDE DEF Bad, v, w
    <3> QED  BY <2>2, <3>1
  <2>8. x \in v /\ c \in w /\ v \ {x} = w \ {c}
    BY <2>3, <2>5, <2>6
  <2>9. Sum(v) = f[x] + Sum(v \ {x})
    BY <2>7, <2>8
  <2>10. Sum(w) = f[c] + Sum(w \ {c})
    BY <2>7, <2>8
  <2>11. f[x] \in Nat /\ f[c] \in Nat /\ Sum(v \ {x}) \in Nat
    <3>1. v \ {x} \in SUBSET S /\ x \in S /\ c \in S
      BY <2>3, <2>4, <2>5, <2>7
    <3> HIDE DEF v, c, Sum
    <3> QED  BY <1>0, <3>1
  <2> HIDE DEF Sum, Bad, c
  <2>12. Sum(u) = f[c] + (f[x] + Sum(v \ {x}))
    BY <2>5, <2>9
  <2>13. Sum(w) = f[c] + Sum(v \ {x})
    BY <2>8, <2>10
  <2> QED  BY <2>3, <2>11, <2>12, <2>13
<1>2. Sum(S) = f[y] + Sum(S \ {y})
  BY <1>1
<1>3. Sum(S \ {y}) \in Nat
  BY <1>0
<1> QED  BY <1>2, <1>3

\* It depends on the values over the set alone.
LEMMA SumSame ==
  ASSUME NEW S, IsFiniteSet(S), NEW f, NEW g, \A x \in S : f[x] = g[x]
  PROVE  SumFunctionOnSet(f, S) = SumFunctionOnSet(g, S)
<1> DEFINE Bad == {u \in SUBSET S : SumFunctionOnSet(f, u) # SumFunctionOnSet(g, u)}
<1>1. SUFFICES ASSUME Bad # {} PROVE FALSE
  OBVIOUS
<1>2. PICK u \in Bad : \A k \in Bad : k \subseteq u => k = u
  <2>1. Bad \subseteq SUBSET S
    OBVIOUS
  <2> HIDE DEF Bad
  <2> QED  BY <1>1, <2>1, LeastSubset
<1>3. u \subseteq S /\ IsFiniteSet(u) /\ SumFunctionOnSet(f, u) # SumFunctionOnSet(g, u)
  BY <1>2, FS_Subset
<1>4. u # {}
  BY <1>3, SumEmpty
<1>5. /\ Pick(u) \in u
      /\ SumFunctionOnSet(f, u) = f[Pick(u)] + SumFunctionOnSet(f, u \ {Pick(u)})
      /\ SumFunctionOnSet(g, u) = g[Pick(u)] + SumFunctionOnSet(g, u \ {Pick(u)})
  BY <1>3, <1>4, SumPicked
<1>6. SumFunctionOnSet(f, u \ {Pick(u)}) = SumFunctionOnSet(g, u \ {Pick(u)})
  <2>1. u \ {Pick(u)} \in SUBSET S /\ u \ {Pick(u)} \subseteq u /\ u \ {Pick(u)} # u
    BY <1>3, <1>5
  <2> QED  BY <1>2, <2>1
<1> QED  BY <1>3, <1>5, <1>6

\* A larger set, and larger values, have a larger sum.
LEMMA SumGrows ==
  ASSUME NEW S, IsFiniteSet(S), NEW T, T \subseteq S, NEW f, NEW g,
         \A x \in S : f[x] \in Nat /\ g[x] \in Nat /\ (x \in T => f[x] <= g[x])
  PROVE  SumFunctionOnSet(f, T) <= SumFunctionOnSet(g, S)
<1> DEFINE F(u) == SumFunctionOnSet(f, u)
           G(u) == SumFunctionOnSet(g, u)
           Bad == {u \in SUBSET S : ~(F(u \cap T) <= G(u))}
<1>0. \A u \in SUBSET S : IsFiniteSet(u) /\ F(u) \in Nat /\ G(u) \in Nat
  <2>1. ASSUME NEW u \in SUBSET S
        PROVE  IsFiniteSet(u) /\ F(u) \in Nat /\ G(u) \in Nat
    <3>1. IsFiniteSet(u)
      BY FS_Subset
    <3> QED  BY <3>1, SumNat
  <2> QED  BY <2>1
<1>1. Bad = {}
  <2>1. SUFFICES ASSUME Bad # {} PROVE FALSE
    OBVIOUS
  <2>2. PICK u \in Bad : \A k \in Bad : k \subseteq u => k = u
    <3>1. Bad \subseteq SUBSET S
      OBVIOUS
    <3> HIDE DEF Bad
    <3> QED  BY <2>1, <3>1, LeastSubset
  <2>3. u \in SUBSET S /\ ~(F(u \cap T) <= G(u))
    BY <2>2
  <2>4. u # {}
    <3>1. SUFFICES ASSUME u = {} PROVE FALSE
      OBVIOUS
    <3>2. u \cap T = {}
      BY <3>1
    <3>3. F(u \cap T) = 0 /\ G(u) = 0
      BY <3>1, <3>2, SumEmpty
    <3> QED  BY <2>3, <3>3
  <2>5. PICK y \in u : TRUE
    BY <2>4
  <2> DEFINE v == u \ {y}
  <2>6. v \in SUBSET S /\ v \notin Bad
    <3>1. v \in SUBSET S /\ v \subseteq u /\ v # u
      BY <2>3, <2>5
    <3> HIDE DEF Bad, v
    <3> QED  BY <2>2, <3>1
  <2>7. F(v \cap T) <= G(v)
    BY <2>6
  <2>8. G(u) = g[y] + G(v) /\ G(v) \in Nat
    <3>1. IsFiniteSet(u) /\ \A x \in u : g[x] \in Nat
      BY <1>0, <2>3
    <3> QED  BY <2>5, <3>1, SumSplit
  <2>9. f[y] \in Nat /\ g[y] \in Nat /\ F(v \cap T) \in Nat
    <3>1. y \in S /\ v \cap T \in SUBSET S
      BY <2>3, <2>5
    <3> HIDE DEF F
    <3> QED  BY <1>0, <3>1
  <2>10. CASE y \in T
    <3>1. IsFiniteSet(u \cap T) /\ \A x \in u \cap T : f[x] \in Nat
      BY <2>3, FS_Subset
    <3>2. y \in u \cap T /\ (u \cap T) \ {y} = v \cap T
      BY <2>5, <2>10
    <3>3. F(u \cap T) = f[y] + F((u \cap T) \ {y})
      BY <3>1, <3>2, SumSplit
    <3>4. f[y] <= g[y]
      BY <2>3, <2>5, <2>10
    <3>5. F(u \cap T) = f[y] + F(v \cap T)
      BY <3>2, <3>3
    <3> HIDE DEF F, G, v
    <3>6. f[y] + F(v \cap T) <= g[y] + G(v)
      BY <2>7, <2>8, <2>9, <3>4
    <3> QED  BY <2>3, <2>8, <3>5, <3>6
  <2>11. CASE y \notin T
    <3>1. u \cap T = v \cap T
      BY <2>11
    <3> HIDE DEF F, G, v
    <3> QED  BY <2>3, <2>7, <2>8, <2>9, <3>1
  <2> QED  BY <2>10, <2>11
<1>2. F(S \cap T) <= G(S)
  BY <1>1
<1>3. S \cap T = T
  OBVIOUS
<1> QED  BY <1>2, <1>3

-----------------------------------------------------------------------------
(* Recursion over the naturals.                                              *)

\* What is so of 0 and goes from each number to the next is so up to any number.
LEMMA UpTo ==
  ASSUME NEW M \in Nat, NEW P, 0 \in P, \A k \in 1..M : k - 1 \in P => k \in P
  PROVE  0..M \subseteq P
<1> DEFINE Bad == {k \in 0..M : k \notin P}
<1>1. SUFFICES ASSUME Bad # {} PROVE FALSE
  OBVIOUS
<1>2. Bad \subseteq Nat
  OBVIOUS
<1>3. PICK k \in Bad : \A j \in Bad : k <= j
  <2> HIDE DEF Bad
  <2> QED  BY <1>1, <1>2, LeastNatural
<1>4. k \in 1..M
  <2>1. k \in 0..M /\ k # 0
    BY <1>3
  <2> QED  BY <2>1
<1>5. k - 1 \in 0..M /\ ~(k <= k - 1)
  BY <1>4
<1>6. k - 1 \in P
  BY <1>3, <1>5
<1> QED  BY <1>3, <1>4, <1>6

\* f is M steps of step from base, in X.
Iterates(f, M, X, base, step) ==
  f \in [0..M -> X] /\ f[0] = base /\ \A k \in 1..M : f[k] = step[f[k - 1]]

\* A recursion that stays in a set has a solution there.
LEMMA Iterated ==
  ASSUME NEW M \in Nat, NEW X, NEW base \in X, NEW step \in [X -> X]
  PROVE  \E f : Iterates(f, M, X, base, step)
<1> DEFINE Solved(f, m) == f \in [0..m -> X] /\ f = [k \in 0..m |->
      IF k = 0 THEN base
      ELSE step[f[k - 1]]]
           P == {m \in 0..M : \E f : Solved(f, m)}
<1>1. 0 \in P
  <2> DEFINE g == [k \in 0..0 |-> base]
  <2>1. 0 \in 0..M /\ g \in [0..0 -> X]
    OBVIOUS
  <2>2. g = [k \in 0..0 |-> IF k = 0 THEN base ELSE step[g[k - 1]]]
    <3>1. \A k \in 0..0 : k = 0
      OBVIOUS
    <3>2. g = [k \in 0..0 |-> g[k]] /\ \A k \in 0..0 : g[k] = base
      OBVIOUS
    <3> HIDE DEF g
    <3> QED  BY <3>1, <3>2
  <2> HIDE DEF g
  <2> QED  BY <2>1, <2>2
<1>2. ASSUME NEW m \in 1..M, m - 1 \in P
      PROVE  m \in P
  <2>1. PICK f : Solved(f, m - 1)
    BY <1>2
  <2> DEFINE g == [k \in 0..m |-> IF k = m THEN step[f[m - 1]] ELSE f[k]]
  <2>2. m - 1 \in 0..(m - 1) /\ m - 1 # m /\ m - 1 \in 0..m
    BY <1>2
  <2>3. f[m - 1] \in X
    BY <2>1, <2>2
  <2>4. ASSUME NEW k \in 0..m
        PROVE  g[k] \in X /\ g[k] = IF k = 0 THEN base ELSE step[g[k - 1]]
    <3>1. CASE k = m
      <4>1. g[m - 1] = f[m - 1]
        BY <2>2
      <4>2. g[k] = step[f[m - 1]] /\ k # 0
        BY <1>2, <3>1
      <4> HIDE DEF g
      <4> QED  BY <2>3, <3>1, <4>1, <4>2
    <3>2. CASE k # m
      <4>1. k \in 0..(m - 1) /\ g[k] = f[k]
        BY <1>2, <3>2
      <4>2. f[k] \in X /\ f[k] = IF k = 0 THEN base ELSE step[f[k - 1]]
        BY <2>1, <4>1
      <4>3. k # 0 => g[k - 1] = f[k - 1]
        <5>1. k # 0 => k - 1 \in 0..m /\ k - 1 # m
          BY <1>2, <4>1
        <5> QED  BY <5>1
      <4> HIDE DEF g
      <4> QED  BY <4>1, <4>2, <4>3
    <3> QED  BY <3>1, <3>2
  <2>5. Solved(g, m)
    <3>1. g = [k \in 0..m |-> g[k]]
      OBVIOUS
    <3> HIDE DEF g
    <3> QED  BY <2>4, <3>1
  <2> HIDE DEF g, Solved
  <2> QED  BY <2>5
<1>3. 0..M \subseteq P
  <2> HIDE DEF P
  <2> QED  BY <1>1, <1>2, UpTo
<1>4. PICK f : Solved(f, M)
  BY <1>3
<1>5. f[0] = base /\ \A k \in 1..M : f[k] = step[f[k - 1]]
  <2>1. 0 \in 0..M /\ \A k \in 1..M : k \in 0..M /\ k # 0
    OBVIOUS
  <2> QED  BY <1>4, <2>1
<1>6. Iterates(f, M, X, base, step)
  BY <1>4, <1>5 DEF Iterates
<1> QED  BY <1>6

\* A finite set of numbers has a largest.
LEMMA MaxOf ==
  ASSUME NEW S, IsFiniteSet(S), S # {}, \A x \in S : x \in Int
  PROVE  Max(S) \in S /\ \A y \in S : Max(S) >= y
<1> DEFINE Top1(u) == \E x \in u : \A y \in u : x >= y
           Bad == {u \in SUBSET S : u # {} /\ ~Top1(u)}
<1>1. Bad = {}
  <2>1. SUFFICES ASSUME Bad # {} PROVE FALSE
    OBVIOUS
  <2>2. PICK u \in Bad : \A k \in Bad : k \subseteq u => k = u
    <3>1. Bad \subseteq SUBSET S
      OBVIOUS
    <3> HIDE DEF Bad, Top1
    <3>2. IsFiniteSet(S)
      OBVIOUS
    <3> QED  BY <2>1, <3>1, <3>2, LeastSubset
  <2>3. u \in SUBSET S /\ u # {} /\ ~Top1(u)
    BY <2>2
  <2>4. PICK x \in u : TRUE
    BY <2>3
  <2> DEFINE v == u \ {x}
  <2>5. v # {}
    BY <2>3, <2>4
  <2>6. Top1(v)
    <3>1. v \in SUBSET S /\ v \subseteq u /\ v # u
      BY <2>3, <2>4
    <3>2. v \notin Bad
      <4> HIDE DEF Bad, v
      <4> QED  BY <2>2, <3>1
    <3> HIDE DEF Top1, v
    <3> QED  BY <2>5, <3>1, <3>2
  <2>7. PICK m \in v : \A y \in v : m >= y
    BY <2>6
  <2>8. m \in Int /\ x \in Int /\ m \in u
    BY <2>3, <2>4, <2>7
  <2>9. \A y \in u : y = x \/ m >= y
    BY <2>7
  <2>10. \A y \in u : y \in Int
    BY <2>3
  <2> HIDE DEF v, Bad
  <2>11. CASE m >= x
    BY <2>3, <2>8, <2>9, <2>11
  <2>12. CASE ~(m >= x)
    <3>1. \A y \in u : x >= y
      BY <2>8, <2>9, <2>10, <2>12
    <3> QED  BY <2>3, <2>4, <3>1
  <2> QED  BY <2>11, <2>12
<1>2. \E x \in S : \A y \in S : x >= y
  BY <1>1
<1> HIDE DEF Top1, Bad
<1> QED  BY <1>2 DEF Max

-----------------------------------------------------------------------------
(* What the proof has to look at.                                            *)

\* The nodes and the one that is none; the ends of the edges of some of them.
All == DOMAIN schema \cup {NoNode}
Targets(R) == {e.to : e \in UNION {ProofEdges(n) : n \in R \ {NoNode}}}

\* Reachable is reached from the root in as many steps as there are nodes.
LEMMA ReachDefined ==
  ASSUME schema \in Schemas
  PROVE  \E r : /\ r[0] = {Root} /\ Reachable = r[Cardinality(DOMAIN schema)]
                /\ \A k \in 1..Cardinality(DOMAIN schema) : r[k] = r[k - 1] \cup Targets(r[k - 1])
<1> DEFINE N == Cardinality(DOMAIN schema)
           X == SUBSET All
           step == [R \in X |-> R \cup Targets(R)]
           Body(f) == [k \in 0..N |->
                         IF k = 0 THEN {Root}
                         ELSE f[k - 1] \cup
                              {e.to : e \in UNION {ProofEdges(n) : n \in f[k - 1] \ {NoNode}}}]
           reach == CHOOSE f : f = Body(f)
<1>1. N \in Nat
  BY SchemasAssumption, FS_CardinalityType
<1>2. Reachable = reach[N]
  BY DEF Reachable
<1>3. step \in [X -> X] /\ {Root} \in X
  <2>1. \A R \in X : Targets(R) \subseteq All
    BY EdgeTargets DEF Targets, All
  <2>2. Root \in DOMAIN schema
    BY SchemasAssumption
  <2> QED  BY <2>1, <2>2 DEF All
<1> HIDE DEF N
<1>4. PICK f \in [0..N -> X] : f[0] = {Root} /\ \A k \in 1..N : f[k] = step[f[k - 1]]
  <2> DEFINE base == {Root}
  <2>1. base \in X /\ step \in [X -> X]
    BY <1>3
  <2> HIDE DEF X, step, base
  <2>2. PICK f : Iterates(f, N, X, base, step)
    BY ONLY <1>1, <2>1, Iterated
  <2> QED  BY ONLY <2>2 DEF Iterates, base
<1>5. f = Body(f)
  <2>1. ASSUME NEW k \in 0..N, k # 0
        PROVE  f[k] = f[k - 1] \cup Targets(f[k - 1])
    <3>1. k \in 1..N /\ k - 1 \in 0..N
      BY <1>1, <2>1
    <3>2. f[k - 1] \in X
      BY <3>1
    <3>3. f[k] = step[f[k - 1]]
      BY <1>4, <3>1
    <3> QED  BY <3>2, <3>3
  <2>2. f = [k \in 0..N |-> f[k]]
    OBVIOUS
  <2> HIDE DEF X, step
  <2> QED  BY <1>4, <2>1, <2>2 DEF Targets
<1>6. reach = Body(reach)
  <2>1. \E g : g = Body(g)
    <3> HIDE DEF Body
    <3> QED  BY <1>5
  <2> HIDE DEF Body
  <2> QED  BY <2>1
<1> HIDE DEF reach
<1>7. reach[0] = {Root}
  BY <1>1, <1>6
<1>8. \A k \in 1..N : reach[k] = reach[k - 1] \cup Targets(reach[k - 1])
  <2>1. \A k \in 1..N : k \in 0..N /\ k # 0
    BY <1>1
  <2> QED  BY <1>6, <2>1 DEF Targets
<1> QED  BY <1>2, <1>7, <1>8 DEF N

\* It is closed: while it is not, each step takes in another of the nodes.
LEMMA ReachClosed ==
  ASSUME schema \in Schemas
  PROVE  /\ Root \in Reachable /\ Reachable \subseteq All
         /\ Targets(Reachable) \subseteq Reachable
<1> DEFINE N == Cardinality(DOMAIN schema)
<1>1. PICK r : /\ r[0] = {Root} /\ Reachable = r[N]
               /\ \A k \in 1..N : r[k] = r[k - 1] \cup Targets(r[k - 1])
  BY ReachDefined
<1>2. /\ N \in Nat /\ IsFiniteSet(All) /\ Cardinality(All) = N + 1 /\ Root \in All
      /\ NoNode \notin DOMAIN schema
  <2>1. IsFiniteSet(DOMAIN schema) /\ NoNode \notin DOMAIN schema /\ Root \in DOMAIN schema
    BY SchemasAssumption
  <2> QED  BY <2>1, FS_CardinalityType, FS_AddElement DEF All
<1> HIDE DEF N
<1>3. \A R \in SUBSET All : Targets(R) \subseteq All
  BY EdgeTargets DEF Targets, All
<1> DEFINE Grown == {k \in 0..N : /\ r[k] \in SUBSET All /\ Root \in r[k]
                                  /\ Targets(r[k]) \subseteq r[k] \/ Cardinality(r[k]) >= k + 1}
<1>4. 0 \in Grown
  <2>1. Cardinality({Root}) = 1
    BY FS_Singleton
  <2> QED  BY <1>1, <1>2, <2>1
<1>5. ASSUME NEW k \in 1..N, k - 1 \in Grown
      PROVE  k \in Grown
  <2> DEFINE R == r[k - 1]
  <2>1. /\ R \in SUBSET All /\ Root \in R
        /\ Targets(R) \subseteq R \/ Cardinality(R) >= k
    BY <1>5
  <2>2. r[k] = R \cup Targets(R) /\ k \in 0..N
    BY <1>1, <1>2
  <2>3. r[k] \in SUBSET All /\ Root \in r[k]
    BY <1>3, <2>1, <2>2
  <2>4. CASE Targets(R) \subseteq R
    <3>1. r[k] = R
      BY <2>2, <2>4
    <3> QED  BY <2>2, <2>3, <2>4, <3>1
  <2>5. CASE ~(Targets(R) \subseteq R) /\ Cardinality(R) >= k
    <3>1. R # r[k] /\ R \in SUBSET r[k]
      BY <2>2, <2>5
    <3>2. IsFiniteSet(r[k])
      BY <1>2, <2>3, FS_Subset
    <3>3. /\ Cardinality(R) <= Cardinality(r[k]) /\ Cardinality(r[k]) # Cardinality(R)
          /\ Cardinality(R) \in Nat /\ Cardinality(r[k]) \in Nat
      BY <3>1, <3>2, FS_Subset, FS_CardinalityType
    <3>4. Cardinality(r[k]) >= k + 1
      <4> HIDE DEF R
      <4> QED  BY <2>5, <3>3
    <3> QED  BY <2>2, <2>3, <3>4
  <2> QED  BY <2>1, <2>4, <2>5
<1>6. N \in Grown
  <2>1. 0..N \subseteq Grown
    <3> HIDE DEF Grown
    <3> QED  BY <1>2, <1>4, <1>5, UpTo
  <2> QED  BY <1>2, <2>1
<1>7. /\ Reachable \in SUBSET All /\ Root \in Reachable
      /\ Targets(Reachable) \subseteq Reachable \/ Cardinality(Reachable) >= N + 1
  BY <1>1, <1>6
<1>8. Cardinality(Reachable) >= N + 1 => Reachable = All
  <2>1. /\ Cardinality(Reachable) <= N + 1 /\ Cardinality(Reachable) \in Nat
        /\ Cardinality(All) = Cardinality(Reachable) => All = Reachable
    BY <1>2, <1>7, FS_Subset, FS_CardinalityType
  <2> QED  BY <1>2, <2>1
<1> QED  BY <1>3, <1>7, <1>8

\* It holds nothing but what has to be in a closed set with the root.
LEMMA ReachLeast ==
  ASSUME schema \in Schemas, NEW S, Root \in S, Targets(S) \subseteq S
  PROVE  Reachable \subseteq S
<1> DEFINE N == Cardinality(DOMAIN schema)
<1>1. PICK r : /\ r[0] = {Root} /\ Reachable = r[N]
               /\ \A k \in 1..N : r[k] = r[k - 1] \cup Targets(r[k - 1])
  BY ReachDefined
<1>2. N \in Nat
  BY SchemasAssumption, FS_CardinalityType
<1> HIDE DEF N
<1> DEFINE P == {k \in 0..N : r[k] \subseteq S}
<1>3. 0 \in P
  BY <1>1, <1>2
<1>4. ASSUME NEW k \in 1..N, k - 1 \in P
      PROVE  k \in P
  <2>1. r[k - 1] \subseteq S /\ k \in 0..N
    BY <1>2, <1>4
  <2>2. Targets(r[k - 1]) \subseteq Targets(S)
    BY <2>1 DEF Targets
  <2> QED  BY <1>1, <2>1, <2>2
<1>5. 0..N \subseteq P
  <2> HIDE DEF P
  <2> QED  BY <1>2, <1>3, <1>4, UpTo
<1> QED  BY <1>1, <1>2, <1>5

-----------------------------------------------------------------------------
(* A node has finitely many edges.                                           *)

\* A function of finitely many things has finitely many values.
LEMMA ImageFinite ==
  ASSUME NEW S, IsFiniteSet(S), NEW f
  PROVE  IsFiniteSet({f[x] : x \in S})
<1> DEFINE T == {f[x] : x \in S}
           g == [x \in S |-> f[x]]
<1>1. g \in Surjection(S, T)
  BY DEF Surjection
<1> QED  BY <1>1, FS_Surjection

\* The edges of finitely many loops, places and ends.
Boxed(L, S, T) == {Edge(x[1], x[2], x[3]) : x \in L \X S \X T}

\* They are finitely many.
LEMMA BoxedFinite ==
  ASSUME NEW L, NEW S, NEW T, IsFiniteSet(L), IsFiniteSet(S), IsFiniteSet(T)
  PROVE  IsFiniteSet(Boxed(L, S, T))
<1> DEFINE P == (L \X S) \X T
           f == [x \in P |-> Edge(x[1][1], x[1][2], x[2])]
<1>1. IsFiniteSet(P)
  BY FS_Product
<1>2. IsFiniteSet({f[x] : x \in P})
  <2> HIDE DEF f, P
  <2> QED  BY <1>1, ImageFinite
<1>3. Boxed(L, S, T) \subseteq {f[x] : x \in P}
  <2>1. ASSUME NEW l \in L, NEW s \in S, NEW t \in T
        PROVE  Edge(l, s, t) \in {f[x] : x \in P}
    <3>1. <<<<l, s>>, t>> \in P /\ f[<<<<l, s>>, t>>] = Edge(l, s, t)
      OBVIOUS
    <3> HIDE DEF P, f
    <3> QED  BY <3>1
  <2> HIDE DEF P, f
  <2> QED  BY <2>1 DEF Boxed
<1> HIDE DEF P, f
<1> QED  BY <1>2, <1>3, FS_Subset

\* An edge with its parts in the three sets is among them.
InBox == \A L, S, T : \A l \in L, s \in S, t \in T : Edge(l, s, t) \in Boxed(L, S, T)

\* It is, whatever the sets.
LEMMA Box == InBox
<1> SUFFICES ASSUME NEW L, NEW S, NEW T, NEW l \in L, NEW s \in S, NEW t \in T
             PROVE  Edge(l, s, t) \in Boxed(L, S, T)
  BY DEF InBox
<1>1. <<l, s, t>> \in L \X S \X T
  OBVIOUS
<1>2. Edge(<<l, s, t>>[1], <<l, s, t>>[2], <<l, s, t>>[3]) \in Boxed(L, S, T)
  BY <1>1 DEF Boxed
<1> QED  BY <1>2

\* The places of a node's loops, and of the elements of an array.
Slots(n) == (0..10) \cup DOMAIN KidsOf(n, "allOf") \cup DOMAIN KidsOf(n, "anyOf")
              \cup DOMAIN KidsOf(n, "oneOf") \cup DOMAIN KidsOf(n, "prefixItems")
              \cup (1..Len(Token))

\* A node has finitely many places.
LEMMA SlotsFinite ==
  ASSUME schema \in Schemas, NEW n \in DOMAIN schema
  PROVE  IsFiniteSet(Slots(n))
<1>1. \A k : IsFiniteSet(DOMAIN KidsOf(n, k))
  <2>1. ASSUME NEW k PROVE IsFiniteSet(DOMAIN KidsOf(n, k))
    <3>1. CASE k \in DOMAIN schema[n].kids
      BY <3>1, SchemasAssumption DEF KidsOf
    <3>2. CASE k \notin DOMAIN schema[n].kids
      BY <3>2, FS_EmptySet DEF KidsOf, Empty
    <3> QED  BY <3>1, <3>2
  <2> QED  BY <2>1
<1>2. IsFiniteSet(0..10) /\ IsFiniteSet(1..Len(Token))
  <2>1. 0 \in Int /\ 1 \in Int /\ 10 \in Int
    OBVIOUS
  <2>2. Len(Token) \in Int
    BY DEF Token
  <2> QED  BY <2>1, <2>2, FS_Interval
<1>3. IsFiniteSet((0..10) \cup DOMAIN KidsOf(n, "allOf"))
  BY <1>1, <1>2, FS_Union
<1>4. IsFiniteSet((0..10) \cup DOMAIN KidsOf(n, "allOf") \cup DOMAIN KidsOf(n, "anyOf"))
  BY <1>1, <1>3, FS_Union
<1>5. IsFiniteSet((0..10) \cup DOMAIN KidsOf(n, "allOf") \cup DOMAIN KidsOf(n, "anyOf")
                    \cup DOMAIN KidsOf(n, "oneOf"))
  BY <1>1, <1>4, FS_Union
<1>6. IsFiniteSet((0..10) \cup DOMAIN KidsOf(n, "allOf") \cup DOMAIN KidsOf(n, "anyOf")
                    \cup DOMAIN KidsOf(n, "oneOf") \cup DOMAIN KidsOf(n, "prefixItems"))
  BY <1>1, <1>5, FS_Union
<1> QED  BY <1>2, <1>6, FS_Union DEF Slots

\* So it has finitely many edges, of every kind.
LEMMA EdgesFinite ==
  ASSUME schema \in Schemas, NEW n \in DOMAIN schema
  PROVE  /\ IsFiniteSet(ProofEdges(n)) /\ IsFiniteSet(StructureEdges(n))
         /\ IsFiniteSet(RefEdges(n)) /\ Cardinality(RefEdges(n)) \in Nat
<1> DEFINE B == Boxed(1..14, Slots(n), All)
<1>1. IsFiniteSet(B)
  <2>1. IsFiniteSet(All)
    BY SchemasAssumption, FS_AddElement DEF All
  <2>2. IsFiniteSet(1..14)
    <3>1. 1 \in Int /\ 14 \in Int
      OBVIOUS
    <3> QED  BY <3>1, FS_Interval
  <2> QED  BY <2>1, <2>2, SlotsFinite, BoxedFinite
<1>2. \A l \in 1..14, s \in Slots(n), t \in All : Edge(l, s, t) \in B
  BY Box DEF InBox
<1> HIDE DEF B
<1>3. 0 \in Slots(n) /\ (\A i \in 1..10 : i \in Slots(n))
      /\ \A k \in DOMAIN ListLoop : \A i \in DOMAIN KidsOf(n, k) : i \in Slots(n)
  BY DEF Slots, ListLoop
<1>4. \A k, i : i \in DOMAIN KidsOf(n, k) => KidsOf(n, k)[i] \in All
  BY KidsAreNodes DEF All
<1>5. \A k : ChildrenOf(n, k) \subseteq All
  BY KidsAreNodes DEF All
<1>6. ASSUME NEW ks, ks \subseteq DOMAIN MapLoop
      PROVE  MapEdges(n, ks) \subseteq B
  <2>1. \A k \in ks : MapLoop[k] \in 1..14
    BY <1>6 DEF MapLoop
  <2> QED  BY <1>2, <1>3, <1>5, <2>1 DEF MapEdges
<1>7. SingleEdges(n) \subseteq B
  <2>1. SingleLoop \in 1..14 /\ \A k \in DOMAIN SingleRank : SingleRank[k] \in 1..10
    BY DEF SingleLoop, SingleRank
  <2> QED  BY <1>2, <1>3, <1>5, <2>1 DEF SingleEdges
<1>8. ListEdges(n) \subseteq B
  <2>1. \A k \in DOMAIN ListLoop : ListLoop[k] \in 1..14
    BY DEF ListLoop
  <2> QED  BY <1>2, <1>3, <1>4, <2>1 DEF ListEdges
<1>9. RefEdges(n) \subseteq B
  <2>1. RefLoop \in 1..14
    BY DEF RefLoop
  <2> QED  BY <1>2, <1>3, <2>1, KidsAreNodes DEF All
<1>10. ProofEdges(n) \subseteq B /\ StructureEdges(n) \subseteq B
  <2>1. {"properties", "dependentSchemas"} \subseteq DOMAIN MapLoop
    BY DEF MapLoop
  <2> QED  BY <1>6, <1>7, <1>8, <1>9, <2>1 DEF ProofEdges, StructureEdges
<1> QED  BY <1>1, <1>9, <1>10, FS_Subset, FS_CardinalityType

\* The pointers of property names.
NamePointers == {p \o <<"@propertyName", a>> : p \in DOMAIN fixture, a \in Names}

\* A key is a node on a value, or on a property name.
LEMMA KeyShape ==
  /\ \A key \in InstanceKeys : key = <<key[1], key[2], key[3]>>
  /\ \A n, p, r : <<n, p, r>> \in InstanceKeys <=>
       /\ n \in DOMAIN schema
       /\ \/ p \in DOMAIN fixture /\ r = "value"
          \/ p \in NamePointers /\ r = "property-name"
<1> DEFINE D == DOMAIN schema
           F == DOMAIN fixture
<1>1. InstanceKeys = (D \X F \X {"value"}) \cup (D \X NamePointers \X {"property-name"})
  BY DEF InstanceKeys, NamePointers
<1> HIDE DEF D, F
<1>2. \A key \in InstanceKeys : key = <<key[1], key[2], key[3]>>
  BY <1>1
<1>3. ASSUME NEW n, NEW p, NEW r
      PROVE  <<n, p, r>> \in InstanceKeys <=>
               n \in D /\ ((p \in F /\ r = "value") \/ (p \in NamePointers /\ r = "property-name"))
  BY <1>1
<1> QED  BY <1>2, <1>3 DEF D, F

\* The estimate of a value stays with the nodes and the pointers there are.
LEMMA InstanceTargets ==
  ASSUME schema \in Schemas, fixture \in Fixtures, NEW key \in InstanceKeys
  PROVE  /\ IsFiniteSet(InstanceEdges(key[1], key[2], key[3]))
         /\ \A e \in InstanceEdges(key[1], key[2], key[3]) :
              e.to[1] # NoNode => e.to \in InstanceKeys
<1> DEFINE n == key[1]
           p == key[2]
           r == key[3]
           Named(a) == p \o <<"@propertyName", a>>
           value == ValueAt(p, r)
           Tokens == IF r = "value" THEN Within(value) ELSE {}
           Spots == {<<p, r>>} \cup ((DOMAIN fixture) \X {"value"})
                      \cup ({Named(a) : a \in value.names} \X {"property-name"})
           T == {<<x[1], x[2][1], x[2][2]>> : x \in All \X Spots}
           B == Boxed(1..14, Slots(n), T)
           Good(d) == d \in B /\ (d.to[1] # NoNode => d.to \in InstanceKeys)
<1>1. n \in DOMAIN schema /\ key = <<n, p, r>>
      /\ \/ p \in DOMAIN fixture /\ r = "value"
         \/ p \in NamePointers /\ r = "property-name"
  <2> HIDE DEF n, p, r
  <2>1. key = <<n, p, r>>
    BY KeyShape DEF n, p, r
  <2> QED  BY <2>1, KeyShape
<1>2. /\ r = "value" => /\ p \in DOMAIN fixture /\ value = fixture[p]
                        /\ value.names \subseteq Names /\ value.len \in 0..Len(Token)
                        /\ \A a \in Within(value) : Append(p, a) \in DOMAIN fixture
      /\ r # "value" => /\ value.kind \notin {"object", "array"} /\ value.names = {}
      /\ IsFiniteSet(value.names)
  <2>1. CASE r = "value"
    BY <1>1, <2>1, FixturesAssumption DEF ValueAt
  <2>2. CASE r # "value"
    BY <1>1, <2>2, FS_EmptySet DEF ValueAt
  <2> QED  BY <2>1, <2>2
<1>3. ASSUME NEW m \in DOMAIN schema, NEW x \in Spots
      PROVE  <<m, x[1], x[2]>> \in InstanceKeys
  <2>1. CASE x = <<p, r>>
    <3> HIDE DEF n, p, r
    <3> QED  BY <1>1, <2>1, KeyShape
  <2>2. CASE x \in (DOMAIN fixture) \X {"value"}
    <3>1. x[1] \in DOMAIN fixture /\ x[2] = "value"
      BY <2>2
    <3> QED  BY <3>1, KeyShape
  <2>3. CASE x \in {Named(a) : a \in value.names} \X {"property-name"}
    <3>1. x[1] \in {Named(a) : a \in value.names} /\ x[2] = "property-name"
      BY <2>3
    <3>2. PICK a \in value.names : x[1] = Named(a)
      BY <3>1
    <3>3. p \in DOMAIN fixture /\ a \in Names
      <4> HIDE DEF p, r, value, Named
      <4> QED  BY <1>2, <3>2
    <3>4. x[1] \in NamePointers
      <4>1. x[1] = p \o <<"@propertyName", a>>
        BY <3>2
      <4>2. \A q \in DOMAIN fixture, b \in Names : q \o <<"@propertyName", b>> \in NamePointers
        BY DEF NamePointers
      <4> HIDE DEF p, r, value
      <4> QED  BY <3>3, <4>1, <4>2
    <3> QED  BY <3>1, <3>4, KeyShape
  <2> HIDE DEF p, r, value, Named
  <2> QED  BY <2>1, <2>2, <2>3
<1>4. IsFiniteSet(B)
  <2>1. IsFiniteSet(Spots)
    <3>1. IsFiniteSet({<<p, r>>}) /\ IsFiniteSet({"value"}) /\ IsFiniteSet({"property-name"})
      BY FS_Singleton
    <3>2. IsFiniteSet((DOMAIN fixture) \X {"value"})
      BY <3>1, FixturesAssumption, FS_Product
    <3>3. IsFiniteSet({Named(a) : a \in value.names})
      <4> DEFINE f == [a \in value.names |-> Named(a)]
      <4>1. {Named(a) : a \in value.names} = {f[a] : a \in value.names}
        OBVIOUS
      <4> HIDE DEF f
      <4>2. IsFiniteSet({f[a] : a \in value.names})
        BY <1>2, ImageFinite
      <4> QED  BY <4>1, <4>2
    <3>4. IsFiniteSet({Named(a) : a \in value.names} \X {"property-name"})
      BY <3>1, <3>3, FS_Product
    <3>5. IsFiniteSet({<<p, r>>} \cup ((DOMAIN fixture) \X {"value"}))
      BY <3>1, <3>2, FS_Union
    <3> QED  BY <3>4, <3>5, FS_Union
  <2>2. IsFiniteSet(All)
    BY SchemasAssumption, FS_AddElement DEF All
  <2>3. IsFiniteSet(T)
    <3> DEFINE f == [x \in All \X Spots |-> <<x[1], x[2][1], x[2][2]>>]
    <3> HIDE DEF Spots
    <3>1. IsFiniteSet(All \X Spots)
      BY <2>1, <2>2, FS_Product
    <3>2. T = {f[x] : x \in All \X Spots}
      OBVIOUS
    <3> HIDE DEF f, T
    <3>3. IsFiniteSet({f[x] : x \in All \X Spots})
      BY <3>1, ImageFinite
    <3> QED  BY <3>2, <3>3
  <2>4. IsFiniteSet(1..14) /\ IsFiniteSet(Slots(n))
    <3>1. 1 \in Int /\ 14 \in Int
      OBVIOUS
    <3>2. IsFiniteSet(1..14)
      BY <3>1, FS_Interval
    <3> HIDE DEF n
    <3> QED  BY <1>1, <3>2, SlotsFinite
  <2> HIDE DEF T
  <2> QED  BY <2>3, <2>4, BoxedFinite
<1>5. ASSUME NEW l \in 1..14, NEW s \in Slots(n), NEW m \in All, NEW x \in Spots
      PROVE  Good(Edge(l, s, <<m, x[1], x[2]>>))
  <2>1. <<m, x[1], x[2]>> \in T
    <3>1. <<m, x>> \in All \X Spots
      OBVIOUS
    <3> HIDE DEF Spots
    <3> QED  BY <3>1
  <2>2. Edge(l, s, <<m, x[1], x[2]>>) \in B
    <3> HIDE DEF T
    <3> QED  BY <2>1, Box DEF InBox
  <2>3. m # NoNode => <<m, x[1], x[2]>> \in InstanceKeys
    <3> HIDE DEF Spots
    <3> QED  BY <1>3 DEF All
  <2> HIDE DEF B, Spots
  <2> QED  BY <2>2, <2>3 DEF Edge
<1>6. /\ <<p, r>> \in Spots
      /\ \A a \in Within(value) : r = "value" => <<Append(p, a), r>> \in Spots
      /\ \A a \in value.names : <<Named(a), "property-name">> \in Spots
  BY <1>2
<1> HIDE DEF B, T, Spots
<1>7. ASSUME NEW loop \in 1..14, NEW slot \in Slots(n), NEW k, NEW i, NEW x \in Spots,
             NEW d \in Once(n, loop, slot, k, i, x[1], x[2])
      PROVE  Good(d)
  <2>1. i \in DOMAIN KidsOf(n, k) /\ d = Edge(loop, slot, <<KidsOf(n, k)[i], x[1], x[2]>>)
    BY <1>7 DEF Once, InstanceKey
  <2>2. KidsOf(n, k)[i] \in All
    BY <1>1, <2>1, KidsAreNodes DEF All
  <2> HIDE DEF Good, n
  <2> QED  BY <1>5, <2>1, <2>2
<1>8. ASSUME NEW loop \in 1..14, NEW slot \in Slots(n), NEW k, NEW i, NEW q, NEW s,
             <<q, s>> \in Spots, NEW d \in Once(n, loop, slot, k, i, q, s)
      PROVE  Good(d)
  <2>1. <<q, s>>[1] = q /\ <<q, s>>[2] = s
    OBVIOUS
  <2> HIDE DEF Good, n
  <2> QED  BY <1>7, <1>8, <2>1
<1>9. /\ 0 \in Slots(n) /\ \A j \in 1..Len(Token) : j \in Slots(n)
      /\ \A j \in 1..10 : j \in Slots(n)
      /\ \A k \in {"allOf", "anyOf", "oneOf"} : \A i \in DOMAIN KidsOf(n, k) : i \in Slots(n)
  BY DEF Slots
<1> HIDE DEF Good
<1>10. ASSUME value.kind = "object", NEW d \in ObjectEdges(n, p, r, value.names)
       PROVE  Good(d)
  <2> DEFINE A == UNION {Once(n, 1, 0, "properties", a, Append(p, a), r)
                           \cup Once(n, 2, 0, "dependentSchemas", a, p, r) : a \in value.names}
             C == UNION {Once(n, 3, 0, "additionalProperties", 1, Append(p, a), r) :
                           a \in value.names \ DOMAIN KidsOf(n, "properties")}
             D == UNION {Once(n, 4, 0, "propertyNames", 1, Named(a), "property-name")
                           \cup Once(n, 5, 0, "unevaluatedProperties", 1, Append(p, a), r) :
                           a \in value.names}
  <2>1. d \in A \cup C \cup D
    BY <1>10 DEF ObjectEdges
  <2>2. r = "value" /\ \A a \in value.names : a \in Within(value)
    BY <1>2, <1>10 DEF Within
  <2>3. \A a \in value.names :
          <<Append(p, a), r>> \in Spots /\ <<Named(a), "property-name">> \in Spots
    BY <1>6, <2>2
  <2>4. 1 \in 1..14 /\ 2 \in 1..14 /\ 3 \in 1..14 /\ 4 \in 1..14 /\ 5 \in 1..14 /\ 0 \in Slots(n)
    BY <1>9
  <2> HIDE DEF value, Named, n, p, r
  <2>5. d \in A => Good(d)
    <3> SUFFICES ASSUME d \in A PROVE Good(d)
      OBVIOUS
    <3>1. PICK a \in value.names : d \in Once(n, 1, 0, "properties", a, Append(p, a), r)
                                   \/ d \in Once(n, 2, 0, "dependentSchemas", a, p, r)
      OBVIOUS
    <3> HIDE DEF A, C, D
    <3>2. CASE d \in Once(n, 1, 0, "properties", a, Append(p, a), r)
      BY <1>8, <2>3, <2>4, <3>2
    <3>3. CASE d \in Once(n, 2, 0, "dependentSchemas", a, p, r)
      BY <1>6, <1>8, <2>4, <3>3
    <3> QED  BY <3>1, <3>2, <3>3
  <2>6. d \in C => Good(d)
    <3> SUFFICES ASSUME d \in C PROVE Good(d)
      OBVIOUS
    <3>1. PICK a \in value.names : d \in Once(n, 3, 0, "additionalProperties", 1, Append(p, a), r)
      OBVIOUS
    <3> HIDE DEF A, C, D
    <3> QED  BY <1>8, <2>3, <2>4, <3>1
  <2>7. d \in D => Good(d)
    <3> SUFFICES ASSUME d \in D PROVE Good(d)
      OBVIOUS
    <3>1. PICK a \in value.names :
            \/ d \in Once(n, 4, 0, "propertyNames", 1, Named(a), "property-name")
            \/ d \in Once(n, 5, 0, "unevaluatedProperties", 1, Append(p, a), r)
      OBVIOUS
    <3> HIDE DEF A, C, D
    <3>2. CASE d \in Once(n, 4, 0, "propertyNames", 1, Named(a), "property-name")
      BY <1>8, <2>3, <2>4, <3>2
    <3>3. CASE d \in Once(n, 5, 0, "unevaluatedProperties", 1, Append(p, a), r)
      BY <1>8, <2>3, <2>4, <3>3
    <3> QED  BY <3>1, <3>2, <3>3
  <2> HIDE DEF A, C, D
  <2> QED  BY <2>1, <2>5, <2>6, <2>7
<1>11. ASSUME value.kind = "array", NEW d \in ArrayEdges(n, p, r, 1..value.len)
       PROVE  Good(d)
  <2> DEFINE indices == 1..value.len
             prefix == DOMAIN KidsOf(n, "prefixItems")
             A == UNION {Once(n, 6, j, "prefixItems", j, Append(p, Token[j]), r) :
                           j \in indices \cap prefix}
             C == UNION {Once(n, 7, j, "items", 1, Append(p, Token[j]), r) :
                           j \in indices \ prefix}
             D == UNION {Once(n, 8, j, "contains", 1, Append(p, Token[j]), r)
                           \cup Once(n, 9, j, "unevaluatedItems", 1, Append(p, Token[j]), r) :
                           j \in indices}
  <2>1. d \in A \cup C \cup D
    BY <1>11 DEF ArrayEdges
  <2>2. r = "value" /\ \A j \in indices : Token[j] \in Within(value) /\ j \in Slots(n)
    BY <1>2, <1>9, <1>11 DEF Within
  <2>3. \A j \in indices : <<Append(p, Token[j]), r>> \in Spots /\ j \in Slots(n)
    BY <1>6, <2>2
  <2>4. 6 \in 1..14 /\ 7 \in 1..14 /\ 8 \in 1..14 /\ 9 \in 1..14
    OBVIOUS
  <2> HIDE DEF value, indices, n, p, r, prefix
  <2>5. d \in A => Good(d)
    <3> SUFFICES ASSUME d \in A PROVE Good(d)
      OBVIOUS
    <3>1. PICK j \in indices : d \in Once(n, 6, j, "prefixItems", j, Append(p, Token[j]), r)
      OBVIOUS
    <3> HIDE DEF A, C, D
    <3> QED  BY <1>8, <2>3, <2>4, <3>1
  <2>6. d \in C => Good(d)
    <3> SUFFICES ASSUME d \in C PROVE Good(d)
      OBVIOUS
    <3>1. PICK j \in indices : d \in Once(n, 7, j, "items", 1, Append(p, Token[j]), r)
      OBVIOUS
    <3> HIDE DEF A, C, D
    <3> QED  BY <1>8, <2>3, <2>4, <3>1
  <2>7. d \in D => Good(d)
    <3> SUFFICES ASSUME d \in D PROVE Good(d)
      OBVIOUS
    <3>1. PICK j \in indices :
            \/ d \in Once(n, 8, j, "contains", 1, Append(p, Token[j]), r)
            \/ d \in Once(n, 9, j, "unevaluatedItems", 1, Append(p, Token[j]), r)
      OBVIOUS
    <3> HIDE DEF A, C, D
    <3>2. CASE d \in Once(n, 8, j, "contains", 1, Append(p, Token[j]), r)
      BY <1>8, <2>3, <2>4, <3>2
    <3>3. CASE d \in Once(n, 9, j, "unevaluatedItems", 1, Append(p, Token[j]), r)
      BY <1>8, <2>3, <2>4, <3>3
    <3> QED  BY <3>1, <3>2, <3>3
  <2> HIDE DEF A, C, D
  <2> QED  BY <2>1, <2>5, <2>6, <2>7
<1>12. \A e \in RefEdges(n) : Good(Edge(14, 0, InstanceKey(e.to, p, r)))
  <2>1. \A e \in RefEdges(n) : e.to \in All
    BY <1>1, KidsAreNodes DEF All, Edge
  <2>2. <<p, r>>[1] = p /\ <<p, r>>[2] = r
    OBVIOUS
  <2> HIDE DEF n, p, r
  <2> QED  BY <1>5, <1>6, <1>9, <2>1, <2>2 DEF InstanceKey
<1>13. ASSUME NEW e \in InstanceEdges(n, p, r)
       PROVE  Good(e)
  <2> DEFINE A == {Edge(14, 0, InstanceKey(f.to, p, r)) : f \in RefEdges(n)}
             C == UNION {Once(n, 10, SingleRank[k], k, 1, p, r) :
                           k \in {"not", "if", "then", "else"}}
             D == UNION {UNION {Once(n, 6 + ListLoop[k], i, k, i, p, r) :
                                  i \in DOMAIN KidsOf(n, k)} : k \in {"allOf", "anyOf", "oneOf"}}
  <2>1. \/ e \in A \/ e \in C \/ e \in D
        \/ value.kind = "object" /\ e \in ObjectEdges(n, p, r, value.names)
        \/ value.kind = "array" /\ e \in ArrayEdges(n, p, r, 1..value.len)
    BY DEF InstanceEdges
  <2>2. e \in A => Good(e)
    BY <1>12
  <2>3. e \in C => Good(e)
    <3>1. \A k \in {"not", "if", "then", "else"} : SingleRank[k] \in Slots(n)
      BY <1>9 DEF SingleRank
    <3> QED  BY <1>6, <1>8, <3>1
  <2>4. e \in D => Good(e)
    <3>1. \A k \in {"allOf", "anyOf", "oneOf"} : 6 + ListLoop[k] \in 1..14
      BY DEF ListLoop
    <3> QED  BY <1>6, <1>8, <1>9, <3>1
  <2> HIDE DEF A, C, D
  <2> QED  BY <1>10, <1>11, <2>1, <2>2, <2>3, <2>4
<1>14. InstanceEdges(n, p, r) \subseteq B
  BY <1>13 DEF Good
<1>15. IsFiniteSet(InstanceEdges(n, p, r))
  BY <1>4, <1>14, FS_Subset
<1> QED  BY <1>13, <1>15 DEF Good

-----------------------------------------------------------------------------
(* The recursions of the definitions have solutions.                         *)

\* The levels the definitions expand.
Levels == MaxDepth + 1

\* The longest path from a node, when "known" are those from its children.
Longer(known, n) ==
  Max({Height(n)} \cup {known[e.to] + 1 : e \in Resolved(ProofEdges(n))})

\* It is a literal's height, or one edge more than a child's.
LEMMA LongerIs ==
  ASSUME schema \in Schemas, NEW n \in DOMAIN schema, NEW known \in [DOMAIN schema -> Nat]
  PROVE  /\ Longer(known, n) \in Nat /\ Longer(known, n) >= Height(n)
         /\ \A e \in ProofEdges(n) : e.to # NoNode => Longer(known, n) >= known[e.to] + 1
         /\ \/ Longer(known, n) = Height(n)
            \/ \E e \in ProofEdges(n) : e.to # NoNode /\ Longer(known, n) = known[e.to] + 1
<1> DEFINE E == Resolved(ProofEdges(n))
           T == {known[e.to] + 1 : e \in E}
           S == {Height(n)} \cup T
<1>1. Height(n) \in Nat
  BY SchemasAssumption DEF Height
<1>2. \A e \in E : e.to \in DOMAIN schema /\ known[e.to] + 1 \in Nat
  BY EdgeTargets DEF Resolved
<1>3. IsFiniteSet(T)
  <2>1. IsFiniteSet(E)
    BY EdgesFinite, FS_Subset DEF Resolved
  <2> DEFINE f == [e \in E |-> known[e.to] + 1]
  <2>2. T = {f[e] : e \in E}
    OBVIOUS
  <2> HIDE DEF f, E
  <2> QED  BY <2>1, <2>2, ImageFinite
<1>4. IsFiniteSet(S) /\ S # {}
  BY <1>3, FS_AddElement
<1>5. \A x \in S : x \in Nat
  BY <1>1, <1>2
<1>6. Max(S) \in S /\ \A y \in S : Max(S) >= y
  <2>1. \A x \in S : x \in Int
    BY <1>5
  <2> HIDE DEF S
  <2> QED  BY <1>4, <2>1, MaxOf
<1>7. Longer(known, n) = Max(S)
  BY DEF Longer
<1>8. \A e \in ProofEdges(n) : e.to # NoNode => known[e.to] + 1 \in S
  BY DEF Resolved
<1>9. Max(S) = Height(n) \/ \E e \in ProofEdges(n) : e.to # NoNode /\ Max(S) = known[e.to] + 1
  BY <1>6 DEF Resolved
<1>10. Height(n) \in S
  OBVIOUS
<1> HIDE DEF S
<1> QED  BY <1>5, <1>6, <1>7, <1>8, <1>9, <1>10

\* The recursion of the longest path has a solution, level by level.
LEMMA LongestDefined ==
  ASSUME schema \in Schemas
  PROVE  /\ \A k \in 0..Levels : longest[k] \in [DOMAIN schema -> Nat]
         /\ \A n \in DOMAIN schema : longest[0][n] = 0
         /\ \A k \in 1..Levels, n \in DOMAIN schema : longest[k][n] = Longer(longest[k - 1], n)
<1> DEFINE D == DOMAIN schema
           X == [D -> Nat]
           base == [n \in D |-> 0]
           step == [w \in X |-> [n \in D |-> Longer(w, n)]]
           Body(f) ==
             [k \in 0..(MaxDepth + 1) |->
               [n \in DOMAIN schema |->
                 IF k = 0 THEN 0
                 ELSE Max({Height(n)} \cup {f[k - 1][e.to] + 1 : e \in Resolved(ProofEdges(n))})]]
<1>1. Levels \in Nat /\ Levels = MaxDepth + 1
  BY LimitsAssumption DEF Levels
<1>2. base \in X /\ step \in [X -> X]
  BY LongerIs
<1>3. PICK f \in [0..Levels -> X] : f[0] = base /\ \A k \in 1..Levels : f[k] = step[f[k - 1]]
  <2> HIDE DEF X, base, step, Body, D
  <2>1. Levels \in Nat
    BY <1>1
  <2>2. PICK f : Iterates(f, Levels, X, base, step)
    BY ONLY <1>2, <2>1, Iterated
  <2> QED  BY ONLY <2>2 DEF Iterates
<1>4. f = Body(f)
  <2>1. ASSUME NEW k \in 0..(MaxDepth + 1)
        PROVE  f[k] = [n \in DOMAIN schema |->
                        IF k = 0 THEN 0
                        ELSE Max({Height(n)} \cup
                                 {f[k - 1][e.to] + 1 : e \in Resolved(ProofEdges(n))})]
    <3>1. CASE k = 0
      BY <1>3, <3>1
    <3>2. CASE k # 0
      <4>1. k \in 1..Levels /\ k - 1 \in 0..Levels
        BY <1>1, <3>2
      <4>2. f[k - 1] \in X /\ f[k] = step[f[k - 1]]
        BY <1>3, <4>1
      <4>3. f[k] = [n \in D |-> Longer(f[k - 1], n)]
        BY <4>2
      <4> QED  BY <3>2, <4>3 DEF Longer
    <3> QED  BY <3>1, <3>2
  <2>2. f = [k \in 0..(MaxDepth + 1) |-> f[k]]
    BY <1>1
  <2> HIDE DEF X, base, step
  <2> QED  BY <2>1, <2>2
<1>5. longest = Body(longest)
  <2>1. \E g : g = Body(g)
    <3> HIDE DEF Body
    <3> QED  BY <1>4
  <2>2. longest = CHOOSE g : g = Body(g)
    BY DEF longest
  <2> HIDE DEF Body
  <2> QED  BY <2>1, <2>2
<1>12. ASSUME NEW k \in 0..Levels
      PROVE  /\ \A n \in D : longest[k][n] = IF k = 0 THEN 0 ELSE Longer(longest[k - 1], n)
             /\ longest[k] = [n \in D |-> longest[k][n]]
  <2> DEFINE G(n) == IF k = 0 THEN 0 ELSE Longer(longest[k - 1], n)
  <2>1. longest[k] = [n \in D |-> G(n)]
    <3>1. k \in 0..(MaxDepth + 1)
      BY <1>1
    <3> QED  BY <1>5, <3>1 DEF Longer
  <2> HIDE DEF G, D
  <2>2. \A n \in D : longest[k][n] = G(n)
    BY <2>1
  <2>3. longest[k] = [n \in D |-> longest[k][n]]
    BY <2>1
  <2> QED  BY <2>2, <2>3 DEF G
<1>6. \A k \in 0..Levels, n \in D : longest[k][n] = IF k = 0 THEN 0 ELSE Longer(longest[k - 1], n)
  BY <1>12
<1>7. \A k \in 0..Levels : longest[k] = [n \in D |-> longest[k][n]]
  BY <1>12
<1> DEFINE Typed == {k \in 0..Levels : longest[k] \in X}
<1>8. 0 \in Typed
  <2>1. 0 \in 0..Levels
    BY <1>1
  <2>3. \A n \in D : longest[0][n] = 0
    BY <1>6, <2>1
  <2>2. longest[0] = [n \in D |-> longest[0][n]]
    BY <1>7, <2>1
  <2> QED  BY <2>1, <2>2, <2>3
<1>9. ASSUME NEW k \in 1..Levels, k - 1 \in Typed
      PROVE  k \in Typed
  <2>1. k \in 0..Levels /\ k # 0 /\ longest[k - 1] \in X
    BY <1>1, <1>9
  <2>2. \A n \in D : longest[k][n] \in Nat
    <3>1. \A n \in D : longest[k][n] = Longer(longest[k - 1], n)
      BY <1>6, <2>1
    <3>2. \A n \in D : Longer(longest[k - 1], n) \in Nat
      BY <2>1, LongerIs
    <3> QED  BY <3>1, <3>2
  <2> QED  BY <1>7, <2>1, <2>2
<1>10. 0..Levels \subseteq Typed
  <2> HIDE DEF Typed
  <2> QED  BY <1>1, <1>8, <1>9, UpTo
<1>11. 0 \in 0..Levels /\ \A k \in 1..Levels : k \in 0..Levels /\ k # 0
  BY <1>1
<1> HIDE DEF X
<1> QED  BY <1>6, <1>10, <1>11 DEF X

\* The evaluations along some edges, when "known" are those of their ends.
Heavier(known, edges) == 1 + SumFunction([e \in edges |-> known[e.to]])

\* They are a number, at least one.
LEMMA HeavierIs ==
  ASSUME NEW edges, IsFiniteSet(edges), NEW known, \A e \in edges : known[e.to] \in Nat
  PROVE  Heavier(known, edges) \in Nat /\ Heavier(known, edges) >= 1
<1> DEFINE f == [e \in edges |-> known[e.to]]
<1>1. DOMAIN f = edges /\ \A e \in edges : f[e] \in Nat
  OBVIOUS
<1>2. Heavier(known, edges) = 1 + SumFunctionOnSet(f, edges)
  BY <1>1 DEF Heavier, SumFunction
<1> HIDE DEF f
<1>3. SumFunctionOnSet(f, edges) \in Nat
  BY <1>1, SumNat
<1> QED  BY <1>2, <1>3

\* The edges of the instance estimate that lead somewhere.
Leading(edges) == {e \in edges : e.to[1] # NoNode}

\* The recursion of the evaluations of a schema has a solution.
LEMMA EvaluationsDefined ==
  ASSUME schema \in Schemas
  PROVE  /\ \A k \in 0..Levels : evaluations[k] \in [DOMAIN schema -> Nat]
         /\ \A n \in DOMAIN schema : evaluations[0][n] = 1
         /\ \A k \in 1..Levels, n \in DOMAIN schema :
              evaluations[k][n] = Heavier(evaluations[k - 1], Resolved(StructureEdges(n)))
<1> DEFINE D == DOMAIN schema
           X == [D -> Nat]
           base == [n \in D |-> 1]
           step == [w \in X |-> [n \in D |-> Heavier(w, Resolved(StructureEdges(n)))]]
           Body(f) ==
             [k \in 0..(MaxDepth + 1) |->
               [n \in DOMAIN schema |->
                 IF k = 0 THEN 1
                 ELSE 1 + SumFunction([e \in Resolved(StructureEdges(n)) |-> f[k - 1][e.to]])]]
<1>1. Levels \in Nat /\ Levels = MaxDepth + 1
  BY LimitsAssumption DEF Levels
<1>2. ASSUME NEW w \in X, NEW n \in D
      PROVE  Heavier(w, Resolved(StructureEdges(n))) \in Nat
  <2>1. IsFiniteSet(Resolved(StructureEdges(n)))
    BY EdgesFinite, FS_Subset DEF Resolved
  <2>2. \A e \in Resolved(StructureEdges(n)) : w[e.to] \in Nat
    BY EdgeTargets DEF Resolved
  <2> QED  BY <2>1, <2>2, HeavierIs
<1>3. base \in X /\ step \in [X -> X]
  BY <1>2
<1>4. PICK f \in [0..Levels -> X] : f[0] = base /\ \A k \in 1..Levels : f[k] = step[f[k - 1]]
  <2> HIDE DEF X, base, step, Body, D
  <2>1. Levels \in Nat
    BY <1>1
  <2>2. base \in X
    BY <1>3
  <2>3. step \in [X -> X]
    BY <1>3
  <2>4. PICK f : Iterates(f, Levels, X, base, step)
    BY ONLY <2>1, <2>2, <2>3, Iterated
  <2> QED  BY ONLY <2>4 DEF Iterates
<1>5. f = Body(f)
  <2>1. ASSUME NEW k \in 0..(MaxDepth + 1)
        PROVE  f[k] = [n \in DOMAIN schema |->
              IF k = 0 THEN 1
              ELSE Heavier(f[k - 1], Resolved(StructureEdges(n)))]
    <3>1. CASE k = 0
      BY <1>4, <3>1
    <3>2. CASE k # 0
      <4>1. k \in 1..Levels /\ k - 1 \in 0..Levels
        BY <1>1, <3>2
      <4>2. f[k - 1] \in X /\ f[k] = step[f[k - 1]]
        BY <1>4, <4>1
      <4>3. f[k] = [n \in D |-> Heavier(f[k - 1], Resolved(StructureEdges(n)))]
        BY <4>2
      <4> QED  BY <3>2, <4>3
    <3> QED  BY <3>1, <3>2
  <2>2. f = [k \in 0..(MaxDepth + 1) |-> f[k]]
    BY <1>1
  <2> HIDE DEF X, base, step
  <2> QED  BY <2>1, <2>2 DEF Heavier
<1>6. evaluations = Body(evaluations)
  <2>1. \E g : g = Body(g)
    <3> HIDE DEF Body
    <3> QED  BY <1>5
  <2>2. evaluations = CHOOSE g : g = Body(g)
    BY DEF evaluations
  <2> HIDE DEF Body
  <2> QED  BY <2>1, <2>2
<1>7. ASSUME NEW k \in 0..Levels
      PROVE  /\ \A n \in D :
                  evaluations[k][n] =
                      IF k = 0 THEN 1
                      ELSE Heavier(evaluations[k - 1], Resolved(StructureEdges(n)))
             /\ evaluations[k] = [n \in D |-> evaluations[k][n]]
  <2> DEFINE G(n) == IF k = 0 THEN 1 ELSE Heavier(evaluations[k - 1], Resolved(StructureEdges(n)))
  <2>1. evaluations[k] = [n \in D |-> G(n)]
    <3>1. k \in 0..(MaxDepth + 1)
      BY <1>1
    <3> QED  BY <1>6, <3>1 DEF Heavier
  <2> HIDE DEF G, D
  <2>2. \A n \in D : evaluations[k][n] = G(n)
    BY <2>1
  <2>3. evaluations[k] = [n \in D |-> evaluations[k][n]]
    BY <2>1
  <2> QED  BY <2>2, <2>3 DEF G
<1>8. \A k \in 0..Levels, n \in D :
        evaluations[k][n] =
            IF k = 0 THEN 1
            ELSE Heavier(evaluations[k - 1], Resolved(StructureEdges(n)))
  BY <1>7
<1>9. \A k \in 0..Levels : evaluations[k] = [n \in D |-> evaluations[k][n]]
  BY <1>7
<1> DEFINE Typed == {k \in 0..Levels : evaluations[k] \in X}
<1>10. 0 \in Typed
  <2>1. 0 \in 0..Levels
    BY <1>1
  <2>2. \A n \in D : evaluations[0][n] = 1
    BY <1>8, <2>1
  <2>3. evaluations[0] = [n \in D |-> evaluations[0][n]]
    BY <1>9, <2>1
  <2> QED  BY <2>1, <2>2, <2>3
<1>11. ASSUME NEW k \in 1..Levels, k - 1 \in Typed
       PROVE  k \in Typed
  <2>1. k \in 0..Levels /\ k # 0 /\ evaluations[k - 1] \in X
    BY <1>1, <1>11
  <2>2. \A n \in D : evaluations[k][n] \in Nat
    <3>1. \A n \in D : evaluations[k][n] = Heavier(evaluations[k - 1], Resolved(StructureEdges(n)))
      BY <1>8, <2>1
    <3> HIDE DEF X, D
    <3> QED  BY <1>2, <2>1, <3>1
  <2> QED  BY <1>9, <2>1, <2>2
<1>12. 0..Levels \subseteq Typed
  <2> HIDE DEF Typed
  <2> QED  BY <1>1, <1>10, <1>11, UpTo
<1>13. 0 \in 0..Levels /\ \A k \in 1..Levels : k \in 0..Levels /\ k # 0
  BY <1>1
<1> HIDE DEF X
<1> QED  BY <1>8, <1>12, <1>13 DEF X

\* So has that of the evaluations on a fixture.
LEMMA FixtureEvaluationsDefined ==
  ASSUME schema \in Schemas, fixture \in Fixtures
  PROVE  /\ \A k \in 0..Levels : fixtureEvaluations[k] \in [InstanceKeys -> Nat]
         /\ \A key \in InstanceKeys : fixtureEvaluations[0][key] = 1
         /\ \A k \in 1..Levels, key \in InstanceKeys :
              fixtureEvaluations[k][key] =
                    Heavier(fixtureEvaluations[k - 1], Leading(InstanceEdges(key[1], key[2], key[3])))
<1> DEFINE D == InstanceKeys
           X == [D -> Nat]
           base == [key \in D |-> 1]
           step == [w \in X |->
                     [key \in D |-> Heavier(w, Leading(InstanceEdges(key[1], key[2], key[3])))]]
           Body(f) ==
             [k \in 0..(MaxDepth + 1) |->
               [key \in InstanceKeys |->
                 IF k = 0 THEN 1
                 ELSE LET below == {e \in InstanceEdges(key[1], key[2], key[3]) : e.to[1] # NoNode}
                      IN 1 + SumFunction([e \in below |-> f[k - 1][e.to]])]]
<1>1. Levels \in Nat /\ Levels = MaxDepth + 1
  BY LimitsAssumption DEF Levels
<1>2. ASSUME NEW w \in X, NEW key \in D
      PROVE  Heavier(w, Leading(InstanceEdges(key[1], key[2], key[3]))) \in Nat
  <2> DEFINE E == Leading(InstanceEdges(key[1], key[2], key[3]))
  <2>1. IsFiniteSet(E)
    BY InstanceTargets, FS_Subset DEF Leading
  <2>2. \A e \in E : w[e.to] \in Nat
    BY InstanceTargets DEF Leading
  <2> HIDE DEF E
  <2>3. Heavier(w, E) \in Nat
    BY <2>1, <2>2, HeavierIs
  <2> QED  BY <2>3 DEF E
<1>3. base \in X /\ step \in [X -> X]
  BY <1>2
<1>4. PICK f \in [0..Levels -> X] : f[0] = base /\ \A k \in 1..Levels : f[k] = step[f[k - 1]]
  <2> HIDE DEF X, base, step, Body, D
  <2>1. Levels \in Nat
    BY <1>1
  <2>2. base \in X
    BY <1>3
  <2>3. step \in [X -> X]
    BY <1>3
  <2>4. PICK f : Iterates(f, Levels, X, base, step)
    BY ONLY <2>1, <2>2, <2>3, Iterated
  <2> QED  BY ONLY <2>4 DEF Iterates
<1>5. f = Body(f)
  <2>1. ASSUME NEW k \in 0..(MaxDepth + 1)
        PROVE  f[k] = [key \in InstanceKeys |->
              IF k = 0 THEN 1
              ELSE Heavier(f[k - 1], Leading(InstanceEdges(key[1], key[2], key[3])))]
    <3>1. CASE k = 0
      BY <1>4, <3>1
    <3>2. CASE k # 0
      <4>1. k \in 1..Levels /\ k - 1 \in 0..Levels
        BY <1>1, <3>2
      <4>2. f[k - 1] \in X /\ f[k] = step[f[k - 1]]
        BY <1>4, <4>1
      <4>3. f[k] = [key \in D |-> Heavier(f[k - 1], Leading(InstanceEdges(key[1], key[2], key[3])))]
        BY <4>2
      <4> QED  BY <3>2, <4>3
    <3> QED  BY <3>1, <3>2
  <2>2. f = [k \in 0..(MaxDepth + 1) |-> f[k]]
    BY <1>1
  <2> HIDE DEF X, base, step
  <2> QED  BY <2>1, <2>2 DEF Heavier, Leading
<1>6. fixtureEvaluations = Body(fixtureEvaluations)
  <2>1. \E g : g = Body(g)
    <3> HIDE DEF Body
    <3> QED  BY <1>5
  <2>2. fixtureEvaluations = CHOOSE g : g = Body(g)
    BY DEF fixtureEvaluations
  <2> HIDE DEF Body
  <2> QED  BY <2>1, <2>2
<1>7. ASSUME NEW k \in 0..Levels
      PROVE  /\ \A key \in D :
                  fixtureEvaluations[k][key] =
                      IF k = 0 THEN 1
                      ELSE Heavier(fixtureEvaluations[k - 1],
                                   Leading(InstanceEdges(key[1], key[2], key[3])))
             /\ fixtureEvaluations[k] = [key \in D |-> fixtureEvaluations[k][key]]
  <2> DEFINE G(key) ==
        IF k = 0 THEN 1
        ELSE Heavier(fixtureEvaluations[k - 1], Leading(InstanceEdges(key[1], key[2], key[3])))
  <2>1. fixtureEvaluations[k] = [key \in D |-> G(key)]
    <3>1. k \in 0..(MaxDepth + 1)
      BY <1>1
    <3> QED  BY <1>6, <3>1 DEF Heavier, Leading
  <2> HIDE DEF G, D
  <2>2. \A key \in D : fixtureEvaluations[k][key] = G(key)
    BY <2>1
  <2>3. fixtureEvaluations[k] = [key \in D |-> fixtureEvaluations[k][key]]
    BY <2>1
  <2> QED  BY <2>2, <2>3 DEF G
<1>8. \A k \in 0..Levels, key \in D :
        fixtureEvaluations[k][key] =
            IF k = 0 THEN 1
            ELSE Heavier(fixtureEvaluations[k - 1], Leading(InstanceEdges(key[1], key[2], key[3])))
  BY <1>7
<1>9. \A k \in 0..Levels : fixtureEvaluations[k] = [key \in D |-> fixtureEvaluations[k][key]]
  BY <1>7
<1> DEFINE Typed == {k \in 0..Levels : fixtureEvaluations[k] \in X}
<1>10. 0 \in Typed
  <2>1. 0 \in 0..Levels
    BY <1>1
  <2>2. \A key \in D : fixtureEvaluations[0][key] = 1
    BY <1>8, <2>1
  <2>3. fixtureEvaluations[0] = [key \in D |-> fixtureEvaluations[0][key]]
    BY <1>9, <2>1
  <2> QED  BY <2>1, <2>2, <2>3
<1>11. ASSUME NEW k \in 1..Levels, k - 1 \in Typed
       PROVE  k \in Typed
  <2>1. k \in 0..Levels /\ k # 0 /\ fixtureEvaluations[k - 1] \in X
    BY <1>1, <1>11
  <2>2. \A key \in D : fixtureEvaluations[k][key] \in Nat
    <3>1. \A key \in D : fixtureEvaluations[k][key] =
          Heavier(fixtureEvaluations[k - 1], Leading(InstanceEdges(key[1], key[2], key[3])))
      BY <1>8, <2>1
    <3> HIDE DEF X, D
    <3> QED  BY <1>2, <2>1, <3>1
  <2> QED  BY <1>9, <2>1, <2>2
<1>12. 0..Levels \subseteq Typed
  <2> HIDE DEF Typed
  <2> QED  BY <1>1, <1>10, <1>11, UpTo
<1>13. 0 \in 0..Levels /\ \A k \in 1..Levels : k \in 0..Levels /\ k # 0
  BY <1>1
<1> HIDE DEF X
<1> QED  BY <1>8, <1>12, <1>13 DEF X

-----------------------------------------------------------------------------
(* What the steps of a pass make of the frames.                              *)

\* The work of a frame that takes in a child's.
TakenIn(work, more) == IF pass = "proof" THEN work ELSE SaturatingAdd(work, more)
Deeper(a, b) == IF b > a THEN b ELSE a

\* A frame takes in the result of a child.
LEMMA AbsorbedFrame ==
  ASSUME NEW f, IsFrame(f), NEW left, NEW e, NEW r
  PROVE  LET g == Absorb(f, left, e, r)
         IN /\ g.key = f.key /\ g.via = e /\ g.work = TakenIn(f.work, r.work)
            /\ g.left = LeftAfter(left, e, g.work) /\ g.deep = Deeper(f.deep, r.deep + 1)
<1> DEFINE work == IF pass = "proof" THEN f.work ELSE SaturatingAdd(f.work, r.work)
           kept == LeftAfter(left, e, work)
           deep == IF r.deep + 1 > f.deep THEN r.deep + 1 ELSE f.deep
           g == [f EXCEPT !.left = kept, !.work = work, !.via = e, !.deep = deep]
<1>1. Absorb(f, left, e, r) = [f EXCEPT !.left = LeftAfter(left, e, work), !.work = work, !.via = e,
                                        !.deep = IF r.deep + 1 > @ THEN r.deep + 1 ELSE @]
  BY DEF Absorb
<1>2. Absorb(f, left, e, r) = g
  BY <1>1
<1>3. f = [key |-> f.key, left |-> f.left, deep |-> f.deep, work |-> f.work, via |-> f.via]
  BY DEF IsFrame
<1>4. g.key = f.key /\ g.via = e /\ g.work = work /\ g.left = kept /\ g.deep = deep
  <2> HIDE DEF work, kept, deep
  <2> QED  BY <1>3
<1> QED  BY <1>2, <1>4 DEF TakenIn, Deeper

\* A child met first: the frame on top waits for it and a new one is on top.
LEMMA DescendFrames ==
  ASSUME WalkInv, stack # <<>>, NEW e \in Top.left, Descend(e)
  PROVE  LET m == Len(stack)
         IN /\ m \in Nat /\ m >= 1 /\ Len(stack') = m + 1
            /\ \A i \in 1..(m - 1) : stack'[i] = stack[i]
            /\ stack'[m].key = stack[m].key /\ stack'[m].left = stack[m].left \ {e}
            /\ stack'[m].deep = stack[m].deep /\ stack'[m].work = stack[m].work
            /\ stack'[m].via = e
            /\ stack'[m + 1].key = e.to /\ stack'[m + 1].left = EdgesOf(e.to)
            /\ stack'[m + 1].deep = 0 /\ stack'[m + 1].work = 1
            /\ e.to \notin DOMAIN memo[pass] /\ Store(e.to, Visiting)
            /\ UNCHANGED <<schema, fixture, pass, verdict>>
            /\ ops' = ops + RefOps(e) + NodeOps
<1> DEFINE f == [Top EXCEPT !.left = @ \ {e}, !.via = e]
           below == Append(Below, f)
           new == Frame(e.to)
<1>1. IsFrame(Top) /\ Top = stack[Len(stack)] /\ Len(stack) \in Nat /\ Len(stack) >= 1
  BY TopFrame
<1>2. /\ f.key = Top.key /\ f.left = Top.left \ {e} /\ f.deep = Top.deep
      /\ f.work = Top.work /\ f.via = e
  <2>1. Top = [key |-> Top.key, left |-> Top.left, deep |-> Top.deep, work |-> Top.work,
               via |-> Top.via]
    BY <1>1 DEF IsFrame
  <2>2. f.work = Top.work
    BY <2>1
  <2>3. f.key = Top.key /\ f.via = e /\ f.left = Top.left \ {e} /\ f.deep = Top.deep
    <3>1. IsFrame(Top)
      BY <1>1
    <3> QED  BY <3>1, Left
  <2> HIDE DEF f
  <2> QED  BY <2>2, <2>3
<1>3. new.key = e.to /\ new.left = EdgesOf(e.to) /\ new.deep = 0 /\ new.work = 1
  BY DEF Frame
<1>4. /\ stack' = Append(below, new) /\ Store(e.to, Visiting)
      /\ UNCHANGED <<schema, fixture, pass, verdict>>
      /\ ops' = ops + RefOps(e) + NodeOps /\ e.to \notin DOMAIN memo[pass]
  BY DEF Descend, Call, Known, Memo, MemoKey
<1> HIDE DEF f, new
<1>5. /\ IsStack(below) /\ Len(below) = Len(stack) /\ below[Len(stack)] = f
      /\ \A i \in 1..(Len(stack) - 1) : below[i] = stack[i]
  BY Replaced DEF Below, WalkInv, Shape
<1> HIDE DEF below
<1>6. /\ Len(stack') = Len(stack) + 1 /\ stack'[Len(stack) + 1] = new
      /\ \A i \in 1..Len(stack) : stack'[i] = below[i]
  BY <1>4, <1>5, Pushed
<1>7. Len(stack) \in 1..Len(stack) /\ \A i \in 1..(Len(stack) - 1) : i \in 1..Len(stack)
  BY <1>1
<1>8. stack'[Len(stack)] = f /\ \A i \in 1..(Len(stack) - 1) : stack'[i] = stack[i]
  BY <1>5, <1>6, <1>7
<1> QED  BY <1>1, <1>2, <1>3, <1>4, <1>6, <1>8

\* A child met again is taken in by the frame on top.
LEMMA RevisitFrames ==
  ASSUME WalkInv, stack # <<>>, NEW e \in Top.left, Revisit(e)
  PROVE  LET m == Len(stack)
             r == memo[pass][e.to]
         IN /\ m \in Nat /\ m >= 1 /\ Len(stack') = m
            /\ \A i \in 1..(m - 1) : stack'[i] = stack[i]
            /\ stack'[m].key = stack[m].key /\ stack'[m].via = e
            /\ stack'[m].work = TakenIn(stack[m].work, r.work)
            /\ stack'[m].left = LeftAfter(stack[m].left \ {e}, e, stack'[m].work)
            /\ stack'[m].deep = Deeper(stack[m].deep, r.deep + 1)
            /\ e.to \in DOMAIN memo[pass] /\ r.state = "done"
            /\ UNCHANGED <<schema, fixture, pass, memo, verdict>>
            /\ ops' = ops + RefOps(e)
<1> DEFINE r == memo[pass][e.to]
           f == Absorb(Top, Top.left \ {e}, e, r)
<1>1. /\ IsFrame(Top) /\ Top = stack[Len(stack)] /\ Len(stack) \in Nat /\ Len(stack) >= 1
      /\ pass \in Passes
  BY TopFrame
<1>2. /\ stack' = Append(Below, f) /\ UNCHANGED <<schema, fixture, pass, memo, verdict>>
      /\ ops' = ops + RefOps(e) /\ e.to \in DOMAIN memo[pass] /\ r.state # "visiting"
  BY DEF Revisit, Survives, Known, Recall, Memo, MemoKey
<1>3. r.state = "done"
  BY <1>1, <1>2 DEF WalkInv, Memos
<1>4. /\ f.key = Top.key /\ f.via = e /\ f.work = TakenIn(Top.work, r.work)
      /\ f.left = LeftAfter(Top.left \ {e}, e, f.work) /\ f.deep = Deeper(Top.deep, r.deep + 1)
  BY <1>1, AbsorbedFrame
<1> HIDE DEF f
<1>5. /\ Len(stack') = Len(stack) /\ stack'[Len(stack)] = f
      /\ \A i \in 1..(Len(stack) - 1) : stack'[i] = stack[i]
  BY <1>2, Replaced DEF Below, WalkInv, Shape
<1> QED  BY <1>1, <1>2, <1>3, <1>4, <1>5

\* A frame that returns is taken in by the one below it.
LEMMA FinishFrames ==
  ASSUME WalkInv, Finish
  PROVE  LET m == Len(stack)
             c == stack[m - 1]
         IN /\ m \in Nat /\ m > 1 /\ Len(stack') = m - 1 /\ stack # <<>>
            /\ \A i \in 1..(m - 2) : stack'[i] = stack[i]
            /\ stack'[m - 1].key = c.key /\ stack'[m - 1].via = c.via
            /\ stack'[m - 1].work = TakenIn(c.work, Returned.work)
            /\ stack'[m - 1].left = LeftAfter(c.left, c.via, stack'[m - 1].work)
            /\ stack'[m - 1].deep = Deeper(c.deep, Returned.deep + 1)
            /\ c.via.to = Top.key /\ c.via \in EdgesOf(c.key) /\ IsFrame(c) /\ Finished
            /\ UNCHANGED <<schema, fixture, pass, verdict>>
<1>1. Len(stack) > 1 /\ stack # <<>> /\ Finished
  BY DEF Finish, Finished
<1> DEFINE c == stack[Len(stack) - 1]
           f == Absorb(c, c.left, c.via, Returned)
<1>2. /\ IsFrame(c) /\ Len(stack) \in Nat /\ c.via.to = Top.key /\ c.via \in EdgesOf(c.key)
  BY <1>1, TopFrame DEF WalkInv, Path
<1>3. /\ f.key = c.key /\ f.via = c.via /\ f.work = TakenIn(c.work, Returned.work)
      /\ f.left = LeftAfter(c.left, c.via, f.work) /\ f.deep = Deeper(c.deep, Returned.deep + 1)
  <2> HIDE DEF c
  <2> QED  BY <1>2, AbsorbedFrame
<1>4. /\ stack' = Append(SubSeq(stack, 1, Len(stack) - 2), f)
      /\ UNCHANGED <<schema, fixture, pass, verdict>>
  BY DEF Finish, Finished
<1> HIDE DEF f
<1>5. /\ Len(stack') = Len(stack) - 1 /\ stack'[Len(stack) - 1] = f
      /\ \A i \in 1..(Len(stack) - 2) : stack'[i] = stack[i]
  BY <1>1, <1>4, Popped DEF WalkInv, Shape
<1> QED  BY <1>1, <1>2, <1>3, <1>4, <1>5

-----------------------------------------------------------------------------
(* The depths of the proof are those of its longest paths.                   *)

\* A depth that is the longest there is below: of a literal, or over an edge.
Deepest(n, deep, least) ==
  /\ least <= deep
  /\ deep = least \/ \E e \in ProofEdges(n) : Proved(e.to) /\ deep = Deep(e.to) + 1

\* The depth of every node proved is the longest below it, within the limit, and a frame
\* has the longest of the children it has counted.
DepthInv ==
  /\ \A n \in DOMAIN memo["proof"] :
       Proved(n) => Deep(n) <= MaxDepth /\ Deepest(n, Deep(n), Height(n))
  /\ pass = "proof" => \A i \in 1..Len(stack) : Deepest(stack[i].key, stack[i].deep, 0)

\* A step that keeps what is proved keeps its depths.
LEMMA DepthKept ==
  ASSUME DepthInv, Keeps, schema' = schema
  PROVE  /\ \A n, d, least : Deepest(n, d, least) => Deepest(n, d, least)'
         /\ \A n : Height(n)' = Height(n)
         /\ \A n : Proved(n) => /\ Deep(n)' = Deep(n) /\ Deep(n)' <= MaxDepth
                                /\ Deepest(n, Deep(n), Height(n))'
<1>1. \A n : Height(n)' = Height(n)
  BY DEF Height
<1>2. \A n : Proved(n) => Deep(n)' = Deep(n) /\ Proved(n)'
  BY DEF Keeps, Deep
<1>3. \A n : ProofEdges(n)' = ProofEdges(n)
  BY EdgesKept
<1>4. ASSUME NEW n, NEW d, NEW least, Deepest(n, d, least)
      PROVE  Deepest(n, d, least)'
  BY <1>2, <1>3, <1>4 DEF Deepest
<1>5. ASSUME NEW n, Proved(n)
      PROVE  Deep(n)' = Deep(n) /\ Deep(n)' <= MaxDepth /\ Deepest(n, Deep(n), Height(n))'
  <2>1. Deep(n) <= MaxDepth /\ Deepest(n, Deep(n), Height(n))
    BY <1>5 DEF DepthInv, Proved
  <2>2. Deep(n)' = Deep(n) /\ Height(n)' = Height(n)
    BY <1>1, <1>2, <1>5
  <2> QED  BY <1>2, <1>3, <2>1, <2>2 DEF Deepest
<1> QED  BY <1>1, <1>4, <1>5

\* A frame's depth that takes in the one of a proved child.
LEMMA DeeperIs ==
  ASSUME NEW n, NEW d \in Nat, NEW e \in ProofEdges(n), Proved(e.to)', Deep(e.to)' \in Nat,
         ProofEdges(n)' = ProofEdges(n), Deepest(n, d, 0)'
  PROVE  Deepest(n, Deeper(d, Deep(e.to) + 1), 0)'
<1> DEFINE h == Deep(e.to)'
<1>1. CASE h + 1 > d
  BY <1>1 DEF Deeper, Deepest
<1>2. CASE ~(h + 1 > d)
  BY <1>2 DEF Deeper
<1> QED  BY <1>1, <1>2

\* The frames of the proof keep their depths when they stay.
LEMMA DepthFrames ==
  ASSUME WalkInv, ProofInv, DepthInv, pass = "proof", Keeps, schema' = schema,
         \A n \in DOMAIN memo'["proof"] : Proved(n)' => Proved(n),
         pass' = "proof" => \A i \in 1..Len(stack') : Deepest(stack[i].key, stack[i].deep, 0)'
  PROVE  DepthInv'
<1>1. \A n \in DOMAIN memo'["proof"] :
        Proved(n)' => Deep(n)' <= MaxDepth /\ Deepest(n, Deep(n), Height(n))'
  BY DepthKept
<1> QED  BY <1>1 DEF DepthInv

\* A node met first has no depth yet.
LEMMA DescendDepth ==
  ASSUME WalkInv, ProofInv, DepthInv, pass = "proof", stack # <<>>, NEW e \in Top.left,
         Descend(e)
  PROVE  DepthInv'
<1> DEFINE m == Len(stack)
<1>1. /\ m \in Nat /\ m >= 1 /\ Len(stack') = m + 1
      /\ \A i \in 1..(m - 1) : stack'[i] = stack[i]
      /\ stack'[m].key = stack[m].key /\ stack'[m].deep = stack[m].deep
      /\ stack'[m + 1].deep = 0
      /\ e.to \notin DOMAIN memo["proof"] /\ Store(e.to, Visiting)
      /\ schema' = schema /\ pass' = pass
  BY DescendFrames
<1>2. Keeps /\ \A n : Proved(n)' => Proved(n)
  <2>1. /\ DOMAIN memo'["proof"] = DOMAIN memo["proof"] \cup {e.to}
        /\ memo'["proof"][e.to] = Visiting
        /\ \A k \in DOMAIN memo["proof"] : k # e.to => memo'["proof"][k] = memo["proof"][k]
    BY <1>1, Stored DEF WalkInv, Shape, Passes
  <2> QED  BY <1>1, <2>1 DEF Keeps, Proved, Visiting
<1>3. ASSUME NEW i \in 1..Len(stack')
      PROVE  Deepest(stack[i].key, stack[i].deep, 0)'
  <2>1. CASE i = m + 1
    BY <1>1, <2>1 DEF Deepest
  <2>2. CASE i \in 1..m
    <3>1. stack'[i].key = stack[i].key /\ stack'[i].deep = stack[i].deep
      BY <1>1, <2>2
    <3>2. Deepest(stack[i].key, stack[i].deep, 0)
      BY <2>2 DEF DepthInv
    <3> QED  BY <1>1, <1>2, <3>1, <3>2, DepthKept
  <2> QED  BY <1>1, <2>1, <2>2
<1> QED  BY <1>1, <1>2, <1>3, DepthFrames

\* A node met again adds its edge to its depth.
LEMMA RevisitDepth ==
  ASSUME WalkInv, ProofInv, DepthInv, pass = "proof", stack # <<>>, NEW e \in Top.left,
         Revisit(e)
  PROVE  DepthInv'
<1> DEFINE m == Len(stack)
<1>1. /\ m \in Nat /\ m >= 1 /\ Len(stack') = m
      /\ \A i \in 1..(m - 1) : stack'[i] = stack[i]
      /\ stack'[m].key = stack[m].key
      /\ stack'[m].deep = Deeper(stack[m].deep, Deep(e.to) + 1)
      /\ Proved(e.to)
      /\ schema' = schema /\ pass' = pass /\ memo' = memo
  BY RevisitFrames DEF Proved, Deep
<1>2. Keeps /\ \A n : Proved(n)' = Proved(n) /\ Deep(n)' = Deep(n)
  BY <1>1 DEF Keeps, Proved, Deep
<1>3. ASSUME NEW i \in 1..Len(stack')
      PROVE  Deepest(stack[i].key, stack[i].deep, 0)'
  <2>1. Deepest(stack[i].key, stack[i].deep, 0) /\ Counted(i)
    BY <1>1 DEF DepthInv, ProofInv
  <2>2. Deepest(stack[i].key, stack[i].deep, 0) => \A n, d : n = stack[i].key /\ d = stack[i].deep
          => Deepest(n, d, 0)'
    BY <1>1, <1>2, DepthKept
  <2>3. PICK n, d : n = stack[i].key /\ d = stack[i].deep
    OBVIOUS
  <2>4. Deepest(n, d, 0)'
    BY <2>1, <2>2, <2>3
  <2>5. CASE i = m
    <3>1. e \in ProofEdges(n) /\ ProofEdges(n)' = ProofEdges(n)
      BY <1>1, <2>3, <2>5, TopFrame, EdgesKept DEF EdgesOf
    <3>2. Deep(e.to) \in Nat /\ d \in Nat
      BY <1>1, <2>1, <2>3 DEF ProofInv, Proved, Settled, Counted
    <3>3. Deepest(n, Deeper(d, Deep(e.to) + 1), 0)'
      BY <1>1, <1>2, <2>4, <3>1, <3>2, DeeperIs
    <3>4. stack'[i].key = n /\ stack'[i].deep = Deeper(d, Deep(e.to) + 1)
      BY <1>1, <2>3, <2>5
    <3>5. Deep(e.to)' = Deep(e.to)
      BY <1>2
    <3> QED  BY <3>3, <3>4, <3>5 DEF Deeper
  <2>6. CASE i \in 1..(m - 1)
    BY <1>1, <2>3, <2>4, <2>6
  <2> QED  BY <1>1, <2>5, <2>6
<1> QED  BY <1>1, <1>2, <1>3, DepthFrames

\* The depth returned is the longest below the node.
LEMMA ReturnedDepth ==
  ASSUME WalkInv, ProofInv, DepthInv, pass = "proof", stack # <<>>, Finished
  PROVE  /\ Deepest(Top.key, Returned.deep, Height(Top.key)) /\ Returned.deep <= MaxDepth
         /\ Returned.deep \in Nat
<1>1. /\ Top.key \in DOMAIN schema /\ Len(stack) \in 1..Len(stack) /\ Top = stack[Len(stack)]
      /\ schema \in Schemas /\ Len(stack) \in Nat
  BY TopFrame DEF ProofInv, WalkInv, Shape
<1>2. Deepest(Top.key, Top.deep, 0) /\ Top.deep \in Nat
  BY <1>1 DEF DepthInv, ProofInv, Counted
<1>3. Returned.deep = Top.deep + Height(Top.key)
  BY DEF Returned, Result
<1>4. CASE schema[Top.key].form = "const"
  <2>1. ProofEdges(Top.key) = {}
    BY <1>1, <1>4, Childless
  <2>2. Top.deep = 0 /\ Height(Top.key) \in Nat
    BY <1>1, <1>2, <2>1, SchemasAssumption DEF Deepest, Height
  <2> QED  BY <1>3, <2>2, ReturnedProof, <1>1, LimitsAssumption DEF Deepest
<1>5. CASE schema[Top.key].form # "const"
  <2>1. Height(Top.key) = 0
    BY <1>5 DEF Height
  <2>2. Returned.deep = Top.deep
    BY <1>2, <1>3, <2>1
  <2> QED  BY <1>1, <1>2, <2>1, <2>2, ReturnedProof, LimitsAssumption
<1> QED  BY <1>4, <1>5

\* With it every node proved has the depth of its longest path.
LEMMA ReturnedNodes ==
  ASSUME WalkInv, ProofInv, DepthInv, pass = "proof", stack # <<>>, Finished
  PROVE  \A n \in DOMAIN memo'["proof"] :
           Proved(n)' => Deep(n)' <= MaxDepth /\ Deepest(n, Deep(n), Height(n))'
<1>1. PICK key : key = Top.key
  OBVIOUS
<1>2. /\ Keeps /\ memo'["proof"][key] = Returned /\ schema' = schema
      /\ \A n \in DOMAIN memo'["proof"] :
           n = key \/ (n \in DOMAIN memo["proof"] /\ memo'["proof"][n] = memo["proof"][n])
  BY <1>1, ReturnedKeeps DEF Finished
<1>3. PICK d : d = Returned.deep
  OBVIOUS
<1>4. Deepest(key, d, Height(key)) /\ d <= MaxDepth
  BY <1>1, <1>3, ReturnedDepth
<1>5. Deepest(key, d, Height(key))'
  <2>1. PICK h : h = Height(key)
    OBVIOUS
  <2>2. Deepest(key, d, h)'
    BY <1>2, <1>4, <2>1, DepthKept
  <2>3. Height(key)' = h
    BY <1>2, <2>1, DepthKept
  <2> QED  BY <2>2, <2>3
<1>6. Deep(key)' = d
  BY <1>2, <1>3 DEF Deep
<1>7. ASSUME NEW n \in DOMAIN memo'["proof"], Proved(n)'
      PROVE  Deep(n)' <= MaxDepth /\ Deepest(n, Deep(n), Height(n))'
  <2>1. CASE n = key
    BY <1>4, <1>5, <1>6, <2>1
  <2>2. CASE n # key
    <3>1. Proved(n)
      BY <1>2, <1>7, <2>2 DEF Proved
    <3> QED  BY <1>2, <3>1, DepthKept
  <2> QED  BY <2>1, <2>2
<1> QED  BY <1>7

\* So does a node that has just been proved.
LEMMA FinishDepth ==
  ASSUME WalkInv, ProofInv, DepthInv, pass = "proof", Finish
  PROVE  DepthInv'
<1> DEFINE m == Len(stack)
           c == stack[m - 1]
<1>1. /\ m \in Nat /\ m > 1 /\ Len(stack') = m - 1 /\ stack # <<>>
      /\ \A i \in 1..(m - 2) : stack'[i] = stack[i]
      /\ stack'[m - 1].key = c.key /\ stack'[m - 1].deep = Deeper(c.deep, Returned.deep + 1)
      /\ c.via.to = Top.key /\ c.via \in EdgesOf(c.key) /\ Finished
      /\ schema' = schema /\ pass' = pass
  BY FinishFrames
<1>2. PICK key : key = Top.key
  OBVIOUS
<1>3. Keeps /\ Proved(key)' /\ Deep(key)' = Returned.deep
  BY <1>1, <1>2, ReturnedKeeps DEF Deep
<1>4. ASSUME NEW i \in 1..Len(stack')
      PROVE  Deepest(stack[i].key, stack[i].deep, 0)'
  <2>1. Deepest(stack[i].key, stack[i].deep, 0) /\ Counted(i)
    BY <1>1 DEF DepthInv, ProofInv
  <2>2. PICK n, d : n = stack[i].key /\ d = stack[i].deep
    OBVIOUS
  <2>3. Deepest(n, d, 0)'
    BY <1>1, <1>3, <2>1, <2>2, DepthKept
  <2>4. CASE i = m - 1
    <3>1. PICK e : e = c.via
      OBVIOUS
    <3>2. e \in ProofEdges(n) /\ ProofEdges(n)' = ProofEdges(n) /\ e.to = key
      BY <1>1, <1>2, <2>2, <2>4, <3>1, EdgesKept DEF EdgesOf
    <3>3. Deep(key)' \in Nat /\ d \in Nat
      BY <1>1, <1>3, <2>1, <2>2, ReturnedDepth DEF Counted
    <3>4. Deepest(n, Deeper(d, Deep(e.to) + 1), 0)'
      BY <1>3, <2>3, <3>2, <3>3, DeeperIs
    <3>5. stack'[i].key = n /\ stack'[i].deep = Deeper(d, Returned.deep + 1)
      BY <1>1, <2>2, <2>4
    <3> QED  BY <1>3, <3>2, <3>4, <3>5 DEF Deeper
  <2>5. CASE i \in 1..(m - 2)
    BY <1>1, <2>2, <2>3, <2>5
  <2> QED  BY <1>1, <2>4, <2>5
<1>5. \A n \in DOMAIN memo'["proof"] :
        Proved(n)' => Deep(n)' <= MaxDepth /\ Deepest(n, Deep(n), Height(n))'
  BY <1>1, ReturnedNodes
<1> QED  BY <1>4, <1>5 DEF DepthInv

\* Every step keeps the depths.
LEMMA DepthStep == WalkInv /\ ProofInv /\ DepthInv /\ [Next]_vars => DepthInv'
<1> SUFFICES ASSUME WalkInv, ProofInv, DepthInv, [Next]_vars PROVE DepthInv'
  OBVIOUS
<1>1. CASE pass # "proof"
  <2>1. schema' = schema /\ pass' # "proof" /\ memo'["proof"] = memo["proof"]
    BY <1>1, EstimateStep DEF vars
  <2>2. Keeps /\ \A n : Proved(n)' = Proved(n)
    BY <2>1 DEF Keeps, Proved
  <2> QED  BY <2>1, <2>2, DepthKept DEF DepthInv
<1>2. CASE pass = "proof"
  <2>1. ASSUME stack' = <<>>, schema' = schema, memo'["proof"] = memo["proof"]
        PROVE  DepthInv'
    <3>1. Keeps /\ \A n : Proved(n)' = Proved(n)
      BY <2>1 DEF Keeps, Proved
    <3>2. 1..Len(stack') = {}
      BY <2>1
    <3> QED  BY <1>2, <2>1, <3>1, <3>2, DepthFrames
  <2>2. ASSUME NEW v, Conclude(v) PROVE DepthInv'
    BY <2>1, <2>2 DEF Conclude
  <2>3. CASE Begin
    <3>1. CASE Malformed(Root)
      BY <1>2, <2>2, <2>3, <3>1 DEF Begin
    <3>2. CASE ~Malformed(Root)
      <4>1. /\ Call(Root, <<>>) /\ Memo = Empty
        BY <1>2, <2>3, <3>2 DEF Begin, RootKey
      <4>2. /\ Store(Root, Visiting) /\ stack' = Append(<<>>, Frame(Root)) /\ schema' = schema
            /\ pass' = pass
        BY <4>1 DEF Call
      <4>3. /\ DOMAIN memo'["proof"] = DOMAIN memo["proof"] \cup {Root}
            /\ memo'["proof"][Root] = Visiting
        BY <1>2, <4>2, Stored DEF WalkInv, Shape, Passes
      <4>4. DOMAIN memo["proof"] = {}
        BY <1>2, <4>1 DEF Memo, Empty
      <4>5. Keeps /\ \A n \in DOMAIN memo'["proof"] : ~Proved(n)'
        BY <4>3, <4>4 DEF Keeps, Proved, Visiting
      <4>6. Len(stack') = 1 /\ stack'[1].deep = 0
        BY <4>2 DEF Frame
      <4>7. \A i \in 1..Len(stack') : Deepest(stack[i].key, stack[i].deep, 0)'
        <5>1. \A i \in 1..Len(stack') : i = 1
          BY <4>6
        <5> QED  BY <4>6, <5>1 DEF Deepest
      <4> QED  BY <1>2, <4>2, <4>5, <4>7, DepthFrames
    <3> QED  BY <3>1, <3>2
  <2>4. CASE Visit
    <3>1. stack # <<>>
      BY <2>4 DEF Visit
    <3>2. PICK e \in Top.left : Descend(e) \/ Revisit(e) \/ Fail(e)
      BY <2>4 DEF Visit, NextEdges
    <3>3. CASE Fail(e)
      BY <2>2, <3>3 DEF Fail
    <3> QED  BY <1>2, <3>1, <3>2, <3>3, DescendDepth, RevisitDepth
  <2>5. CASE Unproved
    BY <2>2, <2>5 DEF Unproved
  <2>6. CASE FinishPass
    <3>1. pass' # "proof" /\ stack # <<>> /\ Finished
      BY <1>2, <2>6 DEF FinishPass, Finished
    <3> QED  BY <1>2, <3>1, ReturnedNodes DEF DepthInv
  <2>7. CASE ValidateFixture
    BY <1>2, <2>7 DEF ValidateFixture
  <2>8. CASE UNCHANGED vars
    <3>1. UNCHANGED <<schema, pass, memo, stack>>
      BY <2>8 DEF vars
    <3>2. Keeps /\ \A n : Proved(n)' = Proved(n)
      BY <3>1 DEF Keeps, Proved
    <3>3. \A i \in 1..Len(stack') : Deepest(stack[i].key, stack[i].deep, 0)'
      BY <1>2, <3>1, <3>2, DepthKept DEF DepthInv
    <3> QED  BY <1>2, <3>1, <3>2, <3>3, DepthFrames
  <2> QED  BY <1>2, <2>3, <2>4, <2>5, <2>6, <2>7, <2>8, FinishDepth DEF Next
<1> QED  BY <1>1, <1>2

\* Nothing has a depth at the start.
LEMMA DepthInit == Init => DepthInv
BY DEF Init, DepthInv, Empty

-----------------------------------------------------------------------------
(* Paths and depths.                                                         *)

\* A path of d edges leads down from the node, as far as the levels tell.
AtLeast(n, d) == \A k \in 0..Levels : longest[k][n] >= k \/ longest[k][n] >= d

\* Each level is a number, no less than a literal's height or one over a child's.
LEMMA Longer1 ==
  ASSUME schema \in Schemas, NEW n \in DOMAIN schema
  PROVE  /\ Levels \in Nat /\ \A k \in 0..Levels : longest[k][n] \in Nat
         /\ \A k \in 1..Levels : k - 1 \in 0..Levels
         /\ longest[0][n] = 0
         /\ \A k \in 1..Levels :
              /\ longest[k][n] >= Height(n)
              /\ \A e \in ProofEdges(n) : e.to # NoNode => longest[k][n] >= longest[k - 1][e.to] + 1
              /\ \/ longest[k][n] = Height(n)
                 \/ \E e \in ProofEdges(n) :
                      e.to # NoNode /\ longest[k][n] = longest[k - 1][e.to] + 1
<1>1. Levels \in Nat /\ \A k \in 1..Levels : k - 1 \in 0..Levels
  BY LimitsAssumption DEF Levels
<1>2. \A k \in 0..Levels : longest[k] \in [DOMAIN schema -> Nat]
  BY LongestDefined
<1>3. longest[0][n] = 0 /\ \A k \in 1..Levels : longest[k][n] = Longer(longest[k - 1], n)
  BY LongestDefined
<1>4. ASSUME NEW k \in 1..Levels
      PROVE  /\ longest[k][n] >= Height(n)
             /\ \A e \in ProofEdges(n) : e.to # NoNode => longest[k][n] >= longest[k - 1][e.to] + 1
             /\ \/ longest[k][n] = Height(n)
                \/ \E e \in ProofEdges(n) :
                     e.to # NoNode /\ longest[k][n] = longest[k - 1][e.to] + 1
  <2>1. longest[k - 1] \in [DOMAIN schema -> Nat] /\ longest[k][n] = Longer(longest[k - 1], n)
    BY <1>1, <1>2, <1>3
  <2> QED  BY <2>1, LongerIs
<1> QED  BY <1>1, <1>2, <1>3, <1>4

\* One edge more.
LEMMA OneMore ==
  ASSUME schema \in Schemas, NEW n \in DOMAIN schema, NEW e \in ProofEdges(n),
         e.to \in DOMAIN schema, NEW d \in Nat, AtLeast(e.to, d)
  PROVE  AtLeast(n, d + 1)
<1>1. e.to # NoNode
  BY SchemasAssumption
<1> SUFFICES ASSUME NEW k \in 0..Levels
             PROVE  longest[k][n] >= k \/ longest[k][n] >= d + 1
  BY DEF AtLeast
<1>2. CASE k = 0
  BY <1>2, Longer1
<1>3. CASE k # 0
  <2>1. k \in 1..Levels /\ k - 1 \in 0..Levels
    BY <1>3, Longer1
  <2>2. longest[k][n] >= longest[k - 1][e.to] + 1
    BY <1>1, <2>1, Longer1
  <2>3. longest[k - 1][e.to] \in Nat /\ longest[k][n] \in Nat
    BY <2>1, Longer1
  <2>4. longest[k - 1][e.to] >= k - 1 \/ longest[k - 1][e.to] >= d
    BY <2>1 DEF AtLeast
  <2> QED  BY <2>1, <2>2, <2>3, <2>4
<1> QED  BY <1>2, <1>3

\* What is proved is as deep as it says.
LEMMA ProvedLower ==
  ASSUME WalkInv, ProofInv, DepthInv
  PROVE  \A n : Proved(n) => Deep(n) \in Nat /\ AtLeast(n, Deep(n))
<1> DEFINE P == {k \in 0..Levels :
                   \A n : Proved(n) => longest[k][n] >= k \/ longest[k][n] >= Deep(n)}
<1>1. schema \in Schemas /\ Levels \in Nat
  BY LimitsAssumption DEF WalkInv, Shape, Levels
<1>2. \A n : Proved(n) => /\ n \in DOMAIN schema /\ Deep(n) \in Nat
                          /\ Deepest(n, Deep(n), Height(n))
                          /\ \A e \in ProofEdges(n) : Proved(e.to)
  BY DEF ProofInv, DepthInv, Proved, Settled
<1>3. 0 \in P
  <2>1. \A n : Proved(n) => longest[0][n] = 0
    BY <1>1, <1>2, Longer1
  <2> QED  BY <1>1, <2>1
<1>4. ASSUME NEW k \in 1..Levels, k - 1 \in P
      PROVE  k \in P
  <2>1. /\ k \in 0..Levels
        /\ \A n : Proved(n) => longest[k - 1][n] >= k - 1 \/ longest[k - 1][n] >= Deep(n)
    BY <1>1, <1>4
  <2>2. ASSUME NEW n, Proved(n)
        PROVE  longest[k][n] >= k \/ longest[k][n] >= Deep(n)
    <3>1. n \in DOMAIN schema
      BY <1>2, <2>2
    <3>2. CASE Deep(n) = Height(n)
      BY <1>1, <3>1, <3>2, Longer1
    <3>3. CASE \E e \in ProofEdges(n) : Proved(e.to) /\ Deep(n) = Deep(e.to) + 1
      <4>1. PICK e \in ProofEdges(n) : Proved(e.to) /\ Deep(n) = Deep(e.to) + 1
        BY <3>3
      <4>2. e.to \in DOMAIN schema /\ e.to # NoNode /\ Deep(e.to) \in Nat
        BY <1>1, <1>2, <4>1, SchemasAssumption
      <4>3. /\ longest[k][n] >= longest[k - 1][e.to] + 1 /\ longest[k][n] \in Nat
            /\ longest[k - 1][e.to] \in Nat
        <5>1. k - 1 \in 0..Levels
          BY <1>1
        <5> QED  BY <1>1, <2>1, <3>1, <4>2, <5>1, Longer1
      <4>4. longest[k - 1][e.to] >= k - 1 \/ longest[k - 1][e.to] >= Deep(e.to)
        BY <2>1, <4>1
      <4> QED  BY <4>1, <4>2, <4>3, <4>4
    <3> QED  BY <1>2, <2>2, <3>2, <3>3 DEF Deepest
  <2> QED  BY <2>1, <2>2
<1>5. 0..Levels \subseteq P
  <2> HIDE DEF P
  <2> QED  BY <1>1, <1>3, <1>4, UpTo
<1> QED  BY <1>2, <1>5 DEF AtLeast

\* and no deeper.
LEMMA ProvedUpper ==
  ASSUME WalkInv, ProofInv, DepthInv
  PROVE  \A k \in 0..Levels : \A n : Proved(n) => longest[k][n] <= Deep(n)
<1> DEFINE P == {k \in 0..Levels : \A n : Proved(n) => longest[k][n] <= Deep(n)}
<1>1. schema \in Schemas /\ Levels \in Nat
  BY LimitsAssumption DEF WalkInv, Shape, Levels
<1>2. \A n : Proved(n) => /\ n \in DOMAIN schema /\ Deep(n) \in Nat /\ Height(n) <= Deep(n)
                          /\ \A e \in ProofEdges(n) : Proved(e.to) /\ Deep(e.to) < Deep(n)
  BY DEF ProofInv, DepthInv, Proved, Settled, Deepest
<1>3. 0 \in P
  <2>1. \A n : Proved(n) => longest[0][n] = 0
    BY <1>1, <1>2, Longer1
  <2> QED  BY <1>1, <1>2, <2>1
<1>4. ASSUME NEW k \in 1..Levels, k - 1 \in P
      PROVE  k \in P
  <2>1. k \in 0..Levels /\ \A n : Proved(n) => longest[k - 1][n] <= Deep(n)
    BY <1>1, <1>4
  <2>2. ASSUME NEW n, Proved(n)
        PROVE  longest[k][n] <= Deep(n)
    <3>1. n \in DOMAIN schema
      BY <1>2, <2>2
    <3>2. CASE longest[k][n] = Height(n)
      BY <1>2, <2>2, <3>2
    <3>3. CASE \E e \in ProofEdges(n) : e.to # NoNode /\ longest[k][n] = longest[k - 1][e.to] + 1
      <4>1. PICK e \in ProofEdges(n) : longest[k][n] = longest[k - 1][e.to] + 1
        BY <3>3
      <4>2. Proved(e.to) /\ Deep(e.to) < Deep(n)
        BY <1>2, <2>2, <4>1
      <4>3. longest[k - 1][e.to] <= Deep(e.to) /\ Deep(e.to) \in Nat /\ Deep(n) \in Nat
        BY <1>2, <2>1, <2>2, <4>2
      <4>4. longest[k - 1][e.to] \in Nat
        <5>1. k - 1 \in 0..Levels /\ e.to \in DOMAIN schema
          BY <1>1, <1>2, <4>2
        <5> QED  BY <1>1, <5>1, Longer1
      <4> QED  BY <4>1, <4>2, <4>3, <4>4
    <3> QED  BY <1>1, <3>1, <3>2, <3>3, Longer1
  <2> QED  BY <2>1, <2>2
<1>5. 0..Levels \subseteq P
  <2> HIDE DEF P
  <2> QED  BY <1>1, <1>3, <1>4, UpTo
<1> QED  BY <1>5

\* The calls in progress are a path: what is below the top is below the root.
LEMMA Onwards ==
  ASSUME WalkInv, ProofInv, pass = "proof", stack # <<>>, NEW d \in Nat, AtLeast(Top.key, d)
  PROVE  AtLeast(Root, Len(stack) - 1 + d)
<1> DEFINE m == Len(stack)
           P == {j \in 0..(m - 1) : AtLeast(stack[m - j].key, j + d)}
<1>1. m \in Nat /\ m >= 1 /\ Top = stack[m] /\ schema \in Schemas
  BY TopFrame DEF WalkInv, Shape
<1>2. 0 \in P
  <2>1. 0 \in 0..(m - 1) /\ m - 0 = m /\ 0 + d = d
    BY <1>1
  <2> QED  BY <1>1, <2>1
<1>3. ASSUME NEW j \in 1..(m - 1), j - 1 \in P
      PROVE  j \in P
  <2>1. PICK i : i = m - j
    OBVIOUS
  <2>2. /\ i \in 1..m /\ i < m /\ i + 1 \in 1..m /\ m - (j - 1) = i + 1 /\ j \in 0..(m - 1)
        /\ j - 1 + d \in Nat /\ j - 1 + d + 1 = j + d
    BY <1>1, <2>1
  <2>3. AtLeast(stack[i + 1].key, j - 1 + d)
    BY <1>3, <2>2
  <2>4. PICK e : e = stack[i].via
    OBVIOUS
  <2>5. /\ e \in ProofEdges(stack[i].key) /\ e.to = stack[i + 1].key
        /\ stack[i].key \in DOMAIN schema /\ stack[i + 1].key \in DOMAIN schema
    BY <2>2, <2>4 DEF WalkInv, Path, ProofInv, EdgesOf
  <2>6. AtLeast(stack[i].key, j - 1 + d + 1)
    BY <1>1, <2>2, <2>3, <2>5, OneMore
  <2> QED  BY <2>1, <2>2, <2>6
<1>4. 0..(m - 1) \subseteq P
  <2>1. m - 1 \in Nat
    BY <1>1
  <2> HIDE DEF P
  <2> QED  BY <1>2, <1>3, <2>1, UpTo
<1>5. m - 1 \in P
  <2>1. m - 1 \in 0..(m - 1)
    BY <1>1
  <2> QED  BY <1>4, <2>1
<1>6. m - (m - 1) = 1 /\ stack[1].key = Root
  BY <1>1 DEF WalkInv, Path, RootKey
<1> QED  BY <1>5, <1>6

\* More than the limit is more than the limit.
LEMMA TooDeep ==
  ASSUME schema \in Schemas, NEW d \in Int, d > MaxDepth, AtLeast(Root, d)
  PROVE  ~(LongestPath <= MaxDepth)
<1>1. Levels \in 0..Levels /\ Levels = MaxDepth + 1 /\ MaxDepth \in Nat
  BY LimitsAssumption DEF Levels
<1>2. LongestPath = longest[Levels][Root]
  BY <1>1 DEF LongestPath
<1>3. Root \in DOMAIN schema
  BY SchemasAssumption
<1>4. LongestPath \in Nat
  BY <1>1, <1>2, <1>3, Longer1
<1>5. LongestPath >= Levels \/ LongestPath >= d
  BY <1>1, <1>2 DEF AtLeast
<1> QED  BY <1>1, <1>4, <1>5

\* A cycle has paths of any length.
LEMMA CycleDeep ==
  ASSUME WalkInv, ProofInv, pass = "proof", stack # <<>>, NEW e \in Top.left,
         NEW i \in 1..Len(stack), stack[i].key = e.to
  PROVE  ~(LongestPath <= MaxDepth)
<1> DEFINE m == Len(stack)
           P == {k \in 0..Levels : \A j \in 1..m : longest[k][stack[j].key] >= k}
<1>1. m \in Nat /\ m >= 1 /\ Top = stack[m] /\ schema \in Schemas /\ Levels \in Nat
  BY TopFrame, LimitsAssumption DEF WalkInv, Shape, Levels
<1>2. \A j \in 1..m : stack[j].key \in DOMAIN schema
  BY DEF WalkInv, Path, ProofInv
<1>3. ASSUME NEW j \in 1..m
      PROVE  \E d \in ProofEdges(stack[j].key) : \E l \in 1..m : d.to = stack[l].key
  <2>1. CASE j = m
    <3>1. e \in ProofEdges(stack[j].key)
      BY <1>1, <2>1, TopFrame DEF EdgesOf
    <3> QED  BY <3>1
  <2>2. CASE j # m
    <3>1. /\ stack[j].via \in ProofEdges(stack[j].key) /\ stack[j].via.to = stack[j + 1].key
          /\ j + 1 \in 1..m
      BY <1>1, <2>2 DEF WalkInv, Path, EdgesOf
    <3> QED  BY <3>1
  <2> QED  BY <2>1, <2>2
<1>4. 0 \in P
  <2>1. \A j \in 1..m : longest[0][stack[j].key] = 0
    BY <1>1, <1>2, Longer1
  <2> QED  BY <1>1, <2>1
<1>5. ASSUME NEW k \in 1..Levels, k - 1 \in P
      PROVE  k \in P
  <2>1. /\ k \in 0..Levels /\ k - 1 \in 0..Levels
        /\ \A j \in 1..m : longest[k - 1][stack[j].key] >= k - 1
    BY <1>1, <1>5
  <2>2. ASSUME NEW j \in 1..m
        PROVE  longest[k][stack[j].key] >= k
    <3>1. PICK d \in ProofEdges(stack[j].key), l \in 1..m : d.to = stack[l].key
      BY <1>3
    <3>2. d.to \in DOMAIN schema /\ d.to # NoNode
      BY <1>1, <1>2, <3>1, SchemasAssumption
    <3>3. longest[k][stack[j].key] >= longest[k - 1][d.to] + 1
      BY <1>1, <1>2, <3>1, <3>2, Longer1
    <3>4. longest[k][stack[j].key] \in Nat /\ longest[k - 1][d.to] \in Nat
      BY <1>1, <1>2, <2>1, <3>2, Longer1
    <3>5. longest[k - 1][d.to] >= k - 1
      BY <2>1, <3>1
    <3> QED  BY <2>1, <3>3, <3>4, <3>5
  <2> QED  BY <2>1, <2>2
<1>6. 0..Levels \subseteq P
  <2> HIDE DEF P
  <2> QED  BY <1>1, <1>4, <1>5, UpTo
<1>7. stack[1].key = Root /\ 1 \in 1..m
  BY <1>1 DEF WalkInv, Path, RootKey
<1>8. AtLeast(Root, Levels)
  BY <1>6, <1>7 DEF AtLeast
<1>9. Levels > MaxDepth /\ Levels \in Int
  BY LimitsAssumption DEF Levels
<1> QED  BY <1>1, <1>8, <1>9, TooDeep

-----------------------------------------------------------------------------
(* The operations of the proof are a sum over the nodes.                     *)

\* One summand grows.
LEMMA SumRaised ==
  ASSUME NEW K, IsFiniteSet(K), NEW f, NEW g, NEW y \in K, NEW c \in Nat,
         \A x \in K : f[x] \in Nat,
         \A x \in K : g[x] = IF x = y THEN f[x] + c ELSE f[x]
  PROVE  SumFunctionOnSet(g, K) = SumFunctionOnSet(f, K) + c
<1>1. \A x \in K : g[x] \in Nat
  OBVIOUS
<1>2. /\ SumFunctionOnSet(f, K) = f[y] + SumFunctionOnSet(f, K \ {y})
      /\ SumFunctionOnSet(f, K \ {y}) \in Nat
  BY SumSplit
<1>3. SumFunctionOnSet(g, K) = g[y] + SumFunctionOnSet(g, K \ {y})
  BY <1>1, SumSplit
<1>4. SumFunctionOnSet(g, K \ {y}) = SumFunctionOnSet(f, K \ {y})
  <2>1. IsFiniteSet(K \ {y}) /\ \A x \in K \ {y} : g[x] = f[x]
    BY FS_Subset
  <2> QED  BY <2>1, SumSame
<1>5. f[y] \in Nat /\ g[y] = f[y] + c
  OBVIOUS
<1> QED  BY <1>2, <1>3, <1>4, <1>5

\* One summand more.
LEMMA SumWith ==
  ASSUME NEW K, IsFiniteSet(K), NEW f, NEW y, y \notin K, \A x \in K \cup {y} : f[x] \in Nat
  PROVE  SumFunctionOnSet(f, K \cup {y}) = SumFunctionOnSet(f, K) + f[y]
<1>1. IsFiniteSet(K \cup {y}) /\ (K \cup {y}) \ {y} = K /\ y \in K \cup {y}
  BY FS_AddElement
<1>2. /\ SumFunctionOnSet(f, K \cup {y}) = f[y] + SumFunctionOnSet(f, K)
      /\ SumFunctionOnSet(f, K) \in Nat
  <2> DEFINE L == K \cup {y}
  <2>1. IsFiniteSet(L) /\ y \in L /\ L \ {y} = K /\ \A x \in L : f[x] \in Nat
    BY <1>1
  <2> HIDE DEF L
  <2>2. SumFunctionOnSet(f, L) = f[y] + SumFunctionOnSet(f, L \ {y})
        /\ SumFunctionOnSet(f, L \ {y}) \in Nat
    BY <2>1, SumSplit
  <2> QED  BY <2>1, <2>2 DEF L
<1>3. f[y] \in Nat
  OBVIOUS
<1> QED  BY <1>2, <1>3

\* A node has at most one reference, which is one of its edges; no other edge
\* costs an operation.
LEMMA OneReference ==
  ASSUME schema \in Schemas, NEW n \in DOMAIN schema
  PROVE  /\ RefEdges(n) \subseteq ProofEdges(n)
         /\ \A d \in RefEdges(n) : RefEdges(n) = {d}
         /\ \A e \in ProofEdges(n) : e.loop = RefLoop => e \in RefEdges(n)
         /\ \A e \in RefEdges(n) : e.loop = RefLoop
<1>1. RefEdges(n) \subseteq ProofEdges(n)
  <2>1. CASE schema[n].form = "object"
    BY <2>1 DEF ProofEdges
  <2>2. CASE schema[n].form # "object"
    BY <2>2, Childless
  <2> QED  BY <2>1, <2>2
<1>2. \A d \in RefEdges(n) : RefEdges(n) = {d}
  BY DEF RefEdges
<1>3. \A e \in RefEdges(n) : e.loop = RefLoop
  BY DEF RefEdges, Edge
<1>4. ASSUME NEW e \in ProofEdges(n), e.loop = RefLoop
      PROVE  e \in RefEdges(n)
  <2>1. \A d \in MapEdges(n, DOMAIN MapLoop) : d.loop # RefLoop
    BY DEF MapEdges, MapLoop, Edge, RefLoop
  <2>2. \A d \in SingleEdges(n) : d.loop # RefLoop
    BY DEF SingleEdges, SingleLoop, Edge, RefLoop
  <2>3. \A d \in ListEdges(n) : d.loop # RefLoop
    BY DEF ListEdges, ListLoop, Edge, RefLoop
  <2> QED  BY <1>4, <2>1, <2>2, <2>3 DEF ProofEdges
<1> QED  BY <1>1, <1>2, <1>3, <1>4

\* The references of a node that are followed: no call on it has them left.
Followed(n) ==
  {e \in RefEdges(n) :
     pass = "proof" => \A i \in 1..Len(stack) : stack[i].key = n => e \notin stack[i].left}

\* The operations spent on a node so far, and all a node costs.
Spent(n) ==
  1 + Cardinality(Followed(n)) + (IF Proved(n) THEN LiteralOps(n) ELSE 0)
Cost(n) == 1 + Cardinality(RefEdges(n)) + LiteralOps(n)
Total == SumFunction([n \in DOMAIN memo["proof"] |-> Spent(n)])

\* The nodes met are reachable, and the operations counted are those spent on them.
SpentInv ==
  /\ DOMAIN memo["proof"] \subseteq Reachable
  /\ pass # "proof" \/ verdict = "none" => ops = Total

\* What is spent on a node is within its cost.
LEMMA SpentBound ==
  ASSUME schema \in Schemas, NEW n \in DOMAIN schema
  PROVE  /\ Spent(n) \in Nat /\ Cost(n) \in Nat /\ Spent(n) <= Cost(n)
         /\ Cardinality(RefEdges(n)) \in Nat /\ Cardinality(Followed(n)) \in Nat
         /\ Cardinality(Followed(n)) <= Cardinality(RefEdges(n)) /\ LiteralOps(n) \in Nat
<1>1. IsFiniteSet(RefEdges(n)) /\ Cardinality(RefEdges(n)) \in Nat
  BY EdgesFinite
<1>2. Followed(n) \subseteq RefEdges(n)
  BY DEF Followed
<1>3. Cardinality(Followed(n)) \in Nat /\ Cardinality(Followed(n)) <= Cardinality(RefEdges(n))
  BY <1>1, <1>2, FS_Subset, FS_CardinalityType
<1>4. LiteralOps(n) \in Nat
  BY SchemasAssumption DEF LiteralOps
<1> QED  BY <1>1, <1>3, <1>4 DEF Spent, Cost

\* The nodes met are finitely many, and their sum is one of numbers.
LEMMA TotalIs ==
  ASSUME schema \in Schemas, DOMAIN memo["proof"] \subseteq DOMAIN schema
  PROVE  /\ IsFiniteSet(DOMAIN memo["proof"])
         /\ \A n \in DOMAIN memo["proof"] : Spent(n) \in Nat
         /\ Total = SumFunctionOnSet([n \in DOMAIN memo["proof"] |-> Spent(n)],
                                     DOMAIN memo["proof"])
         /\ Total \in Nat
<1> DEFINE K == DOMAIN memo["proof"]
           f == [n \in K |-> Spent(n)]
<1>1. IsFiniteSet(K)
  BY SchemasAssumption, FS_Subset
<1>2. \A n \in K : Spent(n) \in Nat
  BY SpentBound
<1>3. DOMAIN f = K /\ \A n \in K : f[n] \in Nat
  BY <1>2
<1>4. Total = SumFunctionOnSet(f, K)
  BY <1>3 DEF Total, SumFunction
<1>5. SumFunctionOnSet(f, K) \in Nat
  <2> HIDE DEF f, K
  <2> QED  BY <1>1, <1>3, SumNat
<1> QED  BY <1>1, <1>2, <1>4, <1>5

\* On the stack, what is left there; elsewhere all is followed.
LEMMA FollowedIs ==
  ASSUME WalkInv, pass = "proof"
  PROVE  /\ \A n : \A i \in 1..Len(stack) :
              stack[i].key = n => Followed(n) = RefEdges(n) \ stack[i].left
         /\ \A n : (\A i \in 1..Len(stack) : stack[i].key # n) => Followed(n) = RefEdges(n)
<1>1. \A i, j \in 1..Len(stack) : stack[i].key = stack[j].key => i = j
  BY DEF WalkInv, Path
<1>2. ASSUME NEW n, NEW i \in 1..Len(stack), stack[i].key = n
      PROVE  Followed(n) = RefEdges(n) \ stack[i].left
  BY <1>1, <1>2 DEF Followed
<1>3. ASSUME NEW n, \A i \in 1..Len(stack) : stack[i].key # n
      PROVE  Followed(n) = RefEdges(n)
  BY <1>3 DEF Followed
<1> QED  BY <1>2, <1>3

\* What a node costs and what is reachable depend on the schema alone.
LEMMA SpentKept ==
  ASSUME schema' = schema
  PROVE  /\ \A n : RefEdges(n)' = RefEdges(n) /\ LiteralOps(n)' = LiteralOps(n)
         /\ Reachable' = Reachable
<1>1. \A n : RefEdges(n)' = RefEdges(n)
  BY DEF RefEdges
<1>2. \A n : LiteralOps(n)' = LiteralOps(n)
  BY DEF LiteralOps
<1>3. Reachable' = Reachable
  BY DEF Reachable, ProofEdges, MapEdges, SingleEdges, ListEdges, RefEdges, KidsOf, ChildrenOf
<1> QED  BY <1>1, <1>2, <1>3

\* The same of the next state.
LEMMA FollowedNext ==
  ASSUME WalkInv', pass' = "proof", schema' = schema
  PROVE  /\ \A n : \A i \in 1..Len(stack') :
              stack'[i].key = n => Followed(n)' = RefEdges(n) \ stack'[i].left
         /\ \A n : (\A i \in 1..Len(stack') : stack'[i].key # n) => Followed(n)' = RefEdges(n)
<1>1. \A i, j \in 1..Len(stack') : stack'[i].key = stack'[j].key => i = j
  BY DEF WalkInv, Path
<1>2. \A n : Followed(n)' =
        {e \in RefEdges(n) :
           \A i \in 1..Len(stack') : stack'[i].key = n => e \notin stack'[i].left}
  BY SpentKept DEF Followed
<1>3. ASSUME NEW n, NEW i \in 1..Len(stack'), stack'[i].key = n
      PROVE  Followed(n)' = RefEdges(n) \ stack'[i].left
  BY <1>1, <1>2, <1>3
<1>4. ASSUME NEW n, \A i \in 1..Len(stack') : stack'[i].key # n
      PROVE  Followed(n)' = RefEdges(n)
  BY <1>2, <1>4
<1> QED  BY <1>3, <1>4

\* An edge followed costs what the proof charges for it.
LEMMA FollowsOne ==
  ASSUME WalkInv, ProofInv, pass = "proof", NEW i \in 1..Len(stack), NEW e \in stack[i].left
  PROVE  LET R == RefEdges(stack[i].key)
         IN /\ Cardinality(R \ (stack[i].left \ {e})) = Cardinality(R \ stack[i].left) + RefOps(e)
            /\ RefOps(e) \in Nat
<1> DEFINE n == stack[i].key
           R == RefEdges(n)
           left == stack[i].left
<1>1. n \in DOMAIN schema /\ e \in ProofEdges(n) /\ schema \in Schemas
  BY DEF WalkInv, Shape, Path, IsFrame, ProofInv, EdgesOf
<1>2. CASE e \in R
  <2>1. R = {e} /\ RefOps(e) = 1
    BY <1>1, <1>2, OneReference DEF RefOps
  <2>2. R \ left = {} /\ R \ (left \ {e}) = {e}
    BY <2>1
  <2>3. Cardinality(R \ (left \ {e})) = Cardinality(R \ left) + RefOps(e) /\ RefOps(e) \in Nat
    <3>1. Cardinality({}) = 0 /\ Cardinality({e}) = 1
      BY FS_EmptySet, FS_Singleton
    <3>2. Cardinality(R \ left) = 0
      BY <2>2, <3>1
    <3>3. Cardinality(R \ (left \ {e})) = 1
      BY <2>2, <3>1
    <3> HIDE DEF R, left
    <3> QED  BY <2>1, <3>2, <3>3
  <2> QED  BY <2>3
<1>3. CASE e \notin R
  <2>1. RefOps(e) = 0
    BY <1>1, <1>3, OneReference DEF RefOps
  <2>2. R \ left = R \ (left \ {e})
    BY <1>3
  <2>3. Cardinality(R \ left) \in Nat
    <3>1. IsFiniteSet(R)
      BY <1>1, EdgesFinite
    <3> HIDE DEF R, left
    <3> QED  BY <3>1, FS_Subset, FS_CardinalityType
  <2>4. Cardinality(R \ (left \ {e})) = Cardinality(R \ left) + RefOps(e) /\ RefOps(e) \in Nat
    <3>1. Cardinality(R \ (left \ {e})) = Cardinality(R \ left)
      BY <2>2
    <3> HIDE DEF R, left
    <3> QED  BY <2>1, <2>3, <3>1
  <2> QED  BY <2>4
<1> QED  BY <1>2, <1>3

\* What is spent on one node raises the total.
LEMMA TotalRaised ==
  ASSUME schema \in Schemas, DOMAIN memo["proof"] \subseteq DOMAIN schema, schema' = schema,
         DOMAIN memo'["proof"] = DOMAIN memo["proof"], NEW key \in DOMAIN memo["proof"],
         NEW c \in Nat,
         \A n \in DOMAIN memo["proof"] : Spent(n)' = IF n = key THEN Spent(n) + c ELSE Spent(n)
  PROVE  Total' = Total + c
<1> DEFINE K == DOMAIN memo["proof"]
           f == [n \in K |-> Spent(n)]
           g == [n \in K |-> Spent(n)']
<1>1. IsFiniteSet(K) /\ Total = SumFunctionOnSet(f, K) /\ \A n \in K : Spent(n) \in Nat
  BY TotalIs
<1>2. Total' = SumFunctionOnSet(g, K)
  <2>1. Total' = SumFunction(g)
    BY DEF Total
  <2> QED  BY <2>1 DEF SumFunction
<1>3. \A n \in K : f[n] \in Nat /\ g[n] = IF n = key THEN f[n] + c ELSE f[n]
  BY <1>1
<1> HIDE DEF K, f, g
<1>4. key \in K
  BY DEF K
<1>5. SumFunctionOnSet(g, K) = SumFunctionOnSet(f, K) + c
  BY <1>1, <1>3, <1>4, SumRaised
<1> QED  BY <1>1, <1>2, <1>5

\* A node met adds itself.
LEMMA TotalWith ==
  ASSUME schema \in Schemas, DOMAIN memo["proof"] \subseteq DOMAIN schema, schema' = schema,
         NEW new, new \notin DOMAIN memo["proof"],
         DOMAIN memo'["proof"] = DOMAIN memo["proof"] \cup {new}, Spent(new)' = 1,
         NEW key \in DOMAIN memo["proof"], NEW c \in Nat,
         \A n \in DOMAIN memo["proof"] : Spent(n)' = IF n = key THEN Spent(n) + c ELSE Spent(n)
  PROVE  Total' = Total + c + 1
<1> DEFINE K == DOMAIN memo["proof"]
           f == [n \in K |-> Spent(n)]
           g == [n \in K \cup {new} |-> Spent(n)']
<1>1. /\ IsFiniteSet(K) /\ Total = SumFunctionOnSet(f, K) /\ \A n \in K : Spent(n) \in Nat
      /\ Total \in Nat
  BY TotalIs
<1>2. Total' = SumFunctionOnSet(g, K \cup {new})
  <2>1. Total' = SumFunction(g)
    BY DEF Total
  <2> QED  BY <2>1 DEF SumFunction
<1>3. /\ \A n \in K : f[n] \in Nat /\ g[n] = IF n = key THEN f[n] + c ELSE f[n]
      /\ g[new] = 1
  BY <1>1
<1>4. new \notin K /\ key \in K
  OBVIOUS
<1> HIDE DEF K, f, g
<1>5. \A n \in K \cup {new} : g[n] \in Nat
  BY <1>3
<1>6. SumFunctionOnSet(g, K \cup {new}) = SumFunctionOnSet(g, K) + g[new]
  <2>1. IsFiniteSet(K) /\ new \notin K
    BY <1>1, <1>4
  <2> QED  BY ONLY <1>5, <2>1, SumWith
<1>7. SumFunctionOnSet(g, K) = SumFunctionOnSet(f, K) + c
  <2>1. /\ IsFiniteSet(K) /\ key \in K /\ c \in Nat /\ \A n \in K : f[n] \in Nat
        /\ \A n \in K : g[n] = IF n = key THEN f[n] + c ELSE f[n]
    BY <1>1, <1>3, <1>4
  <2> QED  BY ONLY <2>1, SumRaised
<1> QED  BY <1>1, <1>2, <1>3, <1>6, <1>7

\* The child met is one the proof has to look at.
LEMMA TopReaches ==
  ASSUME WalkInv, ProofInv, SpentInv, pass = "proof", stack # <<>>
  PROVE  /\ Top.key \in Reachable /\ Top.key \in DOMAIN schema
         /\ \A e \in Top.left : e \in ProofEdges(Top.key) /\ e.to \in Reachable
<1>1. /\ Top.key \in Reachable /\ Top.key \in DOMAIN schema /\ schema \in Schemas
      /\ Top.left \subseteq ProofEdges(Top.key)
  BY TopFrame DEF SpentInv, ProofInv, EdgesOf, WalkInv, Shape
<1>2. Top.key # NoNode
  BY <1>1, SchemasAssumption
<1>3. \A e \in ProofEdges(Top.key) : e.to \in Targets(Reachable)
  BY <1>1, <1>2 DEF Targets
<1> QED  BY <1>1, <1>3, ReachClosed

\* The node on top pays for the edge it follows, and no other does.
LEMMA PaidSpent ==
  ASSUME WalkInv, WalkInv', ProofInv, pass = "proof", pass' = "proof", schema' = schema,
         stack # <<>>, NEW e \in Top.left, NEW m \in Nat, m = Len(stack), Len(stack') \in Nat,
         m <= Len(stack'), \A i \in 1..(m - 1) : stack'[i] = stack[i],
         stack'[m].key = stack[m].key, stack'[m].left = stack[m].left \ {e},
         NEW n \in DOMAIN schema, Proved(n)' = Proved(n),
         \A i \in (m + 1)..Len(stack') : stack'[i].key # n
  PROVE  Spent(n)' = IF n = stack[m].key THEN Spent(n) + RefOps(e) ELSE Spent(n)
<1>1. Top = stack[m] /\ m \in 1..m /\ m \in 1..Len(stack') /\ schema \in Schemas
  BY TopFrame DEF WalkInv, Shape
<1>2. /\ \A i \in 1..m : stack[i].key = n => Followed(n) = RefEdges(n) \ stack[i].left
      /\ (\A i \in 1..m : stack[i].key # n) => Followed(n) = RefEdges(n)
  BY FollowedIs
<1>3. /\ \A i \in 1..Len(stack') : stack'[i].key = n => Followed(n)' = RefEdges(n) \ stack'[i].left
      /\ (\A i \in 1..Len(stack') : stack'[i].key # n) => Followed(n)' = RefEdges(n)
  BY FollowedNext
<1>4. LiteralOps(n)' = LiteralOps(n) /\ LiteralOps(n) \in Nat /\ Cardinality(Followed(n)) \in Nat
  BY <1>1, SpentKept, SpentBound
<1>5. \A i \in 1..Len(stack') : i \in 1..(m - 1) \/ i = m \/ i \in (m + 1)..Len(stack')
  BY <1>1
<1>6. CASE n = stack[m].key
  <2>1. Followed(n) = RefEdges(n) \ stack[m].left
    BY <1>1, <1>2, <1>6
  <2>2. Followed(n)' = RefEdges(n) \ (stack[m].left \ {e})
    BY <1>1, <1>3, <1>6
  <2>3. Cardinality(Followed(n)') = Cardinality(Followed(n)) + RefOps(e) /\ RefOps(e) \in Nat
    <3>1. m \in 1..Len(stack) /\ e \in stack[m].left
      BY <1>1
    <3>2. /\ Cardinality(RefEdges(stack[m].key) \ (stack[m].left \ {e}))
               = Cardinality(RefEdges(stack[m].key) \ stack[m].left) + RefOps(e)
          /\ RefOps(e) \in Nat
      BY <3>1, FollowsOne
    <3>3. PICK key : key = stack[m].key
      OBVIOUS
    <3>4. n = key
      BY <1>6, <3>3
    <3>5. Cardinality(RefEdges(key) \ (stack[m].left \ {e}))
            = Cardinality(RefEdges(key) \ stack[m].left) + RefOps(e)
      BY <3>2, <3>3
    <3>6. Cardinality(RefEdges(n) \ (stack[m].left \ {e}))
            = Cardinality(RefEdges(n) \ stack[m].left) + RefOps(e)
      BY <3>4, <3>5
    <3>7. PICK before : before = Followed(n)
      OBVIOUS
    <3>8. PICK after : after = Followed(n)'
      OBVIOUS
    <3>9. before = RefEdges(n) \ stack[m].left
      BY ONLY <2>1, <3>7
    <3>10. after = RefEdges(n) \ (stack[m].left \ {e})
      BY ONLY <2>2, <3>8
    <3>11. Cardinality(after) = Cardinality(before) + RefOps(e)
      BY ONLY <3>6, <3>9, <3>10
    <3>12. Cardinality(Followed(n)') = Cardinality(Followed(n)) + RefOps(e)
      BY ONLY <3>7, <3>8, <3>11
    <3> QED  BY ONLY <3>2, <3>12
  <2>4. Spent(n)' = 1 + Cardinality(Followed(n)') + (IF Proved(n) THEN LiteralOps(n) ELSE 0)
    BY <1>4 DEF Spent
  <2>5. Spent(n) = 1 + Cardinality(Followed(n)) + (IF Proved(n) THEN LiteralOps(n) ELSE 0)
    BY DEF Spent
  <2>6. PICK l \in Nat : l = IF Proved(n) THEN LiteralOps(n) ELSE 0
    BY <1>4
  <2>7. Spent(n)' = Spent(n) + RefOps(e)
    <3>1. PICK c \in Nat : c = Cardinality(Followed(n))
      BY ONLY <1>4
    <3>2. PICK r \in Nat : r = RefOps(e)
      BY ONLY <2>3
    <3>3. Cardinality(Followed(n)') = c + r
      BY ONLY <2>3, <3>1, <3>2
    <3>4. Spent(n) = 1 + c + l
      BY ONLY <2>5, <2>6, <3>1
    <3>5. Spent(n)' = 1 + (c + r) + l
      BY ONLY <2>4, <2>6, <3>3
    <3>6. 1 + (c + r) + l = (1 + c + l) + r
      BY ONLY <2>6, <3>1, <3>2
    <3> QED  BY ONLY <3>2, <3>4, <3>5, <3>6
  <2> QED  BY <1>6, <2>7
<1>7. CASE n # stack[m].key
  <2>1. Followed(n)' = Followed(n)
    <3>1. CASE \E i \in 1..(m - 1) : stack[i].key = n
      <4>1. PICK i \in 1..(m - 1) : stack[i].key = n
        BY <3>1
      <4>2. i \in 1..m /\ i \in 1..Len(stack') /\ stack'[i] = stack[i]
        BY <1>1, <4>1
      <4>3. Followed(n) = RefEdges(n) \ stack[i].left
        BY <1>2, <4>1, <4>2
      <4>4. Followed(n)' = RefEdges(n) \ stack'[i].left
        BY <1>3, <4>1, <4>2
      <4> QED  BY <4>2, <4>3, <4>4
    <3>2. CASE ~\E i \in 1..(m - 1) : stack[i].key = n
      <4>1. \A i \in 1..m : i = m \/ i \in 1..(m - 1)
        BY <1>1
      <4>2. \A i \in 1..m : stack[i].key # n
        BY <1>7, <3>2, <4>1
      <4>3. \A i \in 1..Len(stack') : stack'[i].key # n
        BY <1>5, <1>7, <3>2
      <4> QED  BY <1>2, <1>3, <4>2, <4>3
    <3> QED  BY <3>1, <3>2
  <2> QED  BY <1>4, <1>7, <2>1 DEF Spent
<1> QED  BY <1>6, <1>7

\* A child met first costs the edge to it and itself.
LEMMA DescendSpent ==
  ASSUME WalkInv, ProofInv, SpentInv, pass = "proof", stack # <<>>, NEW e \in Top.left,
         Descend(e), WalkInv', ProofInv'
  PROVE  SpentInv'
<1> DEFINE m == Len(stack)
           top == stack[m].key
           new == e.to
<1>1. /\ m \in Nat /\ m >= 1 /\ Len(stack') = m + 1
      /\ \A i \in 1..(m - 1) : stack'[i] = stack[i]
      /\ stack'[m].key = top /\ stack'[m].left = stack[m].left \ {e}
      /\ stack'[m + 1].key = new /\ stack'[m + 1].left = EdgesOf(new)
      /\ new \notin DOMAIN memo["proof"] /\ Store(new, Visiting)
      /\ schema' = schema /\ pass' = pass /\ verdict' = verdict
      /\ ops' = ops + RefOps(e) + NodeOps
  BY DescendFrames
<1>2. /\ Top = stack[m] /\ verdict = "none" /\ top \in DOMAIN memo["proof"]
      /\ schema \in Schemas /\ m \in 1..m /\ m + 1 \in 1..(m + 1)
  BY <1>1, TopFrame DEF WalkInv, Shape
<1>3. /\ DOMAIN memo'["proof"] = DOMAIN memo["proof"] \cup {new}
      /\ memo'["proof"][new] = Visiting
      /\ \A k \in DOMAIN memo["proof"] : k # new => memo'["proof"][k] = memo["proof"][k]
  BY <1>1, Stored DEF WalkInv, Shape, Passes
<1>4. Reachable' = Reachable /\ new \in Reachable /\ new \in DOMAIN schema
  <2>1. new \in Reachable
    BY TopReaches
  <2>2. new \in DOMAIN schema'
    BY <1>3 DEF ProofInv
  <2> QED  BY <1>1, <2>1, <2>2, SpentKept
<1>5. \A n : Proved(n)' = Proved(n)
  BY <1>1, <1>3 DEF Proved, Visiting
<1>6. ASSUME NEW n \in DOMAIN memo["proof"]
      PROVE  Spent(n)' = IF n = top THEN Spent(n) + RefOps(e) ELSE Spent(n)
  <2>1. n # new /\ n \in DOMAIN schema
    BY <1>1 DEF ProofInv
  <2>2. \A i \in (m + 1)..Len(stack') : stack'[i].key # n
    BY <1>1, <2>1
  <2>3. m <= Len(stack') /\ Len(stack') \in Nat
    BY <1>1
  <2> QED  BY <1>1, <1>5, <2>1, <2>2, <2>3, PaidSpent
<1>7. Spent(new)' = 1
  <2>1. Followed(new)' = RefEdges(new) \ EdgesOf(new)
    BY <1>1, <1>2, FollowedNext
  <2>2. RefEdges(new) \subseteq EdgesOf(new)
    BY <1>2, <1>4, OneReference DEF EdgesOf
  <2>3. Followed(new)' = {} /\ ~Proved(new)'
    BY <1>3, <2>1, <2>2 DEF Proved, Visiting
  <2> QED  BY <2>3, FS_EmptySet DEF Spent
<1>8. RefOps(e) \in Nat /\ NodeOps = 1
  BY DEF RefOps, NodeOps
<1>9. Total' = Total + RefOps(e) + 1
  <2>1. DOMAIN memo["proof"] \subseteq DOMAIN schema
    BY DEF ProofInv
  <2>2. /\ schema \in Schemas /\ schema' = schema /\ new \notin DOMAIN memo["proof"]
        /\ DOMAIN memo'["proof"] = DOMAIN memo["proof"] \cup {new}
        /\ top \in DOMAIN memo["proof"] /\ RefOps(e) \in Nat
    BY <1>1, <1>2, <1>3, <1>8
  <2>3. PICK c \in Nat : c = RefOps(e)
    BY <1>8
  <2>4. PICK t : t = top
    OBVIOUS
  <2>5. \A n \in DOMAIN memo["proof"] : Spent(n)' = IF n = t THEN Spent(n) + c ELSE Spent(n)
    BY <1>6, <2>3, <2>4
  <2>6. Spent(new)' = 1 /\ t \in DOMAIN memo["proof"]
    BY <1>7, <2>2, <2>4
  <2> HIDE DEF top, new
  <2>7. Total' = Total + c + 1
    BY <2>1, <2>2, <2>5, <2>6, TotalWith, SMTT(60)
  <2> QED  BY <2>3, <2>7
<1>10. ops = Total
  BY <1>2 DEF SpentInv
<1> QED  BY <1>1, <1>3, <1>4, <1>8, <1>9, <1>10 DEF SpentInv

\* A child met again costs the edge alone.
LEMMA RevisitSpent ==
  ASSUME WalkInv, ProofInv, SpentInv, pass = "proof", stack # <<>>, NEW e \in Top.left,
         Revisit(e), WalkInv'
  PROVE  SpentInv'
<1> DEFINE m == Len(stack)
           top == stack[m].key
<1>1. /\ m \in Nat /\ m >= 1 /\ Len(stack') = m
      /\ \A i \in 1..(m - 1) : stack'[i] = stack[i]
      /\ stack'[m].key = top /\ stack'[m].left = stack[m].left \ {e}
      /\ schema' = schema /\ pass' = pass /\ verdict' = verdict /\ memo' = memo
      /\ ops' = ops + RefOps(e)
  BY RevisitFrames DEF LeftAfter
<1>2. /\ Top = stack[m] /\ verdict = "none" /\ top \in DOMAIN memo["proof"]
      /\ schema \in Schemas /\ DOMAIN memo["proof"] \subseteq DOMAIN schema
  BY <1>1, TopFrame DEF WalkInv, Shape, ProofInv
<1>3. \A n : Proved(n)' = Proved(n)
  BY <1>1 DEF Proved
<1>4. ASSUME NEW n \in DOMAIN memo["proof"]
      PROVE  Spent(n)' = IF n = top THEN Spent(n) + RefOps(e) ELSE Spent(n)
  <2>1. \A i \in (m + 1)..Len(stack') : stack'[i].key # n
    BY <1>1
  <2>2. m <= Len(stack') /\ Len(stack') \in Nat /\ n \in DOMAIN schema
    BY <1>1, <1>2
  <2> QED  BY <1>1, <1>3, <2>1, <2>2, PaidSpent
<1>5. RefOps(e) \in Nat
  BY DEF RefOps
<1>6. Total' = Total + RefOps(e)
  <2> HIDE DEF top
  <2> QED  BY <1>1, <1>2, <1>4, <1>5, TotalRaised
<1>7. ops = Total /\ Reachable' = Reachable
  BY <1>1, <1>2, SpentKept DEF SpentInv
<1> QED  BY <1>1, <1>6, <1>7 DEF SpentInv

\* A node that is proved has followed all its edges and pays for its literal.
LEMMA ReturnedSpent ==
  ASSUME WalkInv, ProofInv, SpentInv, pass = "proof", stack # <<>>, Finished,
         \A n \in DOMAIN memo["proof"] : Followed(n)' = Followed(n)
  PROVE  SpentInv'
<1>1. PICK key : key = Top.key
  OBVIOUS
<1>2. /\ key \in DOMAIN memo["proof"] /\ ~Proved(key) /\ verdict = "none" /\ schema \in Schemas
      /\ DOMAIN memo["proof"] \subseteq DOMAIN schema /\ memo["proof"][key].state # "done"
  BY <1>1, TopFrame DEF WalkInv, Shape, ProofInv, Proved
<1>3. /\ Store(key, Returned) /\ schema' = schema /\ ops' = ops + LiteralOps(key)
      /\ Returned.state = "done"
  BY <1>1, ReturnedWork DEF Finished
<1>4. /\ DOMAIN memo'["proof"] = DOMAIN memo["proof"] /\ memo'["proof"][key].state = "done"
      /\ \A n \in DOMAIN memo["proof"] : n # key => memo'["proof"][n] = memo["proof"][n]
  <2>1. DOMAIN memo = Passes /\ pass \in Passes /\ pass = "proof"
    BY DEF WalkInv, Shape, Passes
  <2>2. PICK r : r = Returned
    OBVIOUS
  <2>3. Store(key, r)
    BY ONLY <1>3, <2>2
  <2>4. /\ DOMAIN memo'["proof"] = DOMAIN memo["proof"] \cup {key}
        /\ memo'["proof"][key] = r
        /\ \A n \in DOMAIN memo["proof"] : n # key => memo'["proof"][n] = memo["proof"][n]
    BY ONLY <2>1, <2>3, Stored
  <2> QED  BY ONLY <1>2, <1>3, <2>2, <2>4
<1>5. PICK c \in Nat : c = LiteralOps(key)
  BY <1>2, SpentBound
<1>6. ASSUME NEW n \in DOMAIN memo["proof"]
      PROVE  Spent(n)' = IF n = key THEN Spent(n) + c ELSE Spent(n)
  <2>1. LiteralOps(n)' = LiteralOps(n) /\ Followed(n)' = Followed(n)
    BY <1>3, SpentKept
  <2>2. Cardinality(Followed(n)) \in Nat
    BY <1>2, SpentBound
  <2>3. CASE n = key
    <3>1. Proved(n)' /\ ~Proved(n)
      BY <1>2, <1>4, <2>3 DEF Proved
    <3> QED  BY <1>5, <2>1, <2>2, <2>3, <3>1 DEF Spent
  <2>4. CASE n # key
    <3>1. Proved(n)' = Proved(n)
      BY <1>4, <2>4 DEF Proved
    <3> QED  BY <2>1, <2>4, <3>1 DEF Spent
  <2> QED  BY <2>3, <2>4
<1>7. Total' = Total + c
  BY <1>2, <1>3, <1>4, <1>6, TotalRaised
<1>8. ops = Total /\ Reachable' = Reachable
  BY <1>2, <1>3, SpentKept DEF SpentInv
<1>9. ops' = Total' /\ DOMAIN memo'["proof"] \subseteq Reachable'
  BY <1>3, <1>4, <1>5, <1>7, <1>8 DEF SpentInv
<1> QED  BY <1>9 DEF SpentInv

\* A node that returns to a caller leaves no other edge followed.
LEMMA FinishSpent ==
  ASSUME WalkInv, ProofInv, SpentInv, pass = "proof", Finish, WalkInv'
  PROVE  SpentInv'
<1> DEFINE m == Len(stack)
<1>1. /\ m \in Nat /\ m > 1 /\ Len(stack') = m - 1 /\ stack # <<>> /\ Finished
      /\ \A i \in 1..(m - 2) : stack'[i] = stack[i]
      /\ stack'[m - 1].key = stack[m - 1].key /\ stack'[m - 1].left = stack[m - 1].left
      /\ schema' = schema /\ pass' = pass
  BY FinishFrames DEF LeftAfter
<1>2. stack[m].left = {} /\ m \in 1..m
  BY <1>1, TopFrame DEF Finished
<1>3. \A i \in 1..(m - 1) : stack'[i].key = stack[i].key /\ stack'[i].left = stack[i].left
  BY <1>1
<1>4. ASSUME NEW n \in DOMAIN memo["proof"]
      PROVE  Followed(n)' = Followed(n)
  <2>1. /\ \A i \in 1..Len(stack) : stack[i].key = n => Followed(n) = RefEdges(n) \ stack[i].left
        /\ (\A i \in 1..Len(stack) : stack[i].key # n) => Followed(n) = RefEdges(n)
    BY FollowedIs
  <2>2. /\ \A i \in 1..(m - 1) : stack[i].key = n => Followed(n)' = RefEdges(n) \ stack[i].left
        /\ (\A i \in 1..(m - 1) : stack[i].key # n) => Followed(n)' = RefEdges(n)
    <3>1. pass' = "proof" /\ Len(stack') = m - 1 /\ schema' = schema
      BY <1>1
    <3>2. /\ \A i \in 1..(m - 1) :
                stack'[i].key = n => Followed(n)' = RefEdges(n) \ stack'[i].left
          /\ (\A i \in 1..(m - 1) : stack'[i].key # n) => Followed(n)' = RefEdges(n)
      BY <3>1, FollowedNext
    <3> QED  BY <1>3, <3>2
  <2>3. \A i \in 1..m : i \in 1..(m - 1) \/ i = m
    BY <1>1
  <2>4. CASE \E i \in 1..(m - 1) : stack[i].key = n
    <3>1. PICK i \in 1..(m - 1) : stack[i].key = n
      BY <2>4
    <3>2. i \in 1..Len(stack)
      BY <1>1
    <3> QED  BY <2>1, <2>2, <3>1, <3>2
  <2>5. CASE ~\E i \in 1..(m - 1) : stack[i].key = n
    <3>1. Followed(n)' = RefEdges(n)
      BY <2>2, <2>5
    <3>2. CASE stack[m].key = n
      <4>1. Followed(n) = RefEdges(n) \ stack[m].left
        BY <1>2, <2>1, <3>2
      <4> QED  BY <1>2, <3>1, <4>1
    <3>3. CASE stack[m].key # n
      <4>1. \A i \in 1..Len(stack) : stack[i].key # n
        BY <2>3, <2>5, <3>3
      <4> QED  BY <2>1, <3>1, <4>1
    <3> QED  BY <3>2, <3>3
  <2> QED  BY <2>4, <2>5
<1> QED  BY <1>1, <1>4, ReturnedSpent

\* Nothing is left to follow once the proof is over.
LEMMA AllFollowed ==
  ASSUME schema' = schema, pass' # "proof"
  PROVE  \A n : Followed(n)' = RefEdges(n)
BY SpentKept DEF Followed

\* When the root returns every edge has been followed.
LEMMA FinishPassSpent ==
  ASSUME WalkInv, ProofInv, SpentInv, pass = "proof", FinishPass
  PROVE  SpentInv'
<1>1. /\ Len(stack) = 1 /\ Finished /\ stack # <<>> /\ schema' = schema /\ pass' # "proof"
      /\ stack[1].left = {}
  BY TopFrame DEF FinishPass, Finished
<1>2. ASSUME NEW n \in DOMAIN memo["proof"]
      PROVE  Followed(n)' = Followed(n)
  <2>1. Followed(n)' = RefEdges(n)
    BY <1>1, AllFollowed
  <2>2. \A i \in 1..Len(stack) : stack[i].left = {}
    BY <1>1
  <2>3. Followed(n) = RefEdges(n)
    BY <2>2 DEF Followed
  <2> QED  BY <2>1, <2>3
<1> QED  BY <1>1, <1>2, ReturnedSpent

\* A step that changes neither what is proved nor where the proof stands.
LEMMA SameSpent ==
  ASSUME SpentInv, schema' = schema, memo'["proof"] = memo["proof"], ops' = ops,
         \A n : Followed(n)' = Followed(n),
         pass' # "proof" \/ verdict' = "none" => pass # "proof" \/ verdict = "none"
  PROVE  SpentInv'
<1>1. \A n : Proved(n)' = Proved(n)
  BY DEF Proved
<1>2. \A n : Spent(n)' = Spent(n)
  BY <1>1, SpentKept DEF Spent
<1>3. Total' = Total
  BY <1>2 DEF Total
<1> QED  BY <1>3, SpentKept DEF SpentInv

\* The root is the first node met.
LEMMA BeginSpent ==
  ASSUME WalkInv, ProofInv, SpentInv, pass = "proof", Begin, ~Malformed(Root), WalkInv', ProofInv'
  PROVE  SpentInv'
<1>1. Call(Root, <<>>) /\ Memo = Empty /\ ops' = ops + 1 /\ ops = 0
  BY DEF Begin, RootKey, NodeOps, ProofInv
<1>2. /\ Store(Root, Visiting) /\ stack' = Append(<<>>, Frame(Root)) /\ schema' = schema
      /\ pass' = pass
  BY <1>1 DEF Call
<1>3. DOMAIN memo["proof"] = {}
  BY <1>1 DEF Memo, Empty
<1>4. DOMAIN memo'["proof"] = {Root} /\ memo'["proof"][Root] = Visiting
  BY <1>2, <1>3, Stored DEF WalkInv, Shape, Passes
<1>5. Len(stack') = 1 /\ stack'[1].key = Root /\ stack'[1].left = ProofEdges(Root)
  BY <1>2 DEF Frame, EdgesOf
<1>6. Root \in DOMAIN schema /\ schema \in Schemas
  BY SchemasAssumption DEF WalkInv, Shape
<1>7. Spent(Root)' = 1
  <2>1. pass' = "proof" /\ 1 \in 1..Len(stack') /\ schema' = schema
    BY <1>2, <1>5
  <2>2. Followed(Root)' = RefEdges(Root) \ ProofEdges(Root)
    BY <1>5, <2>1, FollowedNext
  <2>3. RefEdges(Root) \subseteq ProofEdges(Root)
    BY <1>6, OneReference
  <2>4. Followed(Root)' = {} /\ ~Proved(Root)'
    BY <1>4, <2>2, <2>3 DEF Proved, Visiting
  <2> QED  BY <2>4, FS_EmptySet DEF Spent
<1>8. Total' = 1
  <2> DEFINE g == [n \in {Root} |-> Spent(n)']
             K == {Root}
  <2>1. Total' = SumFunction(g)
    BY <1>4 DEF Total
  <2>2. Total' = SumFunctionOnSet(g, K)
    BY <2>1 DEF SumFunction
  <2>3. IsFiniteSet(K) /\ Root \in K /\ g[Root] = 1 /\ K \ {Root} = {} /\ \A x \in K : g[x] \in Nat
    BY <1>7, FS_Singleton
  <2> HIDE DEF g, K
  <2>4. SumFunctionOnSet(g, K) = g[Root] + SumFunctionOnSet(g, K \ {Root})
    BY <2>3, SumSplit
  <2>5. SumFunctionOnSet(g, K \ {Root}) = 0
    <3>1. SumFunctionOnSet(g, {}) = 0
      BY SumEmpty
    <3> QED  BY <2>3, <3>1
  <2>6. SumFunctionOnSet(g, K) = 1
    BY ONLY <2>3, <2>4, <2>5
  <2> QED  BY <2>2, <2>6
<1>9. Root \in Reachable'
  BY <1>2, <1>6, SpentKept, ReachClosed
<1>10. ops' = Total' /\ DOMAIN memo'["proof"] \subseteq Reachable'
  BY <1>1, <1>4, <1>8, <1>9
<1> QED  BY <1>10 DEF SpentInv

\* Every step keeps the count of operations.
LEMMA SpentStep == WalkInv /\ ProofInv /\ SpentInv /\ [Next]_vars => SpentInv'
<1> SUFFICES ASSUME WalkInv, ProofInv, SpentInv, [Next]_vars PROVE SpentInv'
  OBVIOUS
<1>1. WalkInv' /\ ProofInv'
  BY WalkStep, ProofStep
<1>2. CASE pass # "proof"
  <2>1. /\ schema' = schema /\ pass' # "proof" /\ memo'["proof"] = memo["proof"] /\ ops' = ops
    BY <1>2, EstimateStep DEF vars
  <2>2. \A n : Followed(n)' = RefEdges(n)
    BY <2>1, AllFollowed
  <2>3. \A n : Followed(n) = RefEdges(n)
    BY <1>2 DEF Followed
  <2> QED  BY <1>2, <2>1, <2>2, <2>3, SameSpent
<1>3. CASE pass = "proof"
  <2>1. ASSUME Conclude("rejected") PROVE SpentInv'
    <3>1. /\ schema' = schema /\ pass' = pass /\ memo' = memo /\ verdict' = "rejected"
      BY <2>1 DEF Conclude
    <3> QED  BY <1>3, <3>1, SpentKept DEF SpentInv
  <2>2. CASE Begin
    <3>1. CASE Malformed(Root)
      BY <1>3, <2>1, <2>2, <3>1 DEF Begin
    <3> QED  BY <1>1, <1>3, <2>2, <3>1, BeginSpent
  <2>3. CASE Visit
    <3>1. stack # <<>>
      BY <2>3 DEF Visit
    <3>2. PICK e \in Top.left : Descend(e) \/ Revisit(e) \/ Fail(e)
      BY <2>3 DEF Visit, NextEdges
    <3>3. CASE Fail(e)
      BY <1>3, <2>1, <3>3 DEF Fail
    <3> QED  BY <1>1, <1>3, <3>1, <3>2, <3>3, DescendSpent, RevisitSpent
  <2>4. CASE Unproved
    BY <2>1, <2>4 DEF Unproved
  <2>5. CASE Finish
    BY <1>1, <1>3, <2>5, FinishSpent
  <2>6. CASE FinishPass
    BY <1>3, <2>6, FinishPassSpent
  <2>7. CASE ValidateFixture
    BY <1>3, <2>7 DEF ValidateFixture
  <2>8. CASE UNCHANGED vars
    <3>1. UNCHANGED <<schema, pass, memo, stack, ops, verdict>>
      BY <2>8 DEF vars
    <3>2. \A n : Followed(n)' = Followed(n)
      BY <3>1, SpentKept DEF Followed
    <3> QED  BY <3>1, <3>2, SameSpent
  <2> QED  BY <2>2, <2>3, <2>4, <2>5, <2>6, <2>7, <2>8 DEF Next
<1> QED  BY <1>2, <1>3

\* No operation has been spent.
LEMMA SpentInit == Init => SpentInv
<1> SUFFICES ASSUME Init PROVE SpentInv
  OBVIOUS
<1>1. DOMAIN memo["proof"] = {} /\ ops = 0
  BY DEF Init, Empty
<1>2. Total = SumFunction([n \in {} |-> Spent(n)])
  BY <1>1 DEF Total
<1>3. Total = 0
  <2> DEFINE g == [n \in {} |-> Spent(n)]
  <2>1. Total = SumFunctionOnSet(g, {})
    BY <1>2 DEF SumFunction
  <2> HIDE DEF g
  <2> QED  BY <2>1, SumEmpty
<1> QED  BY <1>1, <1>3 DEF SpentInv

-----------------------------------------------------------------------------
(* The proof accepts what is portable.                                       *)

\* A child in a list of alternatives or a reference counts for the admission.
LEMMA AdmissionTakes ==
  ASSUME NEW n, schema[n].form = "object",
         \E p \in Parts(n) : p \in {"closed", "excluded"}
  PROVE  Admission(n) # "open"
<1> DEFINE mode(c) == memo["proof"][c].mode
           modes(k) == {mode(c) : c \in ChildrenOf(n, k)}
           union(k) == IF k \in DOMAIN schema[n].kids THEN {Widest(modes(k))} ELSE {}
           all == {OwnMode(n), LiteralMode(n)} \cup {mode(e.to) : e \in RefEdges(n)}
                    \cup modes("allOf") \cup union("anyOf") \cup union("oneOf")
<1>1. Admission(n) = Narrowest(all)
  BY DEF Admission
<1>2. Parts(n) \subseteq all
  BY DEF Parts
<1>3. "closed" \in all \/ "excluded" \in all
  BY <1>2
<1> HIDE DEF all
<1> QED  BY <1>1, <1>3 DEF Narrowest

\* The modes of a node's parts, its children proved.
LEMMA BoundedAdmits ==
  ASSUME schema \in Schemas, NEW n \in DOMAIN schema, ~Malformed(n),
         \A e \in ProofEdges(n) : memo["proof"][e.to].mode \in {"closed", "excluded"}
  PROVE  Admission(n) # "open" <=> Bounded(n)
<1>1. CASE schema[n].form # "object"
  <2>1. schema[n].form \in {"false", "policy", "const"}
    BY <1>1, SchemasAssumption DEF Malformed
  <2> QED  BY <2>1 DEF Bounded, Admission
<1>2. CASE schema[n].form = "object"
  <2>1. \A e \in RefEdges(n) : e \in ProofEdges(n)
    BY OneReference
  <2>2. ASSUME NEW k \in {"allOf", "anyOf", "oneOf"}, NEW c \in ChildrenOf(n, k)
        PROVE  memo["proof"][c].mode \in {"closed", "excluded"}
    <3>1. PICK i \in DOMAIN KidsOf(n, k) : KidsOf(n, k)[i] = c
      BY <2>2 DEF ChildrenOf
    <3>2. PICK e \in ProofEdges(n) : e.to = c
      BY <1>2, <3>1, ProofChild
    <3> QED  BY <3>2
  <2>3. ASSUME Bounded(n)
        PROVE  \E p \in Parts(n) : p \in {"closed", "excluded"}
    <3>1. CASE schema[n].types # {}
      BY <3>1 DEF Parts, OwnMode
    <3>2. CASE schema[n].lit = "other"
      BY <3>2 DEF Parts, LiteralMode
    <3>3. CASE schema[n].ref # NoRef
      <4>1. PICK e \in RefEdges(n) : TRUE
        BY <3>3 DEF RefEdges
      <4>2. memo["proof"][e.to].mode \in Parts(n)
        BY <4>1 DEF Parts
      <4> QED  BY <2>1, <4>1, <4>2
    <3>4. ASSUME NEW k \in {"allOf", "anyOf", "oneOf"}, k \in DOMAIN schema[n].kids
          PROVE  \E p \in Parts(n) : p \in {"closed", "excluded"}
      <4>1. PICK c \in ChildrenOf(n, k) : TRUE
        BY <3>4 DEF Malformed, ListLoop
      <4>2. CASE k = "allOf"
        <5>1. memo["proof"][c].mode \in Parts(n)
          BY <4>1, <4>2 DEF Parts
        <5> QED  BY <2>2, <4>1, <5>1
      <4>3. CASE k \in {"anyOf", "oneOf"}
        <5> DEFINE p == Widest({memo["proof"][d].mode : d \in ChildrenOf(n, k)})
        <5>1. p \in Parts(n)
          BY <3>4, <4>3 DEF Parts
        <5>2. "open" \notin {memo["proof"][d].mode : d \in ChildrenOf(n, k)}
          BY <2>2, <3>4
        <5>3. p \in {"closed", "excluded"}
          BY <5>2 DEF Widest
        <5> QED  BY <5>1, <5>3
      <4> QED  BY <3>4, <4>2, <4>3
    <3> QED  BY <1>2, <2>3, <3>1, <3>2, <3>3, <3>4 DEF Bounded
  <2>4. ASSUME Admission(n) # "open" PROVE Bounded(n)
    <3>1. PICK p \in Parts(n) : p \in {"closed", "excluded"}
      BY <1>2, <2>4, AdmissionParts
    <3>2. CASE p \in {OwnMode(n), LiteralMode(n)}
      BY <3>1, <3>2 DEF OwnMode, LiteralMode, Bounded
    <3>3. CASE \E e \in RefEdges(n) : p = memo["proof"][e.to].mode
      BY <3>3 DEF RefEdges, Bounded
    <3>4. CASE \E c \in ChildrenOf(n, "allOf") : p = memo["proof"][c].mode
      BY <3>4 DEF ChildrenOf, KidsOf, Empty, Bounded
    <3>5. CASE \E k \in DOMAIN schema[n].kids \cap {"anyOf", "oneOf"} :
                 p = Widest({memo["proof"][c].mode : c \in ChildrenOf(n, k)})
      BY <3>5 DEF Bounded
    <3> QED  BY <3>1, <3>2, <3>3, <3>4, <3>5 DEF Parts
  <2> QED  BY <1>2, <2>3, <2>4, AdmissionTakes
<1> QED  BY <1>1, <1>2

\* What is proved does not leave objects open.
LEMMA ProvedModes ==
  ASSUME ProofInv, NEW n, Proved(n)
  PROVE  memo["proof"][n].mode \in {"closed", "excluded"}
<1>1. Settled(n)
  BY DEF ProofInv, Proved
<1> QED  BY <1>1, AdmissionParts DEF Settled

\* What the definition of portable sums.
Dues == [n \in Reachable |-> 1 + Cardinality(RefEdges(n)) + LiteralOps(n)]

\* They are finitely many, and each is the cost of a node.
LEMMA DuesAre ==
  ASSUME schema \in Schemas
  PROVE  /\ IsFiniteSet(Reachable)
         /\ SumFunction(Dues) = SumFunctionOnSet(Dues, Reachable)
         /\ \A n \in Reachable : n # NoNode => n \in DOMAIN schema /\ Dues[n] = Cost(n)
<1>1. Reachable \subseteq All /\ IsFiniteSet(All)
  BY SchemasAssumption, ReachClosed, FS_AddElement DEF All
<1>2. IsFiniteSet(Reachable)
  BY <1>1, FS_Subset
<1>3. DOMAIN Dues = Reachable /\ \A n \in Reachable : Dues[n] = Cost(n)
  BY DEF Dues, Cost
<1> QED  BY <1>1, <1>2, <1>3 DEF SumFunction, All

\* Once the proof is over, it has looked at what is reachable and found it so.
LEMMA PortableProved ==
  ASSUME WalkInv, ProofInv, DepthInv, SpentInv, pass # "proof"
  PROVE  Portable
<1> DEFINE K == DOMAIN memo["proof"]
<1>1. schema \in Schemas /\ Root \in K /\ K \subseteq DOMAIN schema /\ \A n \in K : Proved(n)
  BY DEF WalkInv, Shape, ProofInv
<1>2. \A n \in K : Settled(n)
  BY <1>1 DEF ProofInv
<1>3. K = Reachable
  <2>1. Targets(K) \subseteq K
    BY <1>2 DEF Targets, Settled, Proved
  <2>2. Reachable \subseteq K
    <3> HIDE DEF K
    <3> QED  BY <1>1, <2>1, ReachLeast
  <2> QED  BY <2>2 DEF SpentInv
<1>4. ASSUME NEW n \in Reachable
      PROVE  n # NoNode /\ ~Malformed(n) /\ Bounded(n)
  <2>1. n \in K /\ n \in DOMAIN schema /\ n # NoNode
    BY <1>1, <1>3, SchemasAssumption
  <2>2. Settled(n)
    BY <1>2, <2>1
  <2>3. \A e \in ProofEdges(n) : memo["proof"][e.to].mode \in {"closed", "excluded"}
    BY <2>2, ProvedModes DEF Settled
  <2>4. ~Malformed(n) /\ Admission(n) # "open"
    BY <2>2 DEF Settled
  <2> QED  BY <1>1, <2>1, <2>3, <2>4, BoundedAdmits
<1>5. LongestPath <= MaxDepth
  <2>1. Proved(Root) /\ Deep(Root) <= MaxDepth /\ Deep(Root) \in Nat
    BY <1>1, <1>2 DEF ProofInv, Settled
  <2>2. Levels \in 0..Levels /\ Levels = MaxDepth + 1
    BY LimitsAssumption DEF Levels
  <2>3. LongestPath = longest[Levels][Root]
    BY <2>2 DEF LongestPath
  <2>4. longest[Levels][Root] <= Deep(Root)
    BY <2>1, <2>2, ProvedUpper
  <2>5. longest[Levels][Root] \in Nat
    BY <1>1, <2>2, Longer1
  <2> QED  BY <2>1, <2>3, <2>4, <2>5, LimitsAssumption
<1>6. SumFunction(Dues) <= MaxOps
  <2>1. ops = Total /\ ops <= MaxOps /\ ops \in Nat
    BY DEF SpentInv, ProofInv
  <2>2. \A n \in K : Spent(n) = Dues[n]
    <3>1. \A n : Followed(n) = RefEdges(n)
      BY DEF Followed
    <3>2. \A n \in K : Proved(n)
      BY <1>1
    <3> QED  BY <1>3, <3>1, <3>2 DEF Spent, Dues
  <2> DEFINE f == [n \in K |-> Spent(n)]
  <2>3. \A n \in K : f[n] = Dues[n]
    BY <2>2
  <2>4. IsFiniteSet(K) /\ Total = SumFunctionOnSet(f, K)
    BY <1>1, TotalIs
  <2>5. SumFunction(Dues) = SumFunctionOnSet(Dues, K)
    BY <1>1, <1>3, DuesAre
  <2> HIDE DEF K, f
  <2>6. SumFunctionOnSet(f, K) = SumFunctionOnSet(Dues, K)
    BY <2>3, <2>4, SumSame
  <2> QED  BY <2>1, <2>4, <2>5, <2>6
<1> QED  BY <1>4, <1>5, <1>6 DEF Portable, Dues

-----------------------------------------------------------------------------
(* The proof rejects what is not portable.                                   *)

\* What was spent and what is still due is within the sum of the definition.
LEMMA Overspent ==
  ASSUME WalkInv, ProofInv, SpentInv, verdict = "none", NEW key \in DOMAIN memo["proof"],
         NEW c \in Nat, Spent(key) + c <= Cost(key)
  PROVE  /\ ops + c > MaxOps => ~Portable
         /\ \A new \in Reachable \ DOMAIN memo["proof"] : ops + c + 1 > MaxOps => ~Portable
<1> SUFFICES ASSUME Portable
             PROVE  /\ ops + c <= MaxOps
                    /\ \A new \in Reachable \ DOMAIN memo["proof"] : ops + c + 1 <= MaxOps
  <2>1. ops \in Nat /\ MaxOps \in Nat
    BY LimitsAssumption DEF ProofInv
  <2> QED  BY <2>1
<1> DEFINE K == DOMAIN memo["proof"]
           f == [n \in K |-> Spent(n)]
           g == [n \in Reachable |->
                  IF n = key THEN Spent(n) + c ELSE IF n \in K THEN Spent(n) ELSE 1]
<1>1. schema \in Schemas /\ K \subseteq DOMAIN schema /\ K \subseteq Reachable /\ ops = Total
  BY DEF WalkInv, Shape, ProofInv, SpentInv
<1>2. NoNode \notin Reachable /\ SumFunction(Dues) <= MaxOps
  BY DEF Portable, Dues
<1>3. IsFiniteSet(K) /\ Total = SumFunctionOnSet(f, K) /\ Total \in Nat
  BY <1>1, TotalIs
<1>4. /\ IsFiniteSet(Reachable) /\ SumFunction(Dues) = SumFunctionOnSet(Dues, Reachable)
      /\ \A n \in Reachable : n \in DOMAIN schema /\ Dues[n] = Cost(n)
  BY <1>1, <1>2, DuesAre
<1>5. \A n \in Reachable :
        Spent(n) \in Nat /\ Cost(n) \in Nat /\ Spent(n) <= Cost(n) /\ 1 <= Cost(n)
  <2>1. ASSUME NEW n \in Reachable
        PROVE  Spent(n) \in Nat /\ Cost(n) \in Nat /\ Spent(n) <= Cost(n) /\ 1 <= Cost(n)
    <3>1. n \in DOMAIN schema
      BY <1>4
    <3>2. /\ Spent(n) \in Nat /\ Cost(n) \in Nat /\ Spent(n) <= Cost(n)
          /\ Cardinality(RefEdges(n)) \in Nat /\ LiteralOps(n) \in Nat
      BY <1>1, <3>1, SpentBound
    <3> QED  BY <3>2 DEF Cost
  <2> QED  BY <2>1
<1>6. key \in K /\ \A n \in K : n \in Reachable
  BY <1>1
<1>7. \A n \in Reachable : Dues[n] \in Nat /\ g[n] \in Nat /\ g[n] <= Dues[n]
  BY <1>4, <1>5
<1>8. \A n \in K : f[n] \in Nat /\ g[n] = IF n = key THEN f[n] + c ELSE f[n]
  BY <1>5, <1>6
<1>9. \A n \in Reachable \ K : g[n] = 1
  BY <1>6
<1> HIDE DEF K, f, g
<1>10. SumFunctionOnSet(g, K) = SumFunctionOnSet(f, K) + c
  <2>1. /\ IsFiniteSet(K) /\ key \in K /\ c \in Nat /\ \A n \in K : f[n] \in Nat
        /\ \A n \in K : g[n] = IF n = key THEN f[n] + c ELSE f[n]
    BY <1>3, <1>6, <1>8
  <2> QED  BY ONLY <2>1, SumRaised
<1>11. ASSUME NEW T, T \subseteq Reachable
       PROVE  SumFunctionOnSet(g, T) <= MaxOps
  <2>1. /\ IsFiniteSet(Reachable) /\ T \subseteq Reachable
        /\ \A x \in Reachable : g[x] \in Nat /\ Dues[x] \in Nat /\ (x \in T => g[x] <= Dues[x])
    BY <1>4, <1>7, <1>11
  <2>2. SumFunctionOnSet(g, T) <= SumFunctionOnSet(Dues, Reachable)
    BY ONLY <2>1, SumGrows
  <2>3. SumFunctionOnSet(g, T) \in Nat /\ SumFunctionOnSet(Dues, Reachable) \in Nat
    <3>1. IsFiniteSet(T) /\ \A x \in T : g[x] \in Nat
      BY <2>1, FS_Subset
    <3>2. SumFunctionOnSet(g, T) \in Nat
      BY ONLY <3>1, SumNat
    <3> QED  BY ONLY <2>1, <3>2, SumNat
  <2> QED  BY <1>2, <1>4, <2>2, <2>3, LimitsAssumption
<1>12. ops + c <= MaxOps
  <2>1. K \subseteq Reachable
    BY <1>6
  <2>2. SumFunctionOnSet(g, K) <= MaxOps
    BY <1>11, <2>1
  <2> QED  BY <1>1, <1>3, <1>10, <2>2
<1>13. ASSUME NEW new \in Reachable \ K
       PROVE  ops + c + 1 <= MaxOps
  <2>1. SumFunctionOnSet(g, K \cup {new}) <= MaxOps
    <3>1. K \cup {new} \subseteq Reachable
      BY <1>6, <1>13
    <3> QED  BY <1>11, <3>1
  <2>2. SumFunctionOnSet(g, K \cup {new}) = SumFunctionOnSet(g, K) + g[new]
    <3>1. IsFiniteSet(K) /\ new \notin K /\ \A x \in K \cup {new} : g[x] \in Nat
      BY <1>3, <1>6, <1>7, <1>13
    <3> QED  BY ONLY <3>1, SumWith
  <2>3. g[new] = 1
    BY <1>9
  <2> QED  BY <1>1, <1>3, <1>10, <2>1, <2>2, <2>3
<1> QED  BY <1>12, <1>13 DEF K

\* What it takes to follow an edge has not been spent on the node on top.
LEMMA EdgeDue ==
  ASSUME WalkInv, ProofInv, pass = "proof", stack # <<>>, NEW e \in Top.left
  PROVE  Spent(Top.key) + RefOps(e) <= Cost(Top.key) /\ RefOps(e) \in {0, 1}
<1> DEFINE n == Top.key
           R == RefEdges(n)
<1>1. /\ n \in DOMAIN schema /\ schema \in Schemas /\ Len(stack) \in 1..Len(stack)
      /\ Top = stack[Len(stack)]
  BY TopFrame DEF ProofInv, WalkInv, Shape
<1>2. Followed(n) = R \ Top.left
  BY <1>1, FollowedIs
<1>3. Cardinality(R \ (Top.left \ {e})) = Cardinality(Followed(n)) + RefOps(e)
  BY <1>1, <1>2, FollowsOne
<1>4. /\ IsFiniteSet(R) /\ Cardinality(R) \in Nat /\ LiteralOps(n) \in Nat
      /\ Cardinality(Followed(n)) \in Nat /\ RefOps(e) \in {0, 1}
  BY <1>1, EdgesFinite, SpentBound DEF RefOps
<1>5. Cardinality(R \ (Top.left \ {e})) <= Cardinality(R)
  <2> HIDE DEF R
  <2> QED  BY <1>4, FS_Subset
<1> HIDE DEF n, R
<1>6. Spent(n) <= 1 + Cardinality(Followed(n)) + LiteralOps(n)
  BY <1>4 DEF Spent
<1>7. Spent(n) \in Nat
  BY <1>4 DEF Spent
<1>8. Cost(n) = 1 + Cardinality(R) + LiteralOps(n)
  BY DEF Cost, R
<1> QED  BY <1>3, <1>4, <1>5, <1>6, <1>7, <1>8 DEF n

\* An edge the proof does not get over is not one of a portable schema.
LEMMA FailRejects ==
  ASSUME WalkInv, ProofInv, DepthInv, SpentInv, pass = "proof", stack # <<>>, NEW e \in Top.left,
         ~Survives(e)
  PROVE  ~Portable
<1>1. /\ Top.key \in DOMAIN schema /\ e \in ProofEdges(Top.key) /\ e.to \in Reachable
      /\ schema \in Schemas /\ verdict = "none" /\ Len(stack) \in Nat
      /\ Top.key \in DOMAIN memo["proof"]
  BY TopReaches, TopFrame DEF WalkInv, Shape
<1>2. CASE e.to = NoNode
  BY <1>1, <1>2 DEF Portable
<1>3. CASE e.to # NoNode
  <2>1. e.to \in DOMAIN schema
    BY <1>1, <1>3, ReachClosed DEF All
  <2>2. ASSUME NEW d \in Nat, AtLeast(e.to, d), Len(stack) + d > MaxDepth
        PROVE  ~Portable
    <3>1. AtLeast(Top.key, d + 1)
      BY <1>1, <2>1, <2>2, OneMore
    <3>2. AtLeast(Root, Len(stack) - 1 + (d + 1))
      BY <3>1, Onwards
    <3>3. Len(stack) - 1 + (d + 1) = Len(stack) + d /\ Len(stack) + d \in Int
      BY <1>1
    <3> QED  BY <1>1, <2>2, <3>2, <3>3, TooDeep DEF Portable
  <2>3. CASE Len(stack) > MaxDepth
    <3>1. \A k \in 0..Levels : longest[k][e.to] \in Nat
      BY <1>1, <2>1, Longer1
    <3>2. AtLeast(e.to, 0)
      BY <3>1 DEF AtLeast
    <3>3. Len(stack) + 0 > MaxDepth /\ 0 \in Nat
      BY <1>1, <2>3
    <3> QED  BY <2>2, <3>2, <3>3
  <2>4. CASE \/ ops + RefOps(e) > MaxOps
             \/ e.to \notin DOMAIN memo["proof"] /\ ~(ops + RefOps(e) < MaxOps)
    <3>1. PICK c \in Nat : c = RefOps(e)
      BY EdgeDue
    <3>2. PICK key \in DOMAIN memo["proof"] : key = Top.key
      BY <1>1
    <3>3. Spent(key) + c <= Cost(key)
      BY <3>1, <3>2, EdgeDue
    <3>4. /\ ops + c > MaxOps => ~Portable
          /\ \A new \in Reachable \ DOMAIN memo["proof"] : ops + c + 1 > MaxOps => ~Portable
      BY <1>1, <3>3, Overspent
    <3>5. ops \in Nat /\ MaxOps \in Nat
      BY LimitsAssumption DEF ProofInv
    <3> QED  BY <1>1, <2>4, <3>1, <3>4, <3>5
  <2>5. CASE e.to \in DOMAIN memo["proof"]
    <3>1. CASE memo["proof"][e.to].state = "visiting"
      <4>1. PICK i \in 1..Len(stack) : stack[i].key = e.to
        BY <1>1, <2>5, <3>1 DEF WalkInv, Memos, Passes
      <4> QED  BY <4>1, CycleDeep DEF Portable
    <3>2. CASE memo["proof"][e.to].state # "visiting"
      <4>1. Proved(e.to)
        BY <2>5, <3>2 DEF WalkInv, Memos, Passes, Proved
      <4>2. Deep(e.to) \in Nat /\ AtLeast(e.to, Deep(e.to))
        BY <4>1, ProvedLower
      <4>3. PICK d \in Nat : d = Deep(e.to)
        BY <4>2
      <4>4. CASE Len(stack) + Deep(e.to) > MaxDepth
        BY <2>2, <4>2, <4>3, <4>4
      <4>5. CASE ~(Len(stack) + Deep(e.to) > MaxDepth)
        <5>1. Len(stack) + Deep(e.to) <= MaxDepth
          BY <1>1, <4>2, <4>5, LimitsAssumption
        <5>2. Len(stack) > MaxDepth \/ ops + RefOps(e) > MaxOps
          <6>1. ~(Len(stack) <= MaxDepth) \/ ~(ops + RefOps(e) <= MaxOps)
            BY <1>3, <2>5, <3>2, <5>1 DEF Survives, Known, Recall, Memo, MemoKey, Deep
          <6>2. ops + RefOps(e) \in Int /\ MaxOps \in Int /\ MaxDepth \in Int
            BY LimitsAssumption, EdgeDue DEF ProofInv
          <6> QED  BY <1>1, <6>1, <6>2
        <5> QED  BY <2>3, <2>4, <5>2
      <4> QED  BY <4>4, <4>5
    <3> QED  BY <3>1, <3>2
  <2>6. CASE e.to \notin DOMAIN memo["proof"]
    <3>1. CASE Malformed(e.to)
      BY <1>1, <3>1 DEF Portable
    <3>2. CASE ~Malformed(e.to)
      <4>1. \/ ~(Len(stack) <= MaxDepth) \/ ~(ops + RefOps(e) <= MaxOps)
            \/ ~(ops + RefOps(e) < MaxOps)
        BY <1>3, <2>6, <3>2 DEF Survives, Known, Memo, MemoKey
      <4>2. ops + RefOps(e) \in Int /\ MaxOps \in Int /\ MaxDepth \in Int
        BY LimitsAssumption, EdgeDue DEF ProofInv
      <4>3. Len(stack) > MaxDepth \/ ~(ops + RefOps(e) < MaxOps)
        BY <1>1, <4>1, <4>2
      <4> QED  BY <2>3, <2>4, <2>6, <4>3
    <3> QED  BY <3>1, <3>2
  <2> QED  BY <2>5, <2>6
<1> QED  BY <1>2, <1>3

\* A node that cannot be proved, its children proved, is not one of a portable schema.
LEMMA UnprovedRejects ==
  ASSUME WalkInv, ProofInv, DepthInv, SpentInv, pass = "proof", stack # <<>>, Top.left = {},
         Unprovable(Top.key, Returned.deep)
  PROVE  ~Portable
<1> DEFINE n == Top.key
<1>1. /\ n \in DOMAIN schema /\ n \in Reachable /\ schema \in Schemas /\ verdict = "none"
      /\ Len(stack) \in Nat /\ n \in DOMAIN memo["proof"] /\ Len(stack) \in 1..Len(stack)
      /\ Top = stack[Len(stack)] /\ memo["proof"][n].state = "visiting"
  BY TopReaches, TopFrame DEF WalkInv, Shape
<1>2. /\ ~Malformed(n) /\ Top.deep \in Nat
      /\ \A e \in ProofEdges(n) : Proved(e.to) /\ Deep(e.to) < Top.deep
  BY <1>1 DEF ProofInv, Counted
<1>3. CASE ops + LiteralOps(n) > MaxOps
  <2>1. ~Proved(n) /\ LiteralOps(n) \in Nat
    BY <1>1, SpentBound DEF Proved
  <2>2. /\ Cardinality(Followed(n)) \in Nat /\ Cardinality(RefEdges(n)) \in Nat
        /\ Cardinality(Followed(n)) <= Cardinality(RefEdges(n))
    BY <1>1, SpentBound
  <2>3. Spent(n) = 1 + Cardinality(Followed(n)) + 0
    BY <2>1 DEF Spent
  <2>4. Spent(n) + LiteralOps(n) <= Cost(n)
    BY <2>1, <2>2, <2>3 DEF Cost
  <2>5. PICK key \in DOMAIN memo["proof"] : key = n
    BY <1>1
  <2>6. PICK c \in Nat : c = LiteralOps(n)
    BY <2>1
  <2>7. Spent(key) + c <= Cost(key) /\ ops + c > MaxOps
    BY <1>3, <2>4, <2>5, <2>6
  <2> HIDE DEF n
  <2> QED  BY <1>1, <2>7, Overspent
<1>4. CASE Admission(n) = "open"
  <2>1. \A e \in ProofEdges(n) : memo["proof"][e.to].mode \in {"closed", "excluded"}
    BY <1>2, ProvedModes
  <2>2. ~Bounded(n)
    <3> HIDE DEF n
    <3> QED  BY <1>1, <1>2, <1>4, <2>1, BoundedAdmits
  <2> QED  BY <1>1, <2>2 DEF Portable
<1>5. CASE Len(stack) - 1 + Returned.deep > MaxDepth
  <2>1. Returned.deep = Top.deep + Height(n)
    BY DEF Returned, Result
  <2>2. Height(n) \in Nat
    BY <1>1, SchemasAssumption DEF Height
  <2>3. Deepest(n, Top.deep, 0)
    BY <1>1 DEF DepthInv
  <2>4. /\ Levels \in Nat /\ \A k \in 0..Levels : longest[k][n] \in Nat
        /\ longest[0][n] = 0 /\ \A k \in 1..Levels : longest[k][n] >= Height(n)
    BY <1>1, Longer1
  <2>5. AtLeast(n, Returned.deep)
    <3>1. CASE Top.deep = 0
      <4>1. Returned.deep = Height(n)
        BY <2>1, <2>2, <3>1
      <4>2. \A k \in 0..Levels : k = 0 \/ k \in 1..Levels
        BY <2>4
      <4> QED  BY <2>2, <2>4, <4>1, <4>2 DEF AtLeast
    <3>2. CASE Top.deep # 0
      <4>1. PICK e \in ProofEdges(n) : Proved(e.to) /\ Top.deep = Deep(e.to) + 1
        BY <2>3, <3>2 DEF Deepest
      <4>2. Height(n) = 0
        BY <1>1, <4>1, Childless DEF Height
      <4>3. Deep(e.to) \in Nat /\ AtLeast(e.to, Deep(e.to)) /\ e.to \in DOMAIN schema
        BY <4>1, ProvedLower DEF Proved, ProofInv
      <4>4. PICK d \in Nat : d = Deep(e.to)
        BY <4>3
      <4>5. AtLeast(n, d + 1)
        <5> HIDE DEF n
        <5> QED  BY <1>1, <4>1, <4>3, <4>4, OneMore
      <4>6. Returned.deep = d + 1
        BY <1>2, <2>1, <4>1, <4>2, <4>4
      <4> QED  BY <4>5, <4>6
    <3> QED  BY <3>1, <3>2
  <2>6. PICK d \in Nat : d = Returned.deep
    BY <1>2, <2>1, <2>2
  <2>7. AtLeast(Root, Len(stack) - 1 + d)
    BY <2>5, <2>6, Onwards
  <2>8. Len(stack) - 1 + d \in Nat /\ Len(stack) - 1 + d > MaxDepth
    BY <1>1, <1>5, <2>6
  <2> QED  BY <1>1, <2>7, <2>8, TooDeep DEF Portable
<1> QED  BY <1>3, <1>4, <1>5 DEF Unprovable

\* Whatever the proof rejects is not portable.
LEMMA RejectedNotPortable ==
  ASSUME WalkInv, ProofInv, DepthInv, SpentInv, pass = "proof", verdict # "rejected", Next,
         verdict' = "rejected"
  PROVE  ~Portable
<1>1. CASE Begin
  <2>1. Malformed(Root)
    BY <1>1 DEF Begin, Call
  <2>2. Root \in Reachable
    BY ReachClosed DEF WalkInv, Shape
  <2> QED  BY <2>1, <2>2 DEF Portable
<1>2. CASE Visit
  <2>1. PICK e \in Top.left : Descend(e) \/ Revisit(e) \/ Fail(e)
    BY <1>2 DEF Visit, NextEdges
  <2>2. stack # <<>>
    BY <1>2 DEF Visit
  <2>3. ~Survives(e)
    BY <2>1 DEF Descend, Revisit, Fail, Call
  <2> QED  BY <2>2, <2>3, FailRejects
<1>3. CASE Unproved
  BY <1>3, UnprovedRejects DEF Unproved
<1>4. CASE Finish
  BY <1>4 DEF Finish
<1>5. CASE FinishPass
  BY <1>5 DEF FinishPass
<1>6. CASE ValidateFixture
  BY <1>6 DEF ValidateFixture
<1> QED  BY <1>1, <1>2, <1>3, <1>4, <1>5, <1>6 DEF Next

-----------------------------------------------------------------------------
(* What is decided about a schema stays while the schema does.               *)

\* The evaluations of a schema are those of its text alone.
LEMMA EvaluationsKept ==
  ASSUME schema' = schema
  PROVE  evaluations' = evaluations /\ Evaluations' = Evaluations
<1>1. evaluations' = evaluations
  BY DEF evaluations, Resolved, StructureEdges, MapEdges, SingleEdges, ListEdges, RefEdges,
         KidsOf, ChildrenOf
<1> QED  BY <1>1 DEF Evaluations

\* Those of a fixture depend on its value too.
LEMMA FixtureEvaluationsKept ==
  ASSUME schema' = schema, fixture' = fixture
  PROVE  fixtureEvaluations' = fixtureEvaluations /\ FixtureEvaluations' = FixtureEvaluations
         /\ InstanceKeys' = InstanceKeys
<1>1. InstanceKeys' = InstanceKeys
  BY DEF InstanceKeys
<1>2. fixtureEvaluations' = fixtureEvaluations
  BY <1>1 DEF fixtureEvaluations, InstanceEdges, ObjectEdges, ArrayEdges, Once, ValueAt, RefEdges,
         KidsOf
<1> QED  BY <1>1, <1>2 DEF FixtureEvaluations

\* The longest path likewise.
LEMMA LongestKept ==
  ASSUME schema' = schema
  PROVE  LongestPath' = LongestPath
<1>1. longest' = longest
  BY DEF longest, Height, Resolved, ProofEdges, MapEdges, SingleEdges, ListEdges, RefEdges,
         KidsOf, ChildrenOf
<1> QED  BY <1>1 DEF LongestPath

\* A schema is portable or not whatever a pass does.
LEMMA PortableKept ==
  ASSUME schema' = schema
  PROVE  Portable' <=> Portable
<1>1. Reachable' = Reachable /\ LongestPath' = LongestPath
  BY SpentKept, LongestKept
<1>2. \A n : Malformed(n)' = Malformed(n)
  BY EdgesKept
<1>3. \A n : Bounded(n)' = Bounded(n)
  BY DEF Bounded
<1>4. \A n : RefEdges(n)' = RefEdges(n) /\ LiteralOps(n)' = LiteralOps(n)
  BY SpentKept
<1>5. Dues' = Dues
  BY <1>1, <1>4 DEF Dues
<1>6. Portable' <=> /\ \A n \in Reachable' : n # NoNode /\ ~Malformed(n)' /\ Bounded(n)'
                    /\ LongestPath' <= MaxDepth
                    /\ SumFunction(Dues') <= MaxOps
  BY DEF Portable, Dues
<1>7. Portable <=> /\ \A n \in Reachable : n # NoNode /\ ~Malformed(n) /\ Bounded(n)
                   /\ LongestPath <= MaxDepth
                   /\ SumFunction(Dues) <= MaxOps
  BY DEF Portable, Dues
<1> HIDE DEF Portable, Dues
<1> QED  BY <1>1, <1>2, <1>3, <1>5, <1>6, <1>7

-----------------------------------------------------------------------------
(* What an estimate counts.                                                  *)

\* The passes that follow the proof.
Estimates == {"structure", "instance"}

\* The evaluations of what an estimate looks at, k levels of the schema expanded.
Expanded(k) == IF pass = "structure" THEN evaluations[k] ELSE fixtureEvaluations[k]
Weights == Expanded(Levels)

Evaluable ==
  IF pass = "structure" THEN {n \in DOMAIN schema : Sound(n)}
  ELSE {key \in InstanceKeys : Sound(key[1])}

\* From what is evaluable the edges lead down to what is.
LEMMA EvaluableEdges ==
  ASSUME WalkInv, ProofInv, FixtureInv, pass \in Estimates, NEW x \in Evaluable
  PROVE  /\ Sound(NodeOf(x)) /\ IsFiniteSet(EdgesOf(x))
         /\ \A e \in EdgesOf(x) : e.to \in Evaluable /\ Fall(NodeOf(e.to)) < Fall(NodeOf(x))
<1>1. schema \in Schemas /\ pass # "proof"
  BY DEF WalkInv, Shape, Estimates
<1>2. Sound(NodeOf(x))
  BY DEF Evaluable, NodeOf, Estimates
<1>3. \A e \in EdgesOf(x) : Sound(NodeOf(e.to)) /\ Fall(NodeOf(e.to)) < Fall(NodeOf(x))
  BY <1>2, WalkFalls DEF Estimates
<1>4. CASE pass = "structure"
  <2>1. x \in DOMAIN schema /\ EdgesOf(x) = StructureEdges(x)
    BY <1>4 DEF Evaluable, EdgesOf
  <2>2. IsFiniteSet(EdgesOf(x))
    BY <1>1, <2>1, EdgesFinite
  <2>3. \A e \in EdgesOf(x) : e.to \in Evaluable
    BY <1>3, <1>4 DEF Evaluable, NodeOf, Sound
  <2> QED  BY <1>2, <1>3, <2>2, <2>3
<1>5. CASE pass = "instance"
  <2>1. x \in InstanceKeys /\ EdgesOf(x) = InstanceEdges(x[1], x[2], x[3]) /\ fixture \in Fixtures
    BY <1>5 DEF Evaluable, EdgesOf, FixtureInv
  <2>2. IsFiniteSet(EdgesOf(x)) /\ \A e \in EdgesOf(x) : e.to[1] # NoNode => e.to \in InstanceKeys
    BY <1>1, <2>1, InstanceTargets
  <2>3. \A e \in EdgesOf(x) : Sound(e.to[1])
    BY <1>3, <1>5 DEF NodeOf
  <2>4. \A e \in EdgesOf(x) : e.to[1] # NoNode
    BY <1>1, <2>3, SoundFall
  <2>5. \A e \in EdgesOf(x) : e.to \in Evaluable
    BY <1>5, <2>2, <2>3, <2>4 DEF Evaluable
  <2> QED  BY <1>2, <1>3, <2>2, <2>5
<1> QED  BY <1>4, <1>5 DEF Estimates

\* One level more of the evaluations.
LEMMA ExpandedIs ==
  ASSUME WalkInv, ProofInv, FixtureInv, pass \in Estimates, NEW x \in Evaluable
  PROVE  /\ \A k \in 0..Levels : Expanded(k)[x] \in Nat
         /\ Expanded(0)[x] = 1
         /\ \A k \in 1..Levels : Expanded(k)[x] = Heavier(Expanded(k - 1), EdgesOf(x))
<1>1. schema \in Schemas /\ pass # "proof"
  BY DEF WalkInv, Shape, Estimates
<1>2. \A e \in EdgesOf(x) : e.to \in Evaluable
  BY EvaluableEdges
<1>3. CASE pass = "structure"
  <2>1. x \in DOMAIN schema /\ EdgesOf(x) = StructureEdges(x)
    BY <1>3 DEF Evaluable, EdgesOf
  <2>2. Resolved(StructureEdges(x)) = EdgesOf(x)
    <3>1. \A e \in EdgesOf(x) : e.to # NoNode
      BY <1>1, <1>2, <1>3, SoundFall DEF Evaluable
    <3> QED  BY <2>1, <3>1 DEF Resolved
  <2>3. \A k : Expanded(k) = evaluations[k]
    BY <1>3 DEF Expanded
  <2>4. /\ \A k \in 0..Levels : evaluations[k] \in [DOMAIN schema -> Nat]
        /\ evaluations[0][x] = 1
        /\ \A k \in 1..Levels : evaluations[k][x] = Heavier(evaluations[k - 1], EdgesOf(x))
    BY <1>1, <2>1, <2>2, EvaluationsDefined
  <2>5. \A k \in 0..Levels : evaluations[k][x] \in Nat
    BY <2>1, <2>4
  <2> QED  BY <2>3, <2>4, <2>5
<1>4. CASE pass = "instance"
  <2>1. x \in InstanceKeys /\ EdgesOf(x) = InstanceEdges(x[1], x[2], x[3]) /\ fixture \in Fixtures
    BY <1>4 DEF Evaluable, EdgesOf, FixtureInv
  <2>2. Leading(InstanceEdges(x[1], x[2], x[3])) = EdgesOf(x)
    <3>1. \A e \in EdgesOf(x) : e.to[1] # NoNode
      BY <1>1, <1>2, <1>4, SoundFall DEF Evaluable
    <3> QED  BY <2>1, <3>1 DEF Leading
  <2>3. \A k : Expanded(k) = fixtureEvaluations[k]
    BY <1>4 DEF Expanded
  <2>4. /\ \A k \in 0..Levels : fixtureEvaluations[k] \in [InstanceKeys -> Nat]
        /\ fixtureEvaluations[0][x] = 1
        /\ \A k \in 1..Levels :
             fixtureEvaluations[k][x] = Heavier(fixtureEvaluations[k - 1], EdgesOf(x))
    BY <1>1, <2>1, <2>2, FixtureEvaluationsDefined
  <2>5. \A k \in 0..Levels : fixtureEvaluations[k][x] \in Nat
    BY <2>1, <2>4
  <2> QED  BY <2>3, <2>4, <2>5
<1> QED  BY <1>3, <1>4 DEF Estimates

\* Sums of the same ends are the same.
LEMMA HeavierSame ==
  ASSUME NEW edges, IsFiniteSet(edges), NEW f, NEW g, \A e \in edges : f[e.to] = g[e.to]
  PROVE  Heavier(f, edges) = Heavier(g, edges)
<1> DEFINE F == [e \in edges |-> f[e.to]]
           G == [e \in edges |-> g[e.to]]
<1>1. F = G
  OBVIOUS
<1> HIDE DEF F, G
<1>2. Heavier(f, edges) = 1 + SumFunction(F) /\ Heavier(g, edges) = 1 + SumFunction(G)
  BY DEF Heavier, F, G
<1> QED  BY <1>1, <1>2

\* Deep enough below the root nothing more is expanded.
LEMMA Stable ==
  ASSUME WalkInv, ProofInv, FixtureInv, pass \in Estimates
  PROVE  \A k \in 0..MaxDepth : \A x \in Evaluable :
           Fall(NodeOf(x)) < k => Expanded(k + 1)[x] = Expanded(k)[x]
<1> DEFINE P == {k \in 0..MaxDepth : \A x \in Evaluable :
                   Fall(NodeOf(x)) < k => Expanded(k + 1)[x] = Expanded(k)[x]}
<1>0. MaxDepth \in Nat /\ Levels = MaxDepth + 1 /\ pass # "proof"
  BY LimitsAssumption DEF Levels, Estimates
<1>1. ASSUME NEW k \in 0..MaxDepth, k > 0 => k - 1 \in P, NEW x \in Evaluable, Fall(NodeOf(x)) < k
      PROVE  Expanded(k + 1)[x] = Expanded(k)[x]
  <2>1. /\ IsFiniteSet(EdgesOf(x)) /\ Fall(NodeOf(x)) \in Int
        /\ \A e \in EdgesOf(x) : /\ e.to \in Evaluable /\ Fall(NodeOf(e.to)) \in Int
                                 /\ Fall(NodeOf(e.to)) < Fall(NodeOf(x))
    BY <1>0, EvaluableEdges, SoundFall
  <2>2. k + 1 \in 1..Levels /\ (k + 1) - 1 = k /\ (k > 0 => k \in 1..Levels /\ (k - 1) + 1 = k)
    BY <1>0
  <2>3. Expanded(k + 1)[x] = Heavier(Expanded(k), EdgesOf(x))
    BY <2>2, ExpandedIs
  <2>4. CASE k = 0
    <3>1. Fall(NodeOf(x)) = -1
      <4>1. Fall(NodeOf(x)) = -1 \/ Fall(NodeOf(x)) >= 0
        BY EvaluableEdges DEF Fall, Sound, ProofInv, Settled, Proved, Estimates
      <4> QED  BY <1>1, <2>1, <2>4, <4>1
    <3>2. EdgesOf(x) = {}
      <4>1. \A e \in EdgesOf(x) : Fall(NodeOf(e.to)) = -1 \/ Fall(NodeOf(e.to)) >= 0
        BY EvaluableEdges DEF Fall, Sound, ProofInv, Settled, Proved, Estimates
      <4> QED  BY <2>1, <3>1, <4>1
    <3>3. Heavier(Expanded(k), {}) = 1
      <4> DEFINE F == [e \in {} |-> Expanded(k)[e.to]]
      <4>1. SumFunction(F) = SumFunctionOnSet(F, {})
        BY DEF SumFunction
      <4>2. SumFunctionOnSet(F, {}) = 0
        BY SumEmpty
      <4> QED  BY <4>1, <4>2 DEF Heavier
    <3>4. Expanded(0)[x] = 1
      BY ExpandedIs
    <3> QED  BY <2>3, <2>4, <3>2, <3>3, <3>4
  <2>5. CASE k > 0
    <3>1. Expanded(k)[x] = Heavier(Expanded(k - 1), EdgesOf(x))
      BY <2>2, <2>5, ExpandedIs
    <3>2. \A e \in EdgesOf(x) : Expanded(k)[e.to] = Expanded(k - 1)[e.to]
      <4>1. ASSUME NEW e \in EdgesOf(x)
            PROVE  Fall(NodeOf(e.to)) < k - 1 /\ e.to \in Evaluable
        BY <1>1, <2>1
      <4> QED  BY <1>1, <2>2, <2>5, <4>1
    <3>3. Heavier(Expanded(k), EdgesOf(x)) = Heavier(Expanded(k - 1), EdgesOf(x))
      BY <2>1, <3>2, HeavierSame
    <3> QED  BY <2>3, <3>1, <3>3
  <2> QED  BY <1>1, <2>4, <2>5
<1>2. 0 \in P
  BY <1>0, <1>1
<1>3. \A k \in 1..MaxDepth : k - 1 \in P => k \in P
  BY <1>1
<1> HIDE DEF P
<1>4. 0..MaxDepth \subseteq P
  BY <1>0, <1>2, <1>3, UpTo
<1> QED  BY <1>4 DEF P

\* The evaluations along some edges.
Heavy(edges) == SumFunction([e \in edges |-> Weights[e.to]])

\* A sum over edges of what is evaluable.
LEMMA HeavyIs ==
  ASSUME WalkInv, ProofInv, FixtureInv, pass \in Estimates, NEW x \in Evaluable,
         NEW edges, edges \subseteq EdgesOf(x)
  PROVE  /\ Heavy(edges) \in Nat /\ Heavy(edges) <= Heavy(EdgesOf(x))
         /\ \A e \in EdgesOf(x) \ edges :
              /\ Weights[e.to] \in Nat
              /\ Heavy(edges \cup {e}) = Heavy(edges) + Weights[e.to]
         /\ Heavy({}) = 0
<1> DEFINE W == [e \in EdgesOf(x) |-> Weights[e.to]]
           E == EdgesOf(x)
<1>1. IsFiniteSet(E) /\ \A e \in E : e.to \in Evaluable
  BY EvaluableEdges
<1>2. \A e \in E : Weights[e.to] \in Nat
  <2>1. Levels \in 0..Levels
    BY LimitsAssumption DEF Levels
  <2> QED  BY <1>1, <2>1, ExpandedIs DEF Weights
<1>3. ASSUME NEW S, S \subseteq E
      PROVE  Heavy(S) = SumFunctionOnSet(W, S) /\ IsFiniteSet(S) /\ \A e \in S : W[e] \in Nat
  <2> DEFINE F == [e \in S |-> Weights[e.to]]
  <2>1. Heavy(S) = SumFunctionOnSet(F, S)
    BY DEF Heavy, SumFunction
  <2>2. \A e \in S : F[e] = W[e]
    BY <1>3
  <2>3. IsFiniteSet(S) /\ \A e \in S : W[e] \in Nat
    BY <1>1, <1>2, <1>3, FS_Subset
  <2> HIDE DEF F, W, E
  <2>4. SumFunctionOnSet(F, S) = SumFunctionOnSet(W, S)
    BY ONLY <2>2, <2>3, SumSame
  <2> QED  BY <2>1, <2>3, <2>4
<1>4. \A e \in E : W[e] \in Nat /\ W[e] = Weights[e.to]
  BY <1>2
<1>5. edges \subseteq E
  OBVIOUS
<1> HIDE DEF W, E
<1>6. Heavy(edges) \in Nat
  BY <1>3, <1>5, SumNat
<1>7. Heavy(edges) <= Heavy(E)
  <2>1. /\ IsFiniteSet(E) /\ edges \subseteq E
        /\ \A y \in E : W[y] \in Nat /\ W[y] \in Nat /\ (y \in edges => W[y] <= W[y])
    BY <1>1, <1>4, <1>5
  <2>2. SumFunctionOnSet(W, edges) <= SumFunctionOnSet(W, E)
    BY ONLY <2>1, SumGrows
  <2> QED  BY <1>3, <1>5, <2>2
<1>8. ASSUME NEW e \in E \ edges
      PROVE  Weights[e.to] \in Nat /\ Heavy(edges \cup {e}) = Heavy(edges) + Weights[e.to]
  <2>1. edges \cup {e} \subseteq E
    BY <1>5
  <2>2. IsFiniteSet(edges) /\ e \notin edges /\ \A y \in edges \cup {e} : W[y] \in Nat
    BY <1>3, <1>5, <2>1
  <2>3. SumFunctionOnSet(W, edges \cup {e}) = SumFunctionOnSet(W, edges) + W[e]
    BY ONLY <2>2, SumWith
  <2>4. /\ Heavy(edges) = SumFunctionOnSet(W, edges)
        /\ Heavy(edges \cup {e}) = SumFunctionOnSet(W, edges \cup {e})
    BY <1>3, <1>5, <2>1
  <2> QED  BY <1>4, <2>3, <2>4
<1>9. Heavy({}) = 0
  <2>1. Heavy({}) = SumFunctionOnSet(W, {})
    BY <1>3
  <2> QED  BY <2>1, SumEmpty
<1> QED  BY <1>6, <1>7, <1>8, <1>9 DEF E

\* All the evaluations of a node, or of a node on a value, are those along its edges
\* and its own.
LEMMA WeightIs ==
  ASSUME WalkInv, ProofInv, FixtureInv, pass \in Estimates, NEW x \in Evaluable,
         Fall(NodeOf(x)) <= MaxDepth
  PROVE  Weights[x] = 1 + Heavy(EdgesOf(x))
<1>0. MaxDepth \in Nat /\ Levels = MaxDepth + 1 /\ Levels \in 1..Levels /\ Levels - 1 = MaxDepth
      /\ pass # "proof"
  BY LimitsAssumption DEF Levels, Estimates
<1>1. /\ IsFiniteSet(EdgesOf(x)) /\ Fall(NodeOf(x)) \in Int
      /\ \A e \in EdgesOf(x) : /\ e.to \in Evaluable /\ Fall(NodeOf(e.to)) \in Int
                               /\ Fall(NodeOf(e.to)) < Fall(NodeOf(x))
  BY <1>0, EvaluableEdges, SoundFall
<1>2. Expanded(Levels)[x] = Heavier(Expanded(MaxDepth), EdgesOf(x))
  BY <1>0, ExpandedIs
<1>3. \A e \in EdgesOf(x) : Expanded(MaxDepth)[e.to] = Expanded(Levels)[e.to]
  <2>1. ASSUME NEW e \in EdgesOf(x)
        PROVE  Expanded(MaxDepth + 1)[e.to] = Expanded(MaxDepth)[e.to]
    <3>1. e.to \in Evaluable /\ Fall(NodeOf(e.to)) < MaxDepth /\ MaxDepth \in 0..MaxDepth
      BY <1>0, <1>1
    <3> QED  BY <3>1, Stable
  <2> QED  BY <1>0, <2>1
<1>4. Heavier(Expanded(MaxDepth), EdgesOf(x)) = Heavier(Expanded(Levels), EdgesOf(x))
  BY <1>1, <1>3, HeavierSame
<1> QED  BY <1>2, <1>4 DEF Weights, Heavier, Heavy

-----------------------------------------------------------------------------
(* The work of an estimate.                                                  *)

\* A sum cut at the limit.
Exact(work, all) == IF work <= MaxWork THEN work = all ELSE all > MaxWork

\* The work of a call on a key, when it has counted all but some of its edges.
Weighs(key, left, work) ==
  IF work <= MaxWork THEN work = 1 + Heavy(EdgesOf(key) \ left)
  ELSE 1 + Heavy(EdgesOf(key)) > MaxWork

\* The call waits for the edge it went along last.
Waiting(i) == stack[i].left \cup (IF i < Len(stack) THEN {stack[i].via} ELSE {})

\* The memo of an estimate holds the evaluations of its keys, and a frame has counted
\* those along all edges but the ones it has left or waits for.
WorkInv ==
  /\ pass = "proof" => memo["structure"] = Empty
  /\ pass \in {"proof", "structure"} => memo["instance"] = Empty
  /\ pass \in Estimates =>
       /\ DOMAIN memo[pass] \subseteq Evaluable
       /\ \A k \in DOMAIN memo[pass] :
            memo[pass][k].state = "done" => Exact(memo[pass][k].work, Weights[k])
       /\ \A i \in 1..Len(stack) :
            /\ i < Len(stack) => stack[i].via \notin stack[i].left
            /\ Weighs(stack[i].key, Waiting(i), stack[i].work)

\* A child's count is added, up to the limit.
LEMMA TakesIn ==
  ASSUME WalkInv, ProofInv, FixtureInv, pass \in Estimates, NEW x \in Evaluable,
         NEW e \in EdgesOf(x), NEW left, e \notin left,
         NEW w \in 1..(MaxWork + 1), NEW r \in 1..(MaxWork + 1),
         Weighs(x, left \cup {e}, w), Exact(r, Weights[e.to])
  PROVE  Weighs(x, LeftAfter(left, e, SaturatingAdd(w, r)), SaturatingAdd(w, r))
<1> DEFINE E == EdgesOf(x)
           rest == E \ (left \cup {e})
           v == SaturatingAdd(w, r)
<1>0. MaxWork \in Nat /\ w \in Nat /\ r \in Nat /\ w >= 1 /\ r >= 1 /\ w <= MaxWork + 1
  BY LimitsAssumption
<1>1. /\ Heavy(rest) \in Nat /\ Weights[e.to] \in Nat
      /\ Heavy(rest \cup {e}) = Heavy(rest) + Weights[e.to]
  <2>1. rest \subseteq E /\ e \in E \ rest
    OBVIOUS
  <2> HIDE DEF rest
  <2> QED  BY <2>1, HeavyIs
<1>2. rest \cup {e} = E \ left
  OBVIOUS
<1>3. Heavy(E \ left) <= Heavy(E) /\ Heavy(E) \in Nat
  <2>1. E \ left \subseteq E /\ E \subseteq E
    OBVIOUS
  <2> QED  BY <2>1, HeavyIs
<1>4. Heavy(E \ left) = Heavy(rest) + Weights[e.to]
  BY <1>1, <1>2
<1> HIDE DEF rest
<1>5. w <= MaxWork => w = 1 + Heavy(rest)
  BY DEF Weighs, rest
<1>6. w > MaxWork => 1 + Heavy(E) > MaxWork
  BY <1>0 DEF Weighs
<1> HIDE DEF E
<1>7. CASE w + r > MaxWork
  <2>1. v = MaxWork + 1
    BY <1>7 DEF SaturatingAdd
  <2>2. 1 + Heavy(E) > MaxWork
    <3>1. CASE w > MaxWork
      BY <1>6, <3>1
    <3>2. CASE w <= MaxWork /\ r <= MaxWork
      <4>1. Weights[e.to] = r /\ w = 1 + Heavy(rest)
        BY <1>5, <3>2 DEF Exact
      <4> QED  BY <1>0, <1>1, <1>3, <1>4, <1>7, <4>1
    <3>3. CASE ~(r <= MaxWork)
      <4>1. Weights[e.to] > MaxWork
        BY <3>3 DEF Exact
      <4> QED  BY <1>0, <1>1, <1>3, <1>4, <4>1
    <3> QED  BY <1>0, <3>1, <3>2, <3>3
  <2>3. ~(v <= MaxWork)
    BY <1>0, <2>1
  <2> QED  BY <2>2, <2>3 DEF Weighs, E
<1>8. CASE ~(w + r > MaxWork)
  <2>1. v = w + r /\ v <= MaxWork /\ w <= MaxWork /\ r <= MaxWork
    BY <1>0, <1>8 DEF SaturatingAdd
  <2>2. Weights[e.to] = r /\ w = 1 + Heavy(rest)
    BY <1>5, <2>1 DEF Exact
  <2>3. v = 1 + Heavy(E \ left)
    BY <1>0, <1>1, <1>4, <2>1, <2>2
  <2>4. LeftAfter(left, e, v) = left
    BY <2>1 DEF LeftAfter
  <2> HIDE DEF v
  <2>5. Weighs(x, LeftAfter(left, e, v), v)
    BY <2>1, <2>3, <2>4 DEF Weighs, E
  <2> QED  BY <2>5 DEF v
<1> QED  BY <1>7, <1>8

\* A call that has counted all its edges has counted the evaluations of its key.
LEMMA WeighedAll ==
  ASSUME WalkInv, ProofInv, FixtureInv, DepthInv, pass \in Estimates, NEW x \in Evaluable,
         NEW w, Weighs(x, {}, w)
  PROVE  Exact(w, Weights[x])
<1>1. Fall(NodeOf(x)) <= MaxDepth
  <2>1. Sound(NodeOf(x)) /\ MaxDepth \in Nat
    BY EvaluableEdges, LimitsAssumption
  <2>2. CASE schema[NodeOf(x)].form = "false"
    BY <2>1, <2>2 DEF Fall
  <2>3. CASE schema[NodeOf(x)].form # "false"
    BY <2>1, <2>3 DEF Fall, Sound, ProofInv, DepthInv, Estimates
  <2> QED  BY <2>2, <2>3
<1>2. Weights[x] = 1 + Heavy(EdgesOf(x))
  BY <1>1, WeightIs
<1>3. EdgesOf(x) \ {} = EdgesOf(x)
  OBVIOUS
<1> QED  BY <1>2, <1>3 DEF Weighs, Exact

\* A call that begins has counted itself.
LEMMA WeighedNone ==
  ASSUME WalkInv, ProofInv, FixtureInv, pass \in Estimates, NEW x \in Evaluable
  PROVE  Weighs(x, EdgesOf(x), 1)
<1>1. EdgesOf(x) \ EdgesOf(x) = {} /\ {} \subseteq EdgesOf(x)
  OBVIOUS
<1>2. Heavy({}) = 0
  BY <1>1, HeavyIs
<1>3. 1 <= MaxWork
  BY LimitsAssumption
<1> QED  BY <1>1, <1>2, <1>3 DEF Weighs

\* What is evaluated stays while the schema, the value and the pass do.
LEMMA WeighsKept ==
  ASSUME schema' = schema, fixture' = fixture, pass' = pass, memo'["proof"] = memo["proof"]
  PROVE  /\ Weights' = Weights /\ Evaluable' = Evaluable
         /\ \A k : EdgesOf(k)' = EdgesOf(k)
         /\ \A k, l, w : Weighs(k, l, w)' = Weighs(k, l, w)
<1>1. Weights' = Weights
  BY EvaluationsKept, FixtureEvaluationsKept DEF Weights, Expanded
<1>2. \A n : Sound(n)' = Sound(n)
  BY FallKept
<1>3. Evaluable' = Evaluable
  <2>1. InstanceKeys' = InstanceKeys
    BY FixtureEvaluationsKept
  <2> QED  BY <1>2, <2>1 DEF Evaluable
<1>4. \A k : EdgesOf(k)' = EdgesOf(k)
  BY EdgesOfKept
<1>5. \A E : Heavy(E)' = Heavy(E)
  BY <1>1 DEF Heavy
<1>6. \A k, l, w : Weighs(k, l, w)' = Weighs(k, l, w)
  BY <1>4, <1>5 DEF Weighs
<1> QED  BY <1>1, <1>3, <1>4, <1>6

-----------------------------------------------------------------------------
(* The steps of an estimate.                                                 *)

\* A step within a pass keeps the memos of the others.
LEMMA WorkWithin ==
  ASSUME WalkInv, WorkInv, pass' = pass, \A q \in Passes : q # pass => memo'[q] = memo[q],
         pass \in Estimates =>
           /\ DOMAIN memo'[pass] \subseteq Evaluable'
           /\ \A k \in DOMAIN memo'[pass] :
                memo'[pass][k].state = "done" => Exact(memo'[pass][k].work, Weights'[k])
           /\ \A i \in 1..Len(stack') :
                /\ i < Len(stack') => stack'[i].via \notin stack'[i].left
                /\ Weighs(stack[i].key, Waiting(i), stack[i].work)'
  PROVE  WorkInv'
<1>1. /\ pass' = "proof" => memo'["structure"] = Empty
      /\ pass' \in {"proof", "structure"} => memo'["instance"] = Empty
  BY DEF WorkInv, Passes
<1>2. pass' \in Estimates =>
        /\ DOMAIN memo'[pass'] \subseteq Evaluable'
        /\ \A k \in DOMAIN memo'[pass'] :
             memo'[pass'][k].state = "done" => Exact(memo'[pass'][k].work, Weights'[k])
        /\ \A i \in 1..Len(stack') :
             /\ i < Len(stack') => stack'[i].via \notin stack'[i].left
             /\ Weighs(stack[i].key, Waiting(i), stack[i].work)'
  OBVIOUS
<1> QED  BY <1>1, <1>2 DEF WorkInv, Exact

\* What is on the stack can be evaluated.
LEMMA StackEvaluable ==
  ASSUME WalkInv, WorkInv, pass \in Estimates, NEW i \in 1..Len(stack)
  PROVE  stack[i].key \in Evaluable /\ stack[i].work \in 1..(MaxWork + 1)
BY DEF WalkInv, Path, IsFrame, WorkInv

\* A call begins on a child not met before, and its caller waits for it.
LEMMA DescendWork ==
  ASSUME WalkInv, ProofInv, FixtureInv, WorkInv, pass \in Estimates, stack # <<>>,
         NEW e \in Top.left, Descend(e)
  PROVE  WorkInv'
<1> DEFINE m == Len(stack)
<1>1. /\ m \in Nat /\ m >= 1 /\ Len(stack') = m + 1
      /\ \A i \in 1..(m - 1) : stack'[i] = stack[i]
      /\ stack'[m].key = stack[m].key /\ stack'[m].left = stack[m].left \ {e}
      /\ stack'[m].work = stack[m].work /\ stack'[m].via = e
      /\ stack'[m + 1].key = e.to /\ stack'[m + 1].left = EdgesOf(e.to)
      /\ stack'[m + 1].work = 1
      /\ e.to \notin DOMAIN memo[pass] /\ Store(e.to, Visiting)
      /\ UNCHANGED <<schema, fixture, pass, verdict>>
  BY DescendFrames
<1>2. /\ Top = stack[m] /\ m \in 1..m /\ e \in EdgesOf(stack[m].key) /\ stack[m].key \in Evaluable
      /\ pass \in Passes /\ DOMAIN memo = Passes
  BY <1>1, TopFrame, StackEvaluable
<1>3. /\ \A q \in Passes : q # pass => memo'[q] = memo[q]
      /\ DOMAIN memo'[pass] = DOMAIN memo[pass] \cup {e.to}
      /\ memo'[pass][e.to] = Visiting
      /\ \A k \in DOMAIN memo[pass] : k # e.to => memo'[pass][k] = memo[pass][k]
  BY <1>1, <1>2, Stored
<1>4. memo'["proof"] = memo["proof"]
  BY <1>3 DEF Passes, Estimates
<1>5. /\ Weights' = Weights /\ Evaluable' = Evaluable
      /\ \A k, l, w : Weighs(k, l, w)' = Weighs(k, l, w)
  BY <1>1, <1>4, WeighsKept
<1>6. e.to \in Evaluable
  BY <1>2, EvaluableEdges
<1>7. DOMAIN memo'[pass] \subseteq Evaluable'
  BY <1>3, <1>5, <1>6 DEF WorkInv
<1>8. \A k \in DOMAIN memo'[pass] :
        memo'[pass][k].state = "done" => Exact(memo'[pass][k].work, Weights'[k])
  BY <1>3, <1>5 DEF WorkInv, Visiting
<1>9. ASSUME NEW i \in 1..Len(stack')
      PROVE  /\ i < Len(stack') => stack'[i].via \notin stack'[i].left
             /\ Weighs(stack[i].key, Waiting(i), stack[i].work)'
  <2>1. PICK k, l, w : k = stack'[i].key /\ l = Waiting(i)' /\ w = stack'[i].work
    OBVIOUS
  <2>2. l = stack'[i].left \cup (IF i < Len(stack') THEN {stack'[i].via} ELSE {})
    BY <2>1 DEF Waiting
  <2>3. (i < Len(stack') => stack'[i].via \notin stack'[i].left) /\ Weighs(k, l, w)
    <3>1. CASE i = m + 1
      <4>1. k = e.to /\ w = 1 /\ l = EdgesOf(e.to)
        BY <1>1, <2>1, <2>2, <3>1
      <4> QED  BY <1>1, <1>6, <3>1, <4>1, WeighedNone
    <3>2. CASE i = m
      <4>1. k = stack[m].key /\ w = stack[m].work /\ l = (stack[m].left \ {e}) \cup {e}
        BY <1>1, <2>1, <2>2, <3>2
      <4>2. l = Waiting(m)
        BY <1>2, <4>1 DEF Waiting
      <4>3. Weighs(stack[m].key, Waiting(m), stack[m].work)
        BY <1>2 DEF WorkInv
      <4> QED  BY <1>1, <3>2, <4>1, <4>2, <4>3
    <3>3. CASE i \in 1..(m - 1)
      <4>1. i \in 1..m /\ i < m /\ i < Len(stack') /\ stack'[i] = stack[i]
        BY <1>1, <3>3
      <4>2. l = Waiting(i) /\ k = stack[i].key /\ w = stack[i].work
        BY <2>1, <2>2, <4>1 DEF Waiting
      <4>3. stack[i].via \notin stack[i].left /\ Weighs(stack[i].key, Waiting(i), stack[i].work)
        BY <4>1 DEF WorkInv
      <4> QED  BY <4>1, <4>2, <4>3
    <3> QED  BY <1>1, <3>1, <3>2, <3>3
  <2>4. Weighs(k, l, w)'
    BY <1>5, <2>3
  <2> QED  BY <2>1, <2>3, <2>4
<1> QED  BY <1>1, <1>3, <1>7, <1>8, <1>9, WorkWithin

\* The count of a child met again is in the memo.
LEMMA RevisitWork ==
  ASSUME WalkInv, ProofInv, FixtureInv, WorkInv, pass \in Estimates, stack # <<>>,
         NEW e \in Top.left, Revisit(e)
  PROVE  WorkInv'
<1> DEFINE m == Len(stack)
           r == memo[pass][e.to].work
           v == SaturatingAdd(stack[m].work, r)
<1>1. /\ m \in Nat /\ m >= 1 /\ Len(stack') = m
      /\ \A i \in 1..(m - 1) : stack'[i] = stack[i]
      /\ stack'[m].key = stack[m].key /\ stack'[m].via = e
      /\ stack'[m].work = v /\ stack'[m].left = LeftAfter(stack[m].left \ {e}, e, v)
      /\ e.to \in DOMAIN memo[pass] /\ memo[pass][e.to].state = "done"
      /\ UNCHANGED <<schema, fixture, pass, memo, verdict>>
  BY RevisitFrames DEF TakenIn, Estimates
<1>2. /\ Top = stack[m] /\ m \in 1..m /\ e \in EdgesOf(stack[m].key) /\ stack[m].key \in Evaluable
      /\ stack[m].work \in 1..(MaxWork + 1) /\ r \in 1..(MaxWork + 1)
  BY <1>1, TopFrame, StackEvaluable DEF WalkInv, Memos, Estimates
<1>3. /\ Weights' = Weights /\ Evaluable' = Evaluable
      /\ \A k, l, w : Weighs(k, l, w)' = Weighs(k, l, w)
  BY <1>1, WeighsKept
<1>4. Exact(r, Weights[e.to])
  BY <1>1 DEF WorkInv
<1>5. Weighs(stack[m].key, LeftAfter(stack[m].left \ {e}, e, v), v)
  <2>1. Weighs(stack[m].key, Waiting(m), stack[m].work)
    BY <1>2 DEF WorkInv
  <2>2. Waiting(m) = (stack[m].left \ {e}) \cup {e}
    BY <1>2 DEF Waiting
  <2>3. PICK k, l, w, s : k = stack[m].key /\ l = stack[m].left \ {e} /\ w = stack[m].work /\ s = r
    OBVIOUS
  <2>4. /\ k \in Evaluable /\ e \in EdgesOf(k) /\ e \notin l /\ w \in 1..(MaxWork + 1)
        /\ s \in 1..(MaxWork + 1) /\ Weighs(k, l \cup {e}, w) /\ Exact(s, Weights[e.to])
    BY <1>2, <1>4, <2>1, <2>2, <2>3
  <2>5. Weighs(k, LeftAfter(l, e, SaturatingAdd(w, s)), SaturatingAdd(w, s))
    BY <2>4, TakesIn
  <2> QED  BY <2>3, <2>5
<1>6. ASSUME NEW i \in 1..Len(stack')
      PROVE  /\ i < Len(stack') => stack'[i].via \notin stack'[i].left
             /\ Weighs(stack[i].key, Waiting(i), stack[i].work)'
  <2>1. PICK k, l, w : k = stack'[i].key /\ l = Waiting(i)' /\ w = stack'[i].work
    OBVIOUS
  <2>2. l = stack'[i].left \cup (IF i < Len(stack') THEN {stack'[i].via} ELSE {})
    BY <2>1 DEF Waiting
  <2>3. (i < Len(stack') => stack'[i].via \notin stack'[i].left) /\ Weighs(k, l, w)
    <3>1. CASE i = m
      <4>1. k = stack[m].key /\ w = v /\ l = LeftAfter(stack[m].left \ {e}, e, v)
        BY <1>1, <2>1, <2>2, <3>1
      <4> QED  BY <1>1, <1>5, <3>1, <4>1
    <3>2. CASE i \in 1..(m - 1)
      <4>1. i \in 1..m /\ i < m /\ i < Len(stack') /\ stack'[i] = stack[i]
        BY <1>1, <3>2
      <4>2. l = Waiting(i) /\ k = stack[i].key /\ w = stack[i].work
        BY <2>1, <2>2, <4>1 DEF Waiting
      <4>3. stack[i].via \notin stack[i].left /\ Weighs(stack[i].key, Waiting(i), stack[i].work)
        BY <4>1 DEF WorkInv
      <4> QED  BY <4>1, <4>2, <4>3
    <3> QED  BY <1>1, <3>1, <3>2
  <2>4. Weighs(k, l, w)'
    BY <1>3, <2>3
  <2> QED  BY <2>1, <2>3, <2>4
<1>7. /\ DOMAIN memo'[pass] \subseteq Evaluable'
      /\ \A k \in DOMAIN memo'[pass] :
           memo'[pass][k].state = "done" => Exact(memo'[pass][k].work, Weights'[k])
  BY <1>1, <1>3 DEF WorkInv
<1> QED  BY <1>1, <1>6, <1>7, WorkWithin

\* A frame with nothing left returns the count of its key, and the memo keeps it.
LEMMA ReturnedCount ==
  ASSUME WalkInv, ProofInv, FixtureInv, DepthInv, WorkInv, pass \in Estimates, stack # <<>>,
         Finished
  PROVE  /\ Exact(Returned.work, Weights[Top.key]) /\ Returned.work \in 1..(MaxWork + 1)
         /\ memo'["proof"] = memo["proof"] /\ \A q \in Passes : q # pass => memo'[q] = memo[q]
         /\ DOMAIN memo'[pass] \subseteq Evaluable
         /\ \A k \in DOMAIN memo'[pass] :
              memo'[pass][k].state = "done" => Exact(memo'[pass][k].work, Weights[k])
<1> DEFINE m == Len(stack)
<1>1. /\ Top = stack[m] /\ m \in 1..Len(stack) /\ Top.key \in Evaluable /\ Top.left = {}
      /\ Top.work \in 1..(MaxWork + 1) /\ pass \in Passes /\ DOMAIN memo = Passes
      /\ Top.key \in DOMAIN memo[pass] /\ Store(Top.key, Returned) /\ Returned.work = Top.work
  BY TopFrame, StackEvaluable DEF Finished, Returned, Result, Estimates
<1>2. Waiting(m) = {}
  BY <1>1 DEF Waiting
<1>3. Weighs(Top.key, {}, Top.work)
  BY <1>1, <1>2 DEF WorkInv
<1>4. Exact(Returned.work, Weights[Top.key])
  BY <1>1, <1>3, WeighedAll
<1>5. /\ \A q \in Passes : q # pass => memo'[q] = memo[q]
      /\ DOMAIN memo'[pass] = DOMAIN memo[pass] \cup {Top.key}
      /\ memo'[pass][Top.key] = Returned
      /\ \A k \in DOMAIN memo[pass] : k # Top.key => memo'[pass][k] = memo[pass][k]
  BY <1>1, Stored
<1>6. memo'["proof"] = memo["proof"]
  BY <1>5 DEF Passes, Estimates
<1>7. DOMAIN memo'[pass] \subseteq Evaluable
  BY <1>1, <1>5 DEF WorkInv
<1>8. \A k \in DOMAIN memo'[pass] :
        memo'[pass][k].state = "done" => Exact(memo'[pass][k].work, Weights[k])
  BY <1>1, <1>4, <1>5 DEF WorkInv
<1> QED  BY <1>1, <1>4, <1>5, <1>6, <1>7, <1>8

\* The caller adds the count it waited for.
LEMMA FinishWork ==
  ASSUME WalkInv, ProofInv, FixtureInv, DepthInv, WorkInv, pass \in Estimates, Finish
  PROVE  WorkInv'
<1> DEFINE m == Len(stack)
           c == stack[m - 1]
           v == SaturatingAdd(c.work, Returned.work)
<1>1. /\ m \in Nat /\ m > 1 /\ Len(stack') = m - 1 /\ stack # <<>>
      /\ \A i \in 1..(m - 2) : stack'[i] = stack[i]
      /\ stack'[m - 1].key = c.key /\ stack'[m - 1].via = c.via
      /\ stack'[m - 1].work = v /\ stack'[m - 1].left = LeftAfter(c.left, c.via, v)
      /\ c.via.to = Top.key /\ c.via \in EdgesOf(c.key) /\ Finished
      /\ UNCHANGED <<schema, fixture, pass, verdict>>
  BY FinishFrames DEF TakenIn, Estimates
<1>2. m - 1 \in 1..m /\ m - 1 < m
  BY <1>1
<1>3. c.key \in Evaluable /\ c.work \in 1..(MaxWork + 1)
  BY <1>2, StackEvaluable
<1>4. /\ Exact(Returned.work, Weights[Top.key]) /\ Returned.work \in 1..(MaxWork + 1)
      /\ memo'["proof"] = memo["proof"] /\ \A q \in Passes : q # pass => memo'[q] = memo[q]
      /\ DOMAIN memo'[pass] \subseteq Evaluable
      /\ \A k \in DOMAIN memo'[pass] :
           memo'[pass][k].state = "done" => Exact(memo'[pass][k].work, Weights[k])
  BY <1>1, ReturnedCount
<1>5. /\ Weights' = Weights /\ Evaluable' = Evaluable
      /\ \A k, l, w : Weighs(k, l, w)' = Weighs(k, l, w)
  BY <1>1, <1>4, WeighsKept
<1>6. Weighs(c.key, LeftAfter(c.left, c.via, v), v)
  <2>1. Weighs(c.key, Waiting(m - 1), c.work) /\ c.via \notin c.left
    BY <1>2 DEF WorkInv
  <2>2. Waiting(m - 1) = c.left \cup {c.via}
    BY <1>2 DEF Waiting
  <2>3. PICK k, l, w, s, e :
          k = c.key /\ l = c.left /\ w = c.work /\ s = Returned.work /\ e = c.via
    OBVIOUS
  <2>4. /\ k \in Evaluable /\ e \in EdgesOf(k) /\ e \notin l /\ w \in 1..(MaxWork + 1)
        /\ s \in 1..(MaxWork + 1) /\ Weighs(k, l \cup {e}, w) /\ Exact(s, Weights[e.to])
    BY <1>1, <1>3, <1>4, <2>1, <2>2, <2>3
  <2>5. Weighs(k, LeftAfter(l, e, SaturatingAdd(w, s)), SaturatingAdd(w, s))
    BY <2>4, TakesIn
  <2> QED  BY <2>3, <2>5
<1>7. ASSUME NEW i \in 1..Len(stack')
      PROVE  /\ i < Len(stack') => stack'[i].via \notin stack'[i].left
             /\ Weighs(stack[i].key, Waiting(i), stack[i].work)'
  <2>1. PICK k, l, w : k = stack'[i].key /\ l = Waiting(i)' /\ w = stack'[i].work
    OBVIOUS
  <2>2. l = stack'[i].left \cup (IF i < Len(stack') THEN {stack'[i].via} ELSE {})
    BY <2>1 DEF Waiting
  <2>3. (i < Len(stack') => stack'[i].via \notin stack'[i].left) /\ Weighs(k, l, w)
    <3>1. CASE i = m - 1
      <4>1. ~(i < Len(stack'))
        BY <1>1, <3>1
      <4>2. k = c.key /\ w = v /\ l = LeftAfter(c.left, c.via, v)
        BY <1>1, <2>1, <2>2, <3>1, <4>1
      <4> QED  BY <1>6, <4>1, <4>2
    <3>2. CASE i \in 1..(m - 2)
      <4>1. i \in 1..m /\ i < m /\ i < Len(stack') /\ stack'[i] = stack[i]
        BY <1>1, <3>2
      <4>2. l = Waiting(i) /\ k = stack[i].key /\ w = stack[i].work
        BY <2>1, <2>2, <4>1 DEF Waiting
      <4>3. stack[i].via \notin stack[i].left /\ Weighs(stack[i].key, Waiting(i), stack[i].work)
        BY <4>1 DEF WorkInv
      <4> QED  BY <4>1, <4>2, <4>3
    <3> QED  BY <1>1, <3>1, <3>2
  <2>4. Weighs(k, l, w)'
    BY <1>5, <2>3
  <2> QED  BY <2>1, <2>3, <2>4
<1> QED  BY <1>1, <1>4, <1>5, <1>7, WorkWithin

\* The root can be evaluated.
LEMMA RootEvaluable ==
  ASSUME WalkInv, ProofInv, FixtureInv, pass \in Estimates
  PROVE  RootKey \in Evaluable
<1>1. Sound(Root) /\ Root \in DOMAIN schema
  BY DEF ProofInv, Estimates, Sound
<1>2. CASE pass = "structure"
  BY <1>1, <1>2 DEF RootKey, Evaluable
<1>3. CASE pass = "instance"
  <2>1. <<>> \in DOMAIN fixture
    BY <1>3, FixturesAssumption DEF FixtureInv
  <2>2. <<Root, <<>>, "value">> \in InstanceKeys
    BY <1>1, <2>1, KeyShape
  <2>3. RootKey = <<Root, <<>>, "value">> /\ RootKey[1] = Root
    BY <1>3 DEF RootKey, InstanceKey
  <2> QED  BY <1>1, <1>3, <2>2, <2>3 DEF Evaluable
<1> QED  BY <1>2, <1>3 DEF Estimates

\* An estimate begins at the root.
LEMMA BeginWork ==
  ASSUME WalkInv, ProofInv, FixtureInv, WorkInv, pass \in Estimates, Begin
  PROVE  WorkInv'
<1>1. Memo = Empty /\ Call(RootKey, <<>>)
  BY DEF Begin, Estimates
<1>2. PICK root : root = RootKey
  OBVIOUS
<1>3. /\ Store(root, Visiting) /\ stack' = Append(<<>>, Frame(root))
      /\ UNCHANGED <<schema, fixture, pass, verdict>>
  BY <1>1, <1>2 DEF Call
<1>4. DOMAIN memo[pass] = {}
  BY <1>1 DEF Memo, Empty
<1>5. /\ \A q \in Passes : q # pass => memo'[q] = memo[q]
      /\ DOMAIN memo'[pass] = {root} /\ memo'[pass][root] = Visiting
  <2>1. DOMAIN memo = Passes /\ pass \in Passes
    BY DEF WalkInv, Shape, Estimates, Passes
  <2> QED  BY <1>3, <1>4, <2>1, Stored
<1>6. memo'["proof"] = memo["proof"]
  BY <1>5 DEF Passes, Estimates
<1>7. /\ Weights' = Weights /\ Evaluable' = Evaluable
      /\ \A k, l, w : Weighs(k, l, w)' = Weighs(k, l, w)
  BY <1>3, <1>6, WeighsKept
<1>8. root \in Evaluable
  BY <1>2, RootEvaluable
<1>9. /\ Len(stack') = 1 /\ stack'[1].key = root /\ stack'[1].left = EdgesOf(root)
      /\ stack'[1].work = 1
  BY <1>3 DEF Frame
<1>10. ASSUME NEW i \in 1..Len(stack')
       PROVE  /\ i < Len(stack') => stack'[i].via \notin stack'[i].left
              /\ Weighs(stack[i].key, Waiting(i), stack[i].work)'
  <2>1. PICK k, l, w : k = stack'[i].key /\ l = Waiting(i)' /\ w = stack'[i].work
    OBVIOUS
  <2>2. i = 1 /\ ~(i < Len(stack'))
    BY <1>9
  <2>3. k = root /\ w = 1 /\ l = EdgesOf(root)
    BY <1>9, <2>1, <2>2 DEF Waiting
  <2>4. Weighs(k, l, w)
    BY <1>8, <2>3, WeighedNone
  <2>5. Weighs(k, l, w)'
    BY <1>7, <2>4
  <2> QED  BY <2>1, <2>2, <2>5
<1>11. /\ DOMAIN memo'[pass] \subseteq Evaluable'
       /\ \A k \in DOMAIN memo'[pass] :
            memo'[pass][k].state = "done" => Exact(memo'[pass][k].work, Weights'[k])
  BY <1>5, <1>7, <1>8 DEF Visiting
<1> QED  BY <1>3, <1>5, <1>10, <1>11, WorkWithin

\* What the root returns is over the limit exactly when all the evaluations are.
LEMMA RootCount ==
  ASSUME WalkInv, ProofInv, FixtureInv, DepthInv, WorkInv, pass \in Estimates, FinishPass
  PROVE  /\ Returned.work > MaxWork <=>
              (IF pass = "structure" THEN Evaluations ELSE FixtureEvaluations) > MaxWork
         /\ pass = "structure" /\ ~(Returned.work > MaxWork) => Evaluations <= MaxWork
<1>1. Len(stack) = 1 /\ Finished /\ stack # <<>> /\ Top.key = RootKey
  BY TopFrame DEF FinishPass, Finished, WalkInv, Path
<1>2. Exact(Returned.work, Weights[RootKey]) /\ Returned.work \in Nat /\ MaxWork \in Nat
  BY <1>1, ReturnedCount, LimitsAssumption
<1>3. Weights[RootKey] = IF pass = "structure" THEN Evaluations ELSE FixtureEvaluations
  BY DEF Weights, Expanded, Levels, RootKey, Evaluations, FixtureEvaluations, Estimates
<1>4. Weights[RootKey] \in Nat
  <2>1. RootKey \in Evaluable /\ Levels \in 0..Levels
    BY RootEvaluable, LimitsAssumption DEF Levels
  <2> QED  BY <2>1, ExpandedIs DEF Weights
<1>5. PICK all \in Nat : all = Weights[RootKey]
  BY <1>4
<1>6. PICK w \in Nat : w = Returned.work
  BY <1>2
<1>7. w > MaxWork <=> all > MaxWork
  BY <1>2, <1>5, <1>6 DEF Exact
<1> QED  BY <1>2, <1>3, <1>5, <1>6, <1>7

\* The root returns, and what is kept of an estimate that goes over the limit is
\* what it has counted.
LEMMA FinishPassWork ==
  ASSUME WalkInv, ProofInv, FixtureInv, DepthInv, WorkInv, FinishPass
  PROVE  WorkInv'
<1>1. /\ Finished /\ stack # <<>> /\ stack' = <<>> /\ schema' = schema /\ fixture' = fixture
      /\ pass \in Passes /\ Store(Top.key, Returned) /\ DOMAIN memo = Passes
  BY TopFrame DEF FinishPass, Finished
<1>2. 1..Len(stack') = {}
  BY <1>1
<1>3. \A q \in Passes : q # pass => memo'[q] = memo[q]
  BY <1>1, Stored
<1>4. CASE pass = "proof"
  <2>1. /\ pass' = "structure" /\ memo'["structure"] = Empty /\ memo'["instance"] = Empty
    BY <1>3, <1>4 DEF FinishPass, WorkInv, Passes
  <2>2. DOMAIN memo'["structure"] = {}
    BY <2>1 DEF Empty
  <2> QED  BY <1>2, <2>1, <2>2 DEF WorkInv
<1>5. CASE pass = "structure" /\ pass' = pass
  <2>1. /\ memo'["proof"] = memo["proof"] /\ DOMAIN memo'[pass] \subseteq Evaluable
        /\ \A k \in DOMAIN memo'[pass] :
             memo'[pass][k].state = "done" => Exact(memo'[pass][k].work, Weights[k])
    BY <1>1, <1>5, ReturnedCount DEF Estimates
  <2>2. Weights' = Weights /\ Evaluable' = Evaluable
    BY <1>1, <1>5, <2>1, WeighsKept
  <2> QED  BY <1>2, <1>3, <1>5, <2>1, <2>2, WorkWithin
<1>6. CASE pass' = "fixture"
  BY <1>6 DEF WorkInv, Estimates
<1>7. pass = "proof" \/ (pass = "structure" /\ pass' = pass) \/ pass' = "fixture"
  BY <1>1 DEF FinishPass, Passes
<1> QED  BY <1>4, <1>5, <1>6, <1>7

\* Every step of every pass keeps the counts.
LEMMA WorkStep ==
  ASSUME WalkInv, ProofInv, EstimateInv, FixtureInv, DepthInv, WorkInv, [Next]_vars
  PROVE  WorkInv'
<1>1. CASE pass = "proof"
  <2>1. ASSUME pass' = pass, \A q \in Passes : q # pass => memo'[q] = memo[q] PROVE WorkInv'
    BY <1>1, <2>1, WorkWithin DEF Estimates
  <2>2. ASSUME NEW key, NEW r, Store(key, r)
        PROVE  \A q \in Passes : q # pass => memo'[q] = memo[q]
    <3>1. DOMAIN memo = Passes /\ pass \in Passes
      BY <1>1 DEF WalkInv, Shape, Passes
    <3> QED  BY <2>2, <3>1, Stored
  <2>3. ASSUME NEW v, Conclude(v) PROVE WorkInv'
    BY <2>1, <2>3 DEF Conclude
  <2>4. ASSUME NEW key, NEW below, Call(key, below) PROVE WorkInv'
    BY <2>1, <2>2, <2>4 DEF Call
  <2>5. CASE Begin
    BY <2>3, <2>4, <2>5 DEF Begin
  <2>6. CASE Visit
    <3>1. PICK e : Descend(e) \/ Revisit(e) \/ Fail(e)
      BY <2>6 DEF Visit
    <3>2. CASE Revisit(e)
      BY <2>1, <3>2 DEF Revisit
    <3> QED  BY <2>3, <2>4, <3>1, <3>2 DEF Descend, Fail
  <2>7. CASE Unproved
    BY <2>3, <2>7 DEF Unproved
  <2>8. CASE Finish
    BY <2>1, <2>2, <2>8 DEF Finish, Finished
  <2>9. CASE ValidateFixture
    BY <1>1, <2>9 DEF ValidateFixture
  <2>10. CASE UNCHANGED vars
    BY <2>1, <2>10 DEF vars
  <2> QED  BY <2>5, <2>6, <2>7, <2>8, <2>9, <2>10, FinishPassWork DEF Next
<1>2. CASE pass \in Estimates
  <2>1. CASE Visit
    <3>1. stack # <<>>
      BY <2>1 DEF Visit
    <3>2. PICK e \in Top.left : Descend(e) \/ Revisit(e) \/ Fail(e)
      BY <2>1 DEF Visit, NextEdges
    <3>3. ~Fail(e)
      BY <1>2, <3>1, EstimateSurvives DEF Fail, Estimates
    <3> QED  BY <1>2, <3>1, <3>2, <3>3, DescendWork, RevisitWork
  <2>2. ~Unproved /\ ~ValidateFixture
    BY <1>2 DEF Unproved, ValidateFixture, Estimates
  <2>3. CASE UNCHANGED vars
    <3>1. UNCHANGED <<schema, fixture, pass, memo, stack>>
      BY <2>3 DEF vars
    <3>2. /\ Weights' = Weights /\ Evaluable' = Evaluable
          /\ \A k, l, w : Weighs(k, l, w)' = Weighs(k, l, w)
      BY <3>1, WeighsKept
    <3>3. ASSUME NEW i \in 1..Len(stack')
          PROVE  /\ i < Len(stack') => stack'[i].via \notin stack'[i].left
                 /\ Weighs(stack[i].key, Waiting(i), stack[i].work)'
      <4>1. i \in 1..Len(stack) /\ Waiting(i)' = Waiting(i)
        BY <3>1 DEF Waiting
      <4>2. PICK k, l, w : k = stack[i].key /\ l = Waiting(i) /\ w = stack[i].work
        OBVIOUS
      <4>3. Weighs(k, l, w) /\ (i < Len(stack) => stack[i].via \notin stack[i].left)
        BY <1>2, <4>1, <4>2 DEF WorkInv
      <4>4. Weighs(k, l, w)'
        BY <3>2, <4>3
      <4> QED  BY <3>1, <4>1, <4>2, <4>3, <4>4
    <3>4. /\ DOMAIN memo'[pass] \subseteq Evaluable'
          /\ \A k \in DOMAIN memo'[pass] :
               memo'[pass][k].state = "done" => Exact(memo'[pass][k].work, Weights'[k])
      BY <1>2, <3>1, <3>2 DEF WorkInv
    <3> QED  BY <3>1, <3>3, <3>4, WorkWithin
  <2> QED  BY <1>2, <2>1, <2>2, <2>3, BeginWork, FinishWork, FinishPassWork DEF Next
<1>3. CASE pass = "fixture"
  <2>1. stack = <<>>
    BY <1>3 DEF WalkInv, Shape, Passes
  <2>2. CASE ValidateFixture
    <3>1. /\ pass' = "instance" /\ stack' = <<>>
          /\ memo' = [memo EXCEPT !["instance"] = Empty] /\ DOMAIN memo = Passes
      BY <2>1, <2>2 DEF ValidateFixture, WalkInv, Shape
    <3>2. DOMAIN memo'["instance"] = {} /\ 1..Len(stack') = {}
      BY <3>1 DEF Passes, Empty
    <3> QED  BY <3>1, <3>2 DEF WorkInv
  <2>3. CASE UNCHANGED vars
    BY <1>3, <2>3 DEF vars, WorkInv, Estimates
  <2>4. ~Begin /\ ~Visit /\ ~Unproved /\ ~Finish /\ ~FinishPass
    BY <1>3, <2>1 DEF Begin, Visit, Unproved, Finish, FinishPass, Finished
  <2> QED  BY <2>2, <2>3, <2>4 DEF Next
<1> QED  BY <1>1, <1>2, <1>3 DEF WalkInv, Shape, Passes, Estimates

\* Nothing has been counted.
LEMMA WorkInit == Init => WorkInv
BY DEF Init, WorkInv, Estimates

-----------------------------------------------------------------------------
(* What is decided.                                                          *)

\* A verdict is that of the definitions, and what passed stays within them.
DecidedInv ==
  /\ verdict \in {"accepted", "refused"} => pass = "fixture"
  /\ pass \in {"fixture", "instance"} => Evaluations <= MaxWork
  /\ verdict = "rejected" => ~(Portable /\ Evaluations <= MaxWork)
  /\ pass = "fixture" /\ memo["instance"] # Empty =>
       (verdict = "refused" <=> FixtureEvaluations > MaxWork)

\* A step within a pass decides nothing.
LEMMA DecidesNothing ==
  ASSUME DecidedInv, schema' = schema, pass' = pass, verdict' = verdict, pass # "fixture"
  PROVE  DecidedInv'
<1>1. Evaluations' = Evaluations /\ (Portable' <=> Portable)
  BY EvaluationsKept, PortableKept
<1> QED  BY <1>1 DEF DecidedInv

\* The end of a pass decides by what the root returns.
LEMMA FinishPassDecides ==
  ASSUME WalkInv, ProofInv, FixtureInv, DepthInv, WorkInv, DecidedInv, FinishPass
  PROVE  DecidedInv'
<1>1. /\ Finished /\ stack # <<>> /\ schema' = schema /\ fixture' = fixture
      /\ pass \in Passes /\ verdict = "none" /\ Store(Top.key, Returned) /\ DOMAIN memo = Passes
  BY TopFrame DEF FinishPass, Finished
<1>2. /\ Evaluations' = Evaluations /\ (Portable' <=> Portable)
      /\ FixtureEvaluations' = FixtureEvaluations
  BY <1>1, EvaluationsKept, PortableKept, FixtureEvaluationsKept
<1>3. CASE pass = "proof"
  <2>1. pass' = "structure" /\ verdict' = "none"
    BY <1>1, <1>3 DEF FinishPass
  <2> QED  BY <2>1 DEF DecidedInv
<1>4. CASE pass = "structure"
  <2>1. memo'["instance"] = Empty
    <3>1. memo'["instance"] = memo["instance"]
      BY <1>1, <1>4, Stored DEF Passes
    <3> QED  BY <1>4, <3>1 DEF WorkInv
  <2>2. CASE Returned.work > MaxWork
    <3>1. pass' = "structure" /\ verdict' = "rejected"
      BY <1>4, <2>2 DEF FinishPass
    <3>2. ~(Evaluations <= MaxWork)
      <4>1. Evaluations > MaxWork
        BY <1>4, <2>2, RootCount DEF Estimates
      <4>2. Evaluations \in Nat
        <5>1. schema \in Schemas /\ Root \in DOMAIN schema /\ Levels \in 0..Levels
          BY SchemasAssumption, LimitsAssumption DEF WalkInv, Shape, Levels
        <5>2. evaluations[Levels] \in [DOMAIN schema -> Nat]
          BY <5>1, EvaluationsDefined
        <5> QED  BY <5>1, <5>2 DEF Evaluations, Levels
      <4> QED  BY <4>1, <4>2, LimitsAssumption
    <3> QED  BY <1>2, <3>1, <3>2 DEF DecidedInv
  <2>3. CASE ~(Returned.work > MaxWork)
    <3>1. pass' = "fixture" /\ verdict' = "accepted"
      BY <1>4, <2>3 DEF FinishPass
    <3>2. Evaluations <= MaxWork
      BY <1>4, <2>3, RootCount DEF Estimates
    <3> QED  BY <1>2, <2>1, <3>1, <3>2 DEF DecidedInv
  <2> QED  BY <2>2, <2>3
<1>5. CASE pass = "instance"
  <2>1. pass' = "fixture" /\ verdict' = IF Returned.work > MaxWork THEN "refused" ELSE "accepted"
    BY <1>5 DEF FinishPass
  <2>2. Returned.work > MaxWork <=> FixtureEvaluations > MaxWork
    BY <1>5, RootCount DEF Estimates
  <2>3. Evaluations <= MaxWork
    BY <1>5 DEF DecidedInv
  <2> QED  BY <1>2, <2>1, <2>2, <2>3 DEF DecidedInv
<1> QED  BY <1>1, <1>3, <1>4, <1>5 DEF Passes

\* Every step decides as the definitions say.
LEMMA DecidedStep ==
  ASSUME WalkInv, ProofInv, EstimateInv, FixtureInv, DepthInv, SpentInv, WorkInv, DecidedInv,
         [Next]_vars
  PROVE  DecidedInv'
<1>1. ASSUME Conclude("rejected"), pass = "proof", verdict = "none", Next
      PROVE  DecidedInv'
  <2>1. schema' = schema /\ pass' = "proof" /\ verdict' = "rejected"
    BY <1>1 DEF Conclude
  <2>2. ~Portable
    BY <1>1, <2>1, RejectedNotPortable
  <2>3. ~Portable'
    BY <2>1, <2>2, PortableKept
  <2> QED  BY <2>1, <2>3 DEF DecidedInv
<1>2. CASE Begin
  <2>1. pass # "fixture" /\ verdict = "none"
    BY <1>2 DEF Begin
  <2>2. CASE pass = "proof" /\ Malformed(Root)
    <3>1. Conclude("rejected") /\ Next
      BY <1>2, <2>2 DEF Begin, Next
    <3> QED  BY <1>1, <2>1, <2>2, <3>1
  <2>3. CASE ~(pass = "proof" /\ Malformed(Root))
    <3>1. schema' = schema /\ pass' = pass /\ verdict' = verdict
      BY <1>2, <2>3 DEF Begin, Call
    <3> QED  BY <2>1, <3>1, DecidesNothing
  <2> QED  BY <2>2, <2>3
<1>3. CASE Visit
  <2>1. stack # <<>> /\ Next
    BY <1>3 DEF Visit, Next
  <2>2. verdict = "none" /\ pass \in Passes
    BY <2>1, TopFrame
  <2>3. PICK e \in Top.left : Descend(e) \/ Revisit(e) \/ Fail(e)
    BY <1>3 DEF Visit, NextEdges
  <2>4. CASE Fail(e)
    <3>1. pass = "proof" /\ Conclude("rejected")
      BY <2>1, <2>4, EstimateSurvives DEF Fail
    <3> QED  BY <1>1, <2>1, <2>2, <3>1
  <2>5. CASE Descend(e) \/ Revisit(e)
    <3>1. schema' = schema /\ pass' = pass /\ verdict' = verdict /\ pass # "fixture"
      BY <2>2, <2>5 DEF Descend, Revisit, Call, Passes
    <3> QED  BY <3>1, DecidesNothing
  <2> QED  BY <2>3, <2>4, <2>5
<1>4. CASE Unproved
  <2>1. /\ stack # <<>> /\ pass = "proof" /\ Conclude("rejected") /\ Next
    BY <1>4 DEF Unproved, Next
  <2> QED  BY <1>1, <2>1, TopFrame
<1>5. CASE Finish
  <2>1. /\ schema' = schema /\ pass' = pass /\ verdict' = verdict /\ stack # <<>>
    BY <1>5 DEF Finish, Finished
  <2>2. pass # "fixture"
    BY <2>1, TopFrame DEF Passes
  <2> QED  BY <2>1, <2>2, DecidesNothing
<1>6. CASE FinishPass
  BY <1>6, FinishPassDecides
<1>7. CASE ValidateFixture
  <2>1. schema' = schema /\ pass = "fixture" /\ pass' = "instance" /\ verdict' = "none"
    BY <1>7 DEF ValidateFixture
  <2>2. Evaluations' = Evaluations
    BY <2>1, EvaluationsKept
  <2> QED  BY <2>1, <2>2 DEF DecidedInv
<1>8. CASE UNCHANGED vars
  <2>1. UNCHANGED <<schema, fixture, pass, memo, verdict>>
    BY <1>8 DEF vars
  <2>2. /\ Evaluations' = Evaluations /\ (Portable' <=> Portable)
        /\ FixtureEvaluations' = FixtureEvaluations
    BY <2>1, EvaluationsKept, PortableKept, FixtureEvaluationsKept
  <2> QED  BY <2>1, <2>2 DEF DecidedInv
<1> QED  BY <1>2, <1>3, <1>4, <1>5, <1>6, <1>7, <1>8 DEF Next

\* Nothing has been decided.
LEMMA DecidedInit == Init => DecidedInv
BY DEF Init, DecidedInv

\* All that is known together: of the walk, of what is proved and how deep, of the
\* operations, of the estimates and of what was decided.
LEMMA AllKnown ==
  Spec => [](WalkInv /\ ProofInv /\ EstimateInv /\ FixtureInv /\ DepthInv /\ SpentInv
               /\ WorkInv /\ DecidedInv)
<1> DEFINE Inv == WalkInv /\ ProofInv /\ EstimateInv /\ FixtureInv /\ DepthInv /\ SpentInv
                    /\ WorkInv /\ DecidedInv
<1>1. Init => Inv
  <2>1. Init => EstimateInv /\ FixtureInv
    BY DEF Init, EstimateInv, FixtureInv
  <2> QED  BY <2>1, WalkInit, ProofInit, DepthInit, SpentInit, WorkInit, DecidedInit
<1>2. Inv /\ [Next]_vars => Inv'
  <2> SUFFICES ASSUME Inv, [Next]_vars PROVE Inv'
    OBVIOUS
  <2>1. WalkInv' /\ ProofInv' /\ DepthInv' /\ SpentInv'
    BY WalkStep, ProofStep, DepthStep, SpentStep
  <2>2. EstimateInv' /\ FixtureInv'
    BY EstimateInvStep, FixtureStep
  <2>3. WorkInv'
    BY WorkStep
  <2>4. DecidedInv'
    BY DecidedStep
  <2> QED  BY <2>1, <2>2, <2>3, <2>4
<1> QED  BY <1>1, <1>2, PTL DEF Spec

\* The verdict on a schema is that of the definition, whatever order Go visits a map
\* in and whatever the memos remember: a schema passes the proof only when it is
\* portable, it is rejected only when it is not or all its evaluations are over the
\* limit, and it is accepted only when they are within it.
THEOREM VerdictDecidedAlways == Spec => []VerdictDecided
<1>1. WalkInv /\ ProofInv /\ DepthInv /\ SpentInv /\ DecidedInv => VerdictDecided
  <2> SUFFICES ASSUME WalkInv, ProofInv, DepthInv, SpentInv, DecidedInv PROVE VerdictDecided
    OBVIOUS
  <2>1. pass = "structure" => Portable
    BY PortableProved
  <2> QED  BY <2>1 DEF DecidedInv, VerdictDecided
<1> QED  BY <1>1, AllKnown, PTL

\* A fixture is turned down for its work exactly when all its evaluations, repeated
\* ones included, are over the limit, and no estimate ends in an error.
THEOREM FixtureDecidedAlways == Spec => []FixtureDecided
<1>1. EstimateInv /\ DecidedInv => FixtureDecided
  BY DEF EstimateInv, DecidedInv, FixtureDecided
<1> QED  BY <1>1, AllKnown, PTL
=============================================================================
