--------------------------- MODULE SnapshotCompile ---------------------------
(***************************************************************************)
(* The Snapshot compiler (snapshot/snapshot.go, snapshot/contracts.go):    *)
(* Compile closes a set of acquired packages, Interfaces, Bindings and     *)
(* default pins into one exact graph, stage by stage; the first stage that *)
(* fails answers with its diagnostics.                                     *)
(*                                                                         *)
(* Go visits maps in any order and the caller's slices come in any order,  *)
(* so every loop visits in an arbitrary one here and every sort starts     *)
(* from it.  The same input is compiled more than once, its slices         *)
(* permuted, and the outcomes are kept for comparison.                     *)
(*                                                                         *)
(* A text is a number whose order is the text's; an identity is the tuple  *)
(* of its texts: <<group, kind, version, digest>> of a Form,               *)
(* <<name, version, digest>> of a contract (its apiVersion is left out).   *)
(***************************************************************************)
EXTENDS Integers, Sequences, FiniteSets, SequencesExt

CONSTANTS
  Inputs,       \* the inputs compiled, see InputShape
  SemVer,       \* version text -> its precedence, NoSemVer when it does not parse
  NoSemVer,
  MaxCompiles   \* bound: how often one input is compiled

Elements(seq) == {seq[i] : i \in DOMAIN seq}
IsList(seq) == seq \in Seq(Elements(seq))

\* The identities of Forms and of contracts.
FormKeys == Int \X Int \X (DOMAIN SemVer) \X Int
ContractKeys == Int \X Int \X Int

\* A desired schema is a document: its nodes are numbered from the root down, and
\* only a $ref may lead back up.
IsDocument(schema) ==
  /\ IsList(schema) /\ schema # <<>>
  /\ \A n \in DOMAIN schema :
       /\ schema[n].bind \in Int
       /\ schema[n].need \in ContractKeys \cup {<<>>}
       /\ schema[n].targets \in Seq(FormKeys)
       /\ schema[n].kids \subseteq (n + 1)..Len(schema)
       /\ schema[n].ref \in 0..Len(schema)

\* An artifact: where it came from, and the digest of its bytes.
IsArtifact(a) == a.origin \in Seq(Int) /\ a.digest \in Int

\* Every part of an input is a sequence, in the order the caller gave it.
InputShape ==
  \A in \in Inputs :
    /\ DOMAIN in = {"hostAPI", "packages", "interfaces", "bindings", "pins"}
    /\ \A part \in {"packages", "interfaces", "bindings", "pins"} : IsList(in[part])
    /\ \A p \in Elements(in.packages) :
         /\ IsArtifact(p) /\ p.ref \in FormKeys
         /\ p.provides \in Seq(ContractKeys) /\ p.accepts \in Seq(ContractKeys)
         /\ IsDocument(p.schema)
    /\ \A a \in Elements(in.interfaces) \cup Elements(in.bindings) :
         IsArtifact(a) /\ a.ref \in ContractKeys
    /\ \A b \in Elements(in.bindings) :
         /\ b.target \in ContractKeys
         /\ b.operations \subseteq Int /\ IsFiniteSet(b.operations)
    /\ \A pin \in Elements(in.pins) : pin.group \in Int \X Int

ASSUME CompilesAssumption == MaxCompiles \in Nat \ {0}
ASSUME InputsAssumption == InputShape
ASSUME SemVerAssumption ==
  /\ DOMAIN SemVer \subseteq Int
  /\ \A v \in DOMAIN SemVer : SemVer[v] = NoSemVer \/ SemVer[v] \in Int

VARIABLES
  stage,       \* the next stage of Compile, or "done"
  input,       \* Input, as given to this Compile
  forms,       \* forms: exact key -> package
  interfaces,  \* interfaces: exact key -> artifact
  bindings,    \* bindings: exact key -> artifact
  defaults,    \* defaults: <<group, kind>> -> exact key
  outcome,     \* what this Compile returned
  outcomes,    \* history: what every Compile of this input returned
  compiles     \* history: how many there were

vars == <<stage, input, forms, interfaces, bindings, defaults, outcome, outcomes, compiles>>
closed == <<forms, interfaces, bindings, defaults>>

NoOutcome == [kind |-> "none"]
Empty == <<>>  \* the function of empty domain
NoName == 0    \* no binding context, no annotation
NoNode == 0    \* no $ref
NoDigest == 0  \* not a canonical digest

Refs(artifacts) == {artifacts[i].ref : i \in DOMAIN artifacts}

-----------------------------------------------------------------------------
(* Orders and sorting.                                                       *)

\* Lexicographic order of tuples of texts.
LexLess(s, t) ==
  \E i \in 1..Len(t) :
    /\ i - 1 <= Len(s)
    /\ SubSeq(s, 1, i - 1) = SubSeq(t, 1, i - 1)
    /\ i > Len(s) \/ s[i] < t[i]

\* sort.Slice on a short slice is an insertion sort: an element moves left past
\* those it is less than and stops at the first it is not.
InsertSorted(less, sorted, e) ==
  LET stops == {j \in 0..Len(sorted) : j = 0 \/ <<e, sorted[j]>> \notin less}
  IN InsertAt(sorted, (CHOOSE j \in stops : \A k \in stops : k <= j) + 1, e)

SortBy(less, seq) ==
  LET sorted[k \in 0..Len(seq)] ==
        IF k = 0 THEN <<>> ELSE InsertSorted(less, sorted[k - 1], seq[k])
  IN sorted[Len(seq)]

SortSlice(Less(_, _), seq) ==
  SortBy({x \in Elements(seq) \X Elements(seq) : Less(x[1], x[2])}, seq)

\* Mutated form: the digest does not take part.
LessKeyNoDigest(l, r) ==
  LET vl == SemVer[l[3]]
      vr == SemVer[r[3]]
  IN IF <<l[1], l[2]>> # <<r[1], r[2]>> THEN LexLess(<<l[1], l[2]>>, <<r[1], r[2]>>)
     ELSE IF vl # NoSemVer /\ vr # NoSemVer /\ vl # vr THEN vl < vr
     ELSE l[3] < r[3]

\* lessKey: group, kind, then precedence when both versions parse and differ in
\* it, then the version's text and the digest.
LessKey(l, r) ==
  LET vl == SemVer[l[3]]
      vr == SemVer[r[3]]
  IN IF <<l[1], l[2]>> # <<r[1], r[2]>> THEN LexLess(<<l[1], l[2]>>, <<r[1], r[2]>>)
     ELSE IF vl # NoSemVer /\ vr # NoSemVer /\ vl # vr THEN vl < vr
     ELSE LexLess(<<l[3], l[4]>>, <<r[3], r[4]>>)

\* The rank of a DiagnosticCode's text.
CodeRank ==
  [ambiguous_default |-> 1, digest_mismatch |-> 2, duplicate_identity |-> 3,
   invalid_artifact |-> 4, invalid_input |-> 5, missing_default |-> 6,
   unresolved_reference |-> 7, unsupported_host_api |-> 8]

Diagnostic(code, subject, pointer, message) ==
  [code |-> code, subject |-> subject, pointer |-> pointer, message |-> message]

\* sortedDiagnostics: subject, pointer, code, message.
DiagnosticLess(l, r) ==
  IF l.subject # r.subject THEN LexLess(l.subject, r.subject)
  ELSE IF l.pointer # r.pointer THEN LexLess(l.pointer, r.pointer)
  ELSE IF l.code # r.code THEN CodeRank[l.code] < CodeRank[r.code]
  ELSE LexLess(l.message, r.message)

-----------------------------------------------------------------------------
(* What the stages find wrong.                                               *)

\* The lanes of hostAPILaneOrder, and those selectableHostAPILanes serves.
LaneOrder == [v1beta1 |-> 1, v1beta4 |-> 2, v1 |-> 3]
SelectableLanes == {"v1"}

\* A served lane that comes no earlier than the required one; an unknown lane is
\* no lane's equal.
HostAPISatisfies(served, required) ==
  /\ {served, required} \subseteq DOMAIN LaneOrder
  /\ LaneOrder[served] >= LaneOrder[required]

\* artifactSubject, contractArtifactSubject: the origin, unless it is blank.
Subject(a) == IF a.origin # <<>> THEN a.origin ELSE <<a.digest>>

\* The first check of an artifact that fails is the one reported.
FirstFailure(a, checks) ==
  LET failing == {i \in DOMAIN checks : ~checks[i].holds}
      first == CHOOSE i \in failing : \A j \in failing : i <= j
  IN IF failing = {} THEN {}
     ELSE {Diagnostic(checks[first].code, Subject(a), <<checks[first].at>>, <<>>)}

Check(holds, code, at) == [holds |-> holds, code |-> code, at |-> at]

\* compileArtifact: issued by the verifier, pinned, with a definition entry, a
\* definition that validates again, and the FormRef of the index its own.
CompileArtifact(p) ==
  FirstFailure(p, <<Check(p.issued, "invalid_artifact", 1),
                    Check(p.pin # NoDigest, "invalid_artifact", 2),
                    Check(p.digest = p.pin, "digest_mismatch", 3),
                    Check(p.hasDefinition, "invalid_artifact", 4),
                    Check(p.revalidates, "invalid_artifact", 5),
                    Check(p.definitionRef = p.ref, "digest_mismatch", 6)>>)

\* compileInterfaceArtifact and compileBindingArtifact: a digest pin, the
\* normative schema, the digest of the bytes.
CompileContractArtifact(a) ==
  FirstFailure(a, <<Check(a.pin # NoDigest, "invalid_artifact", 2),
                    Check(a.valid, "invalid_artifact", 7),
                    Check(a.digest = a.pin, "digest_mismatch", 7)>>)

SuppliedOnce(artifacts, key) ==
  \A i, j \in DOMAIN artifacts :
    artifacts[i].ref = key /\ artifacts[j].ref = key => i = j

\* The origins of all artifacts of one identity, met in the caller's order and sorted
\* (sort.Strings).
DuplicateOrigins(artifacts, key) ==
  LET same == {i \in DOMAIN artifacts : artifacts[i].ref = key}
      met == CHOOSE s \in SetToSeqs(same) : \A i, j \in DOMAIN s : i < j => s[i] < s[j]
  IN FlattenSeq(SortSlice(LexLess, [i \in DOMAIN met |-> Subject(artifacts[met[i]])]))

\* An exact identity supplied more than once, by whom.
Duplicates(artifacts) ==
  {Diagnostic("duplicate_identity", key, <<>>, DuplicateOrigins(artifacts, key)) :
     key \in {k \in Refs(artifacts) : ~SuppliedOnce(artifacts, k)}}

\* The candidates by identity, each supplied once.
ByIdentity(artifacts) ==
  [k \in Refs(artifacts) |-> CHOOSE a \in Elements(artifacts) : a.ref = k]

\* compileContracts, on the operations of a Binding's runtimeProjection and of
\* its access modes: each is one of the exact target Interface.
BindingFaults(b, ifs) ==
  IF b.target \notin DOMAIN ifs
  THEN {Diagnostic("unresolved_reference", b.ref, <<1>>, b.target)}
  ELSE {Diagnostic("invalid_artifact", b.ref, <<2>>, <<op>> \o b.target) :
          op \in b.operations \ ifs[b.target].operations}

-----------------------------------------------------------------------------
(* Contract annotations of a desired schema.  A schema is a function from its *)
(* nodes, 1 the root, to [bind, need, targets, kids, ref]: the annotations    *)
(* x-takoform-binding, -required-interface and -target-formrefs, the nodes    *)
(* below it and the node its $ref resolves to.                                *)

\* Mutated form: the keys are visited in their order and the binding annotation is
\* read after "$ref", "items" or "properties".
ContractAnnotationsInKeyOrder(schema) ==
  LET names == {NoName} \cup {schema[n].bind : n \in DOMAIN schema}
      walk[x \in (DOMAIN schema) \X names \X SUBSET ((DOMAIN schema) \X names)] ==
        LET node == schema[x[1]]
            name == IF node.bind # NoName THEN node.bind ELSE x[2]
            here == IF node.need = <<>> THEN {}
                    ELSE {[at |-> x[1], ref |-> node.need, name |-> name]}
            below == UNION {walk[<<kid, x[2], x[3]>>] : kid \in node.kids}
            through == <<node.ref, x[2]>>
        IN here \cup below \cup
           IF x[2] = NoName \/ node.ref = NoNode \/ through \in x[3] THEN {}
           ELSE walk[<<node.ref, x[2], x[3] \cup {through}>>]
  IN walk[<<1, NoName, {}>>]

\* contractAnnotationsWithBinding, the required Interfaces: a node's binding
\* annotation names the context of all below it, and a $ref is followed in a
\* context only, unless that target is being visited in that context already.
ContractAnnotations(schema) ==
  LET names == {NoName} \cup {schema[n].bind : n \in DOMAIN schema}
      walk[x \in (DOMAIN schema) \X names \X SUBSET ((DOMAIN schema) \X names)] ==
        LET node == schema[x[1]]
            name == IF node.bind # NoName THEN node.bind ELSE x[2]
            here == IF node.need = <<>> THEN {}
                    ELSE {[at |-> x[1], ref |-> node.need, name |-> name]}
            below == UNION {walk[<<kid, name, x[3]>>] : kid \in node.kids}
            through == <<node.ref, name>>
        IN here \cup below \cup
           IF name = NoName \/ node.ref = NoNode \/ through \in x[3] THEN {}
           ELSE walk[<<node.ref, name, x[3] \cup {through}>>]
  IN walk[<<1, NoName, {}>>]

\* acceptedBindingByName.
AcceptedByName(p, name) ==
  {i \in DOMAIN p.accepts : p.accepts[i][1] = name}

UnresolvedInterface(p, pointer, ref) ==
  Diagnostic("unresolved_reference", p.ref, pointer, ref)

ProvidedFaults(p, ifs) ==
  {UnresolvedInterface(p, <<3, i>>, p.provides[i]) :
     i \in {j \in DOMAIN p.provides : p.provides[j] \notin DOMAIN ifs}}

AcceptedFaults(p, bs) ==
  LET absent == {i \in DOMAIN p.accepts : p.accepts[i] \notin DOMAIN bs}
      otherRole == {i \in DOMAIN p.accepts \ absent : bs[p.accepts[i]].role # p.role}
  IN {Diagnostic("unresolved_reference", p.ref, <<4, i>>, p.accepts[i]) : i \in absent}
     \cup {Diagnostic("invalid_artifact", p.ref, <<4, i>>, <<>>) : i \in otherRole}

\* A required Interface is present, and the target of the Binding its context
\* names if exactly one accepted Binding has that name and is present.
AnnotatedInterfaceFaults(p, ifs, bs) ==
  LET all == ContractAnnotations(p.schema)
      absent == {x \in all : x.ref \notin DOMAIN ifs}
      bound(x) == {p.accepts[i] : i \in AcceptedByName(p, x.name)} \cap DOMAIN bs
      mismatched == {x \in all \ absent :
                       /\ x.name # NoName
                       /\ Cardinality(AcceptedByName(p, x.name)) = 1
                       /\ \E b \in bound(x) : bs[b].target # x.ref}
  IN {UnresolvedInterface(p, <<5, x.at>>, x.ref) : x \in absent}
     \cup {Diagnostic("invalid_artifact", p.ref, <<5, x.at>>, <<x.name>> \o x.ref) :
             x \in mismatched}

\* A binding annotation names exactly one accepted Binding.
AnnotatedBindingFaults(p) ==
  {Diagnostic("unresolved_reference", p.ref, <<6, n>>, <<p.schema[n].bind>>) :
     n \in {m \in DOMAIN p.schema :
              /\ p.schema[m].bind # NoName
              /\ Cardinality(AcceptedByName(p, p.schema[m].bind)) # 1}}

\* Mutated form: a Form's accepted Bindings are not looked up.
ReferenceFaultsNoBindings(p, ifs, bs) ==
  ProvidedFaults(p, ifs) \cup AnnotatedInterfaceFaults(p, ifs, bs)
    \cup AnnotatedBindingFaults(p)

\* closeContractReferences, of one Form.
ReferenceFaults(p, ifs, bs) ==
  ProvidedFaults(p, ifs) \cup AcceptedFaults(p, bs)
    \cup AnnotatedInterfaceFaults(p, ifs, bs) \cup AnnotatedBindingFaults(p)

\* targetRefs: every target annotation of the schema, wherever it stands.
TargetFaults(p, fs) ==
  LET unresolved(ts) == {i \in DOMAIN ts : ts[i] \notin DOMAIN fs}
  IN UNION {{Diagnostic("unresolved_reference", p.ref, <<7, n, i>>, p.schema[n].targets[i]) :
               i \in unresolved(p.schema[n].targets)} : n \in DOMAIN p.schema}

LaneFaults(p, hostAPI) ==
  IF p.requires = "" \/ HostAPISatisfies(hostAPI, p.requires) THEN {}
  ELSE {Diagnostic("unsupported_host_api", p.ref, <<8>>, <<>>)}

GroupKind(key) == <<key[1], key[2]>>
PinsOf(pins, group) == {i \in DOMAIN pins : pins[i].group = group}
Groups(fs, pins) ==
  {GroupKind(k) : k \in DOMAIN fs} \cup {pins[i].group : i \in DOMAIN pins}

\* compileDefaults, of one group and kind: one pin, on its own identity, of a
\* Form of this Snapshot.
DefaultFault(group, fs, pins) ==
  LET own == PinsOf(pins, group)
      fault(code) == {Diagnostic(code, group, <<>>, <<>>)}
  IN IF own = {} THEN fault("missing_default")
     ELSE IF Cardinality(own) # 1 THEN fault("ambiguous_default")
     ELSE IF \E i \in own : GroupKind(pins[i].ref) # group THEN fault("ambiguous_default")
     ELSE IF \E i \in own : pins[i].ref \notin DOMAIN fs THEN fault("unresolved_reference")
     ELSE {}

\* The identity each group and kind is pinned to.
DefaultPins(fs, pins) ==
  [g \in Groups(fs, pins) |-> pins[CHOOSE i \in PinsOf(pins, g) : TRUE].ref]

-----------------------------------------------------------------------------
(* The stages of Compile.                                                    *)

Return(result) ==
  /\ outcome' = result
  /\ outcomes' = outcomes \cup {result}
  /\ stage' = "done"
  /\ UNCHANGED <<input, compiles>>

\* Mutated form: a failed stage returns nothing at all.
RefuseSilently(faults) == Return(NoOutcome) /\ UNCHANGED closed

\* A failed stage: its diagnostics, in the order it met them, sorted.
Refuse(faults) ==
  /\ \E visited \in SetToSeqs(faults) :
       Return([kind |-> "refused", diagnostics |-> SortSlice(DiagnosticLess, visited)])
  /\ UNCHANGED closed

Pass(next) ==
  /\ stage' = next
  /\ UNCHANGED <<input, outcome, outcomes, compiles>>

InputFault(code) == {Diagnostic(code, <<>>, <<9>>, <<>>)}

\* The lane is well-formed and known, and served today.
CheckHostAPI ==
  /\ stage = "host"
  /\ IF input.hostAPI \notin DOMAIN LaneOrder THEN Refuse(InputFault("invalid_input"))
     ELSE IF input.hostAPI \notin SelectableLanes
          THEN Refuse(InputFault("unsupported_host_api"))
     ELSE Pass("packages") /\ UNCHANGED closed

CompilePackages ==
  LET faults == UNION {CompileArtifact(p) : p \in Elements(input.packages)}
  IN /\ stage = "packages"
     /\ IF faults # {} THEN Refuse(faults)
        ELSE Pass("forms") /\ UNCHANGED closed

CollectForms ==
  LET faults == Duplicates(input.packages)
  IN /\ stage = "forms"
     /\ IF faults # {} THEN Refuse(faults)
        ELSE /\ Pass("contracts")
             /\ forms' = ByIdentity(input.packages)
             /\ UNCHANGED <<interfaces, bindings, defaults>>

CompileContractArtifacts ==
  LET faults == UNION {CompileContractArtifact(a) :
                         a \in Elements(input.interfaces) \cup Elements(input.bindings)}
  IN /\ stage = "contracts"
     /\ IF faults # {} THEN Refuse(faults)
        ELSE Pass("collect") /\ UNCHANGED closed

CollectContracts ==
  LET faults == Duplicates(input.interfaces) \cup Duplicates(input.bindings)
  IN /\ stage = "collect"
     /\ IF faults # {} THEN Refuse(faults)
        ELSE /\ Pass("projections")
             /\ interfaces' = ByIdentity(input.interfaces)
             /\ bindings' = ByIdentity(input.bindings)
             /\ UNCHANGED <<forms, defaults>>

CloseBindings ==
  LET faults == UNION {BindingFaults(bindings[b], interfaces) : b \in DOMAIN bindings}
  IN /\ stage = "projections"
     /\ IF faults # {} THEN Refuse(faults)
        ELSE Pass("references") /\ UNCHANGED closed

CloseContractReferences ==
  LET faults == UNION {ReferenceFaults(forms[k], interfaces, bindings) : k \in DOMAIN forms}
  IN /\ stage = "references"
     /\ IF faults # {} THEN Refuse(faults)
        ELSE Pass("lanes") /\ UNCHANGED closed

CheckLanes ==
  LET faults == UNION {LaneFaults(forms[k], input.hostAPI) : k \in DOMAIN forms}
  IN /\ stage = "lanes"
     /\ IF faults # {} THEN Refuse(faults)
        ELSE Pass("targets") /\ UNCHANGED closed

CloseTargets ==
  LET faults == UNION {TargetFaults(forms[k], forms) : k \in DOMAIN forms}
  IN /\ stage = "targets"
     /\ IF faults # {} THEN Refuse(faults)
        ELSE Pass("defaults") /\ UNCHANGED closed

CompileDefaults ==
  LET faults == UNION {DefaultFault(g, forms, input.pins) : g \in Groups(forms, input.pins)}
  IN /\ stage = "defaults"
     /\ IF faults # {} THEN Refuse(faults)
        ELSE /\ Pass("digest")
             /\ defaults' = DefaultPins(forms, input.pins)
             /\ UNCHANGED <<forms, interfaces, bindings>>

\* sortedKeys and its like: the keys of a map, visited in any order and sorted.
Sorted(Less(_, _), keys) == {SortSlice(Less, visited) : visited \in SetToSeqs(keys)}

sortedInterfaceKeys == Sorted(LexLess, DOMAIN interfaces)
sortedBindingKeys == Sorted(LexLess, DOMAIN bindings)

\* snapshotDigest encodes the lane, the Forms with their package digests, the
\* contracts and the defaults in these orders; the digest stands for all that.
Issue ==
  /\ stage = "digest"
  /\ \E fs \in Sorted(LessKey, DOMAIN forms), is \in sortedInterfaceKeys,
        bs \in sortedBindingKeys, ds \in Sorted(LexLess, DOMAIN defaults) :
       Return([kind |-> "snapshot", hostAPI |-> input.hostAPI,
               forms |-> [i \in DOMAIN fs |-> <<fs[i], forms[fs[i]].pin>>],
               interfaces |-> is,
               bindings |-> [i \in DOMAIN bs |-> <<bs[i], bindings[bs[i]].target>>],
               defaults |-> [i \in DOMAIN ds |-> <<ds[i], defaults[ds[i]]>>]])
  /\ UNCHANGED closed

\* Another Compile of the same input, its slices in another order (external).
Recompile ==
  /\ stage = "done"
  /\ compiles < MaxCompiles
  /\ \E ps \in SetToSeqs(DOMAIN input.packages), is \in SetToSeqs(DOMAIN input.interfaces),
        bs \in SetToSeqs(DOMAIN input.bindings), ds \in SetToSeqs(DOMAIN input.pins) :
       input' = [input EXCEPT !.packages = [i \in DOMAIN ps |-> @[ps[i]]],
                              !.interfaces = [i \in DOMAIN is |-> @[is[i]]],
                              !.bindings = [i \in DOMAIN bs |-> @[bs[i]]],
                              !.pins = [i \in DOMAIN ds |-> @[ds[i]]]]
  /\ compiles' = compiles + 1
  /\ stage' = "host"
  /\ outcome' = NoOutcome
  /\ forms' = Empty /\ interfaces' = Empty /\ bindings' = Empty /\ defaults' = Empty
  /\ UNCHANGED outcomes

Init ==
  /\ stage = "host"
  /\ input \in Inputs
  /\ forms = Empty /\ interfaces = Empty /\ bindings = Empty /\ defaults = Empty
  /\ outcome = NoOutcome
  /\ outcomes = {}
  /\ compiles = 1

Next ==
  \/ CheckHostAPI \/ CompilePackages \/ CollectForms
  \/ CompileContractArtifacts \/ CollectContracts \/ CloseBindings
  \/ CloseContractReferences \/ CheckLanes \/ CloseTargets \/ CompileDefaults
  \/ Issue \/ Recompile

Spec == Init /\ [][Next]_vars

-----------------------------------------------------------------------------
(* Properties.                                                               *)

Stages ==
  {"host", "packages", "forms", "contracts", "collect", "projections", "references",
   "lanes", "targets", "defaults", "digest", "done"}

TypeOK ==
  /\ stage \in Stages
  /\ \E in \in Inputs :
       /\ input.hostAPI = in.hostAPI
       /\ Elements(input.packages) = Elements(in.packages)
       /\ Elements(input.interfaces) = Elements(in.interfaces)
       /\ Elements(input.bindings) = Elements(in.bindings)
       /\ Elements(input.pins) = Elements(in.pins)
  /\ DOMAIN forms \subseteq Refs(input.packages)
  /\ DOMAIN interfaces \subseteq Refs(input.interfaces)
  /\ DOMAIN bindings \subseteq Refs(input.bindings)
  /\ outcome.kind \in {"none", "refused", "snapshot"}
  /\ stage = "done" <=> outcome.kind # "none"
  /\ compiles \in 1..MaxCompiles

\* Compile's input is order-independent: however the caller orders the slices
\* and Go visits the maps, the same artifacts give the same diagnostics or the
\* same digest.  Every sort must be by a total order for that.
OrderIndependent == Cardinality(outcomes) <= 1

\* What a Snapshot holds is everything it was given, at the pinned digests, and
\* refers to nothing outside it: each stage's check still holds of what the
\* later ones publish, and every group and kind has its own create default.
GraphClosed ==
  outcome.kind = "snapshot" =>
    /\ DOMAIN forms = Refs(input.packages)
    /\ DOMAIN bindings = Refs(input.bindings)
    /\ \A b \in DOMAIN bindings :
         /\ bindings[b].target \in DOMAIN interfaces
         /\ bindings[b].operations \subseteq interfaces[bindings[b].target].operations
    /\ \A k \in DOMAIN forms :
         /\ forms[k].ref = k /\ forms[k].issued /\ forms[k].digest = forms[k].pin
         /\ forms[k].requires # "" => HostAPISatisfies(input.hostAPI, forms[k].requires)
         /\ Elements(forms[k].provides) \subseteq DOMAIN interfaces
         /\ \A i \in DOMAIN forms[k].accepts :
              /\ forms[k].accepts[i] \in DOMAIN bindings
              /\ bindings[forms[k].accepts[i]].role = forms[k].role
         /\ \A n \in DOMAIN forms[k].schema :
              Elements(forms[k].schema[n].targets) \subseteq DOMAIN forms
         /\ GroupKind(k) \in DOMAIN defaults
    /\ \A g \in DOMAIN defaults : defaults[g] \in DOMAIN forms /\ GroupKind(defaults[g]) = g

\* The nodes of a schema with the binding context each can be reached in, going
\* down the tree and, in a context, through $refs.
InContext(schema) ==
  LET at(n, name) == <<n, IF schema[n].bind # NoName THEN schema[n].bind ELSE name>>
      next(x) == {at(kid, x[2]) : kid \in schema[x[1]].kids} \cup
                 IF x[2] = NoName \/ schema[x[1]].ref = NoNode THEN {}
                 ELSE {at(schema[x[1]].ref, x[2])}
      pairs == Cardinality(DOMAIN schema) * (1 + Cardinality(DOMAIN schema))
      reach[i \in 0..pairs] ==
        IF i = 0 THEN {at(1, NoName)}
        ELSE reach[i - 1] \cup UNION {next(x) : x \in reach[i - 1]}
  IN reach[pairs]

\* Wherever a required Interface can be reached under a binding annotation,
\* through whatever $refs, cyclic ones included, the one accepted Binding of that
\* name targets exactly that Interface.
RequirementsBound ==
  outcome.kind = "snapshot" =>
    \A k \in DOMAIN forms :
      \A x \in InContext(forms[k].schema) :
        LET p == forms[k]
            need == p.schema[x[1]].need
        IN need # <<>> =>
             /\ need \in DOMAIN interfaces
             /\ x[2] # NoName =>
                  \E i \in DOMAIN p.accepts :
                    /\ AcceptedByName(p, x[2]) = {i}
                    /\ bindings[p.accepts[i]].target = need
=============================================================================
