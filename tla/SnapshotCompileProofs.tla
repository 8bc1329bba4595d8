------------------------ MODULE SnapshotCompileProofs ------------------------
(***************************************************************************)
(* What an issued Snapshot holds, for every input.  The invariant says     *)
(* what each stage that let the input pass has established, and that no    *)
(* later stage touches what it was established of.                         *)
(*                                                                         *)
(* Then that every Compile of an input answers the same: each stage finds  *)
(* the same faults however the slices are ordered, and what is visited in  *)
(* an order of Go's choosing is sorted by an order that knows no ties.     *)
(***************************************************************************)
EXTENDS SnapshotCompile, FiniteSetTheorems, WellFoundedInduction, TLAPS

\* The stages after each one, up to the outcome of the last.
Left(stages) == stage \in stages \/ outcome.kind = "snapshot"

PackagesPass == \A p \in Elements(input.packages) : CompileArtifact(p) = {}
FormsClosed == Duplicates(input.packages) = {} /\ forms = ByIdentity(input.packages)
ContractsClosed ==
  /\ Duplicates(input.bindings) = {} /\ bindings = ByIdentity(input.bindings)
BindingsClosed == \A b \in DOMAIN bindings : BindingFaults(bindings[b], interfaces) = {}
ReferencesClosed == \A k \in DOMAIN forms : ReferenceFaults(forms[k], interfaces, bindings) = {}
LanesServed == \A k \in DOMAIN forms : LaneFaults(forms[k], input.hostAPI) = {}
TargetsClosed == \A k \in DOMAIN forms : TargetFaults(forms[k], forms) = {}
DefaultsClosed ==
  /\ \A g \in Groups(forms, input.pins) : DefaultFault(g, forms, input.pins) = {}
  /\ defaults = DefaultPins(forms, input.pins)

After1 == {"forms", "contracts", "collect", "projections", "references", "lanes",
           "targets", "defaults", "digest"}
After2 == After1 \ {"forms"}
After3 == After2 \ {"contracts", "collect"}
After4 == After3 \ {"projections"}
After5 == After4 \ {"references"}
After6 == After5 \ {"lanes"}
After7 == After6 \ {"targets"}
After8 == After7 \ {"defaults"}

StagesInv ==
  /\ stage # "done" => outcome.kind # "snapshot"
  /\ Left(After1) => PackagesPass
  /\ Left(After2) => FormsClosed
  /\ Left(After3) => ContractsClosed
  /\ Left(After4) => BindingsClosed
  /\ Left(After5) => ReferencesClosed
  /\ Left(After6) => LanesServed
  /\ Left(After7) => TargetsClosed
  /\ Left(After8) => DefaultsClosed

-----------------------------------------------------------------------------
(* What an empty set of diagnostics says of an artifact.                     *)

\* compileArtifact reports nothing only of a package the verifier issued whose
\* digest is the one the caller pinned.
LEMMA ArtifactPinned ==
  ASSUME NEW p, CompileArtifact(p) = {}
  PROVE p.issued /\ p.digest = p.pin
<1> DEFINE checks == <<Check(p.issued, "invalid_artifact", 1),
                       Check(p.pin # NoDigest, "invalid_artifact", 2),
                       Check(p.digest = p.pin, "digest_mismatch", 3),
                       Check(p.hasDefinition, "invalid_artifact", 4),
                       Check(p.revalidates, "invalid_artifact", 5),
                       Check(p.definitionRef = p.ref, "digest_mismatch", 6)>>
<1>1. FirstFailure(p, checks) = {}
  BY DEF CompileArtifact
<1> HIDE DEF checks
<1>2. \A i \in DOMAIN checks : checks[i].holds
  BY <1>1 DEF FirstFailure
<1>3. /\ 1 \in DOMAIN checks /\ 3 \in DOMAIN checks
      /\ checks[1] = Check(p.issued, "invalid_artifact", 1)
      /\ checks[3] = Check(p.digest = p.pin, "digest_mismatch", 3)
  BY DEF checks
<1>4. checks[1].holds = p.issued /\ checks[3].holds = (p.digest = p.pin)
  BY <1>3 DEF Check
<1>5. checks[1].holds /\ checks[3].holds
  BY <1>2, <1>3
<1> QED
  BY <1>4, <1>5, Zenon

\* Artifacts with no duplicates: the candidate of a key is one of that key.
LEMMA IdentityKept ==
  ASSUME NEW artifacts, NEW k \in DOMAIN ByIdentity(artifacts)
  PROVE  /\ ByIdentity(artifacts)[k] \in Elements(artifacts)
         /\ ByIdentity(artifacts)[k].ref = k
  BY DEF ByIdentity, Refs, Elements

\* The group and kind of a Form, or of a pin, are among the groups.
LEMMA OwnGroup ==
  ASSUME NEW fs, NEW pins, NEW k \in DOMAIN fs
  PROVE  GroupKind(k) \in Groups(fs, pins)
  BY DEF Groups

\* compileDefaults reports nothing of a group only if its one pin names a Form of
\* the Snapshot, of that group and kind.
LEMMA DefaultNamesForm ==
  ASSUME NEW fs, NEW pins, NEW g, DefaultFault(g, fs, pins) = {}
  PROVE  LET i == CHOOSE j \in PinsOf(pins, g) : TRUE
         IN /\ pins[i].ref \in DOMAIN fs
            /\ GroupKind(pins[i].ref) = g
<1>1. PinsOf(pins, g) # {}
  BY DEF DefaultFault
<1>2. \A i \in PinsOf(pins, g) : GroupKind(pins[i].ref) = g
  BY <1>1 DEF DefaultFault
<1>3. \A i \in PinsOf(pins, g) : pins[i].ref \in DOMAIN fs
  BY <1>1 DEF DefaultFault
<1> QED
  BY <1>1, <1>2, <1>3

-----------------------------------------------------------------------------
(* The invariant.                                                            *)

\* Nothing is established yet.
LEMMA InitStages == Init => StagesInv
  BY DEF Init, StagesInv, Left, NoOutcome, After1, After2, After3, After4, After5,
         After6, After7, After8

\* A stage that fails answers, and nothing it answers is a Snapshot.
LEMMA RefusedIsNoSnapshot ==
  ASSUME NEW faults, Refuse(faults)
  PROVE  stage' = "done" /\ outcome'.kind = "refused"
  BY DEF Refuse, Return

\* What the facts are about is left alone when a stage passes, so each is kept.
LEMMA GraphFactsKept ==
  ASSUME UNCHANGED <<input, forms, interfaces, bindings>>
  PROVE  /\ PackagesPass' = PackagesPass /\ FormsClosed' = FormsClosed
         /\ ContractsClosed' = ContractsClosed /\ BindingsClosed' = BindingsClosed
         /\ ReferencesClosed' = ReferencesClosed /\ LanesServed' = LanesServed
         /\ TargetsClosed' = TargetsClosed
  BY DEF PackagesPass, FormsClosed, ContractsClosed, BindingsClosed, ReferencesClosed,
         LanesServed, TargetsClosed

\* Those about the pins need the pins and the defaults to stay as well.
LEMMA FactsKept ==
  ASSUME UNCHANGED <<input, forms, interfaces, bindings, defaults>>
  PROVE  /\ PackagesPass' = PackagesPass /\ FormsClosed' = FormsClosed
         /\ ContractsClosed' = ContractsClosed /\ BindingsClosed' = BindingsClosed
         /\ ReferencesClosed' = ReferencesClosed /\ LanesServed' = LanesServed
         /\ TargetsClosed' = TargetsClosed /\ DefaultsClosed' = DefaultsClosed
  BY GraphFactsKept DEF DefaultsClosed

\* One step preserves the invariant: a stage that passes adds what it checked, a
\* stage that fails leaves no Snapshot, and Recompile starts over.
LEMMA StepStages == StagesInv /\ [Next]_vars => StagesInv'
<1> SUFFICES ASSUME StagesInv, [Next]_vars
             PROVE  StagesInv'
  OBVIOUS
<1> USE DEF After1, After2, After3, After4, After5, After6, After7, After8
<1>0. ASSUME NEW faults, Refuse(faults)
      PROVE  StagesInv'
  BY <1>0, RefusedIsNoSnapshot DEF StagesInv, Left
<1>1. CASE CheckHostAPI
  <2>1. CASE Pass("packages") /\ UNCHANGED closed
    BY <1>1, <2>1 DEF CheckHostAPI, Pass, StagesInv, Left
  <2> QED
    BY <1>0, <1>1, <2>1 DEF CheckHostAPI
<1>2. CASE CompilePackages
  <2>1. CASE Pass("forms") /\ UNCHANGED closed /\ PackagesPass
    BY <1>2, <2>1, FactsKept DEF CompilePackages, Pass, closed, StagesInv, Left
  <2> QED
    BY <1>0, <1>2, <2>1 DEF CompilePackages, PackagesPass
<1>3. CASE CollectForms
  <2>1. CASE Duplicates(input.packages) # {}
    BY <1>0, <1>3, <2>1 DEF CollectForms
  <2>2. CASE Duplicates(input.packages) = {}
    <3>1. stage = "forms" /\ stage' = "contracts" /\ input' = input /\ outcome' = outcome
          /\ forms' = ByIdentity(input.packages)
      BY <1>3, <2>2 DEF CollectForms, Pass
    <3>2. PackagesPass' /\ FormsClosed'
      BY <2>2, <3>1 DEF StagesInv, Left, PackagesPass, FormsClosed
    <3> QED
      BY <3>1, <3>2 DEF StagesInv, Left
  <2> QED
    BY <2>1, <2>2
<1>4. CASE CompileContractArtifacts
  <2>1. CASE Pass("collect") /\ UNCHANGED closed
    BY <1>4, <2>1, FactsKept DEF CompileContractArtifacts, Pass, closed, StagesInv, Left
  <2> QED
    BY <1>0, <1>4, <2>1 DEF CompileContractArtifacts
<1>5. CASE CollectContracts
  <2> DEFINE faults == Duplicates(input.interfaces) \cup Duplicates(input.bindings)
  <2>1. CASE faults # {}
    BY <1>0, <1>5, <2>1 DEF CollectContracts
  <2>2. CASE faults = {}
    <3>1. /\ stage = "collect" /\ stage' = "projections" /\ outcome' = outcome
          /\ input' = input /\ forms' = forms
          /\ bindings' = ByIdentity(input.bindings)
      BY <1>5, <2>2 DEF CollectContracts, Pass
    <3>2. PackagesPass' /\ FormsClosed' /\ ContractsClosed'
      BY <2>2, <3>1 DEF StagesInv, Left, PackagesPass, FormsClosed, ContractsClosed
    <3> QED
      BY <3>1, <3>2 DEF StagesInv, Left
  <2> QED
    BY <2>1, <2>2
<1>6. CASE CloseBindings
  <2>1. CASE Pass("references") /\ UNCHANGED closed /\ BindingsClosed
    BY <1>6, <2>1, FactsKept DEF CloseBindings, Pass, closed, StagesInv, Left
  <2> QED
    BY <1>0, <1>6, <2>1 DEF CloseBindings, BindingsClosed
<1>7. CASE CloseContractReferences
  <2>1. CASE Pass("lanes") /\ UNCHANGED closed /\ ReferencesClosed
    BY <1>7, <2>1, FactsKept DEF CloseContractReferences, Pass, closed, StagesInv, Left
  <2> QED
    BY <1>0, <1>7, <2>1 DEF CloseContractReferences, ReferencesClosed
<1>8. CASE CheckLanes
  <2>1. CASE Pass("targets") /\ UNCHANGED closed /\ LanesServed
    BY <1>8, <2>1, FactsKept DEF CheckLanes, Pass, closed, StagesInv, Left
  <2> QED
    BY <1>0, <1>8, <2>1 DEF CheckLanes, LanesServed
<1>9. CASE CloseTargets
  <2>1. CASE Pass("defaults") /\ UNCHANGED closed /\ TargetsClosed
    BY <1>9, <2>1, FactsKept DEF CloseTargets, Pass, closed, StagesInv, Left
  <2> QED
    BY <1>0, <1>9, <2>1 DEF CloseTargets, TargetsClosed
<1>10. CASE CompileDefaults
  <2> DEFINE faults == UNION {DefaultFault(g, forms, input.pins) : g \in Groups(forms, input.pins)}
  <2>1. CASE faults # {}
    BY <1>0, <1>10, <2>1 DEF CompileDefaults
  <2>2. CASE faults = {}
    <3>1. /\ stage = "defaults" /\ stage' = "digest" /\ outcome' = outcome
          /\ UNCHANGED <<input, forms, interfaces, bindings>>
          /\ defaults' = DefaultPins(forms, input.pins)
      BY <1>10, <2>2 DEF CompileDefaults, Pass
    <3>2. DefaultsClosed'
      BY <2>2, <3>1 DEF DefaultsClosed
    <3> QED
      BY <3>1, <3>2, GraphFactsKept DEF StagesInv, Left
  <2> QED
    BY <2>1, <2>2
<1>11. CASE Issue
  <2>1. stage = "digest" /\ stage' = "done"
        /\ UNCHANGED <<input, forms, interfaces, bindings, defaults>>
    BY <1>11 DEF Issue, Return, closed
  <2> QED
    BY <2>1, FactsKept DEF StagesInv, Left
<1>12. CASE Recompile
  <2>1. stage' = "host" /\ outcome' = NoOutcome
    BY <1>12 DEF Recompile
  <2> QED
    BY <2>1 DEF NoOutcome, StagesInv, Left
<1>13. CASE UNCHANGED vars
  BY <1>13, FactsKept DEF vars, StagesInv, Left
<1> QED
  BY <1>1, <1>2, <1>3, <1>4, <1>5, <1>6, <1>7, <1>8, <1>9, <1>10, <1>11, <1>12, <1>13 DEF Next

\* StagesInv holds of every reachable state.
THEOREM StagesAlways == Spec => []StagesInv
  BY InitStages, StepStages, PTL DEF Spec

-----------------------------------------------------------------------------
(* The graph is closed.                                                      *)

\* What the facts about a Form's package add up to.
LEMMA FormClosed ==
  ASSUME StagesInv, outcome.kind = "snapshot", NEW k \in DOMAIN forms
  PROVE  /\ forms[k].ref = k /\ forms[k].issued /\ forms[k].digest = forms[k].pin
         /\ forms[k].requires # "" => HostAPISatisfies(input.hostAPI, forms[k].requires)
         /\ Elements(forms[k].provides) \subseteq DOMAIN interfaces
         /\ \A i \in DOMAIN forms[k].accepts :
              /\ forms[k].accepts[i] \in DOMAIN bindings
              /\ bindings[forms[k].accepts[i]].role = forms[k].role
         /\ \A n \in DOMAIN forms[k].schema :
              Elements(forms[k].schema[n].targets) \subseteq DOMAIN forms
         /\ GroupKind(k) \in DOMAIN defaults
<1>0. /\ PackagesPass /\ FormsClosed /\ ReferencesClosed /\ LanesServed /\ TargetsClosed
      /\ DefaultsClosed
  BY DEF StagesInv, Left
<1>1. forms[k] \in Elements(input.packages) /\ forms[k].ref = k
  BY <1>0, IdentityKept DEF FormsClosed
<1>2. forms[k].issued /\ forms[k].digest = forms[k].pin
  BY <1>0, <1>1, ArtifactPinned DEF PackagesPass
<1>3. forms[k].requires # "" => HostAPISatisfies(input.hostAPI, forms[k].requires)
  BY <1>0 DEF LanesServed, LaneFaults
<1>4. ProvidedFaults(forms[k], interfaces) = {} /\ AcceptedFaults(forms[k], bindings) = {}
  BY <1>0 DEF ReferencesClosed, ReferenceFaults
<1>5. Elements(forms[k].provides) \subseteq DOMAIN interfaces
  BY <1>4 DEF ProvidedFaults, Elements
<1>6. ASSUME NEW i \in DOMAIN forms[k].accepts
      PROVE  /\ forms[k].accepts[i] \in DOMAIN bindings
             /\ bindings[forms[k].accepts[i]].role = forms[k].role
  BY <1>4 DEF AcceptedFaults
<1>7. ASSUME NEW n \in DOMAIN forms[k].schema, NEW i \in DOMAIN forms[k].schema[n].targets
      PROVE  forms[k].schema[n].targets[i] \in DOMAIN forms
  <2> DEFINE targets(m) == forms[k].schema[m].targets
             unresolved(m) == {j \in DOMAIN targets(m) : targets(m)[j] \notin DOMAIN forms}
             faults(m) == {Diagnostic("unresolved_reference", forms[k].ref, <<7, m, j>>,
                                      targets(m)[j]) : j \in unresolved(m)}
  <2>1. UNION {faults(m) : m \in DOMAIN forms[k].schema} = {}
    BY <1>0 DEF TargetsClosed, TargetFaults
  <2>2. faults(n) = {}
    <3> HIDE DEF faults
    <3> QED
      BY <2>1
  <2>3. unresolved(n) = {}
    <3> HIDE DEF unresolved
    <3> QED
      BY <2>2
  <2> QED
    BY <2>3
<1>8. \A n \in DOMAIN forms[k].schema :
        Elements(forms[k].schema[n].targets) \subseteq DOMAIN forms
  BY <1>7 DEF Elements
<1>9. GroupKind(k) \in DOMAIN defaults
  BY <1>0, OwnGroup DEF DefaultsClosed, DefaultPins
<1> QED
  BY <1>1, <1>2, <1>3, <1>5, <1>6, <1>8, <1>9

\* The invariant implies the property.
LEMMA StagesClose == StagesInv => GraphClosed
<1> SUFFICES ASSUME StagesInv, outcome.kind = "snapshot"
             PROVE  GraphClosed
  BY DEF GraphClosed
<1>0. FormsClosed /\ ContractsClosed /\ BindingsClosed /\ DefaultsClosed
  BY DEF StagesInv, Left
<1>1. DOMAIN forms = Refs(input.packages) /\ DOMAIN bindings = Refs(input.bindings)
  BY <1>0 DEF FormsClosed, ContractsClosed, ByIdentity
<1>2. ASSUME NEW b \in DOMAIN bindings
      PROVE  /\ bindings[b].target \in DOMAIN interfaces
             /\ bindings[b].operations \subseteq interfaces[bindings[b].target].operations
  <2>1. BindingFaults(bindings[b], interfaces) = {}
    BY <1>0 DEF BindingsClosed
  <2> QED
    BY <2>1 DEF BindingFaults
<1>3. ASSUME NEW g \in DOMAIN defaults
      PROVE  defaults[g] \in DOMAIN forms /\ GroupKind(defaults[g]) = g
  <2>1. g \in Groups(forms, input.pins) /\ DefaultFault(g, forms, input.pins) = {}
    BY <1>0 DEF DefaultsClosed, DefaultPins
  <2>2. defaults[g] = input.pins[CHOOSE i \in PinsOf(input.pins, g) : TRUE].ref
    BY <1>0, <2>1 DEF DefaultsClosed, DefaultPins
  <2> QED
    BY <2>1, <2>2, DefaultNamesForm
<1> QED
  BY <1>1, <1>2, <1>3, FormClosed DEF GraphClosed

\* Whatever was supplied, a Snapshot that Compile issues is closed and complete.
THEOREM SnapshotsAreClosed == Spec => []GraphClosed
  BY StagesAlways, StagesClose, PTL

-----------------------------------------------------------------------------
(* Types.                                                                    *)

Parts == {"packages", "interfaces", "bindings", "pins"}

\* The input is one of those given, its parts in some order.
IsInput(it, in) ==
  /\ DOMAIN it = {"hostAPI", "packages", "interfaces", "bindings", "pins"}
  /\ it.hostAPI = in.hostAPI
  /\ \A part \in Parts : IsList(it[part]) /\ Elements(it[part]) = Elements(in[part])

ClosedKeys ==
  /\ DOMAIN forms \subseteq Refs(input.packages)
  /\ DOMAIN interfaces \subseteq Refs(input.interfaces)
  /\ DOMAIN bindings \subseteq Refs(input.bindings)

TypeInv ==
  /\ stage \in Stages
  /\ \E in \in Inputs : IsInput(input, in)
  /\ ClosedKeys
  /\ outcome.kind \in {"none", "refused", "snapshot"}
  /\ stage = "done" <=> outcome.kind # "none"
  /\ compiles \in 1..MaxCompiles

\* An order of a list is the same list in another order.
LEMMA Reordered ==
  ASSUME NEW list, IsList(list), NEW order \in SetToSeqs(DOMAIN list)
  PROVE  LET other == [i \in DOMAIN order |-> list[order[i]]]
         IN IsList(other) /\ Elements(other) = Elements(list)
<1> DEFINE other == [i \in DOMAIN order |-> list[order[i]]]
           n == Cardinality(DOMAIN list)
<1>1. DOMAIN list = 1..Len(list) /\ Len(list) \in Nat
  BY DEF IsList
<1>2. IsFiniteSet(DOMAIN list) /\ n \in Nat
  BY <1>1, FS_Interval, FS_CardinalityType
<1>3. order \in [1..n -> DOMAIN list] /\ \A i, j \in 1..n : i # j => order[i] # order[j]
  BY DEF SetToSeqs
<1>4. IsFiniteSet(1..n) /\ Cardinality(1..n) = n
  BY <1>2, FS_Interval
<1>5. order \in Injection(1..n, DOMAIN list)
  BY <1>3 DEF Injection, IsInjective
<1>6. order \in Surjection(1..n, DOMAIN list)
  <2> HIDE DEF n
  <2> QED  BY <1>2, <1>4, <1>5, FS_Injection DEF n
<1>7. Elements(other) = Elements(list)
  <2>1. \A k \in DOMAIN list : \E i \in DOMAIN order : order[i] = k
    BY <1>6, <1>3 DEF Surjection
  <2> QED  BY <2>1, <1>3 DEF Elements
<1>8. other \in Seq(Elements(list))
  <2>1. DOMAIN order = 1..n /\ \A i \in 1..n : list[order[i]] \in Elements(list)
    BY <1>3 DEF Elements
  <2> QED  BY <2>1, <1>2
<1> QED  BY <1>7, <1>8 DEF IsList

\* A compile starts with an input as it was given.
LEMMA InitTypes == Init => TypeInv
<1> SUFFICES ASSUME Init PROVE TypeInv
  OBVIOUS
<1>1. IsInput(input, input)
  BY InputsAssumption DEF Init, InputShape, IsInput, Parts
<1>2. outcome.kind = "none"
  BY DEF Init, NoOutcome
<1> QED  BY <1>1, <1>2, CompilesAssumption DEF Init, TypeInv, ClosedKeys, Empty, Stages

\* A stage that fails.
LEMMA RefusedTypes ==
  ASSUME TypeInv, NEW faults, Refuse(faults)
  PROVE  TypeInv'
<1>1. outcome'.kind = "refused" /\ stage' = "done" /\ UNCHANGED <<input, compiles, closed>>
  BY DEF Refuse, Return
<1> QED  BY <1>1 DEF TypeInv, ClosedKeys, closed, Stages

\* A stage that passes, and what it collects.
LEMMA PassedTypes ==
  ASSUME TypeInv, stage # "done", NEW next \in Stages \ {"done"}, Pass(next), ClosedKeys'
  PROVE  TypeInv'
BY DEF TypeInv, Pass

\* A stage that only checks collects nothing.
LEMMA UntouchedTypes ==
  ASSUME TypeInv, stage # "done", NEW next \in Stages \ {"done"}, Pass(next), UNCHANGED closed
  PROVE  TypeInv'
BY PassedTypes DEF TypeInv, Pass, ClosedKeys, closed

\* Every stage, and a repeated Compile, keeps the types.
LEMMA StepTypes == TypeInv /\ [Next]_vars => TypeInv'
<1> SUFFICES ASSUME TypeInv, [Next]_vars PROVE TypeInv'
  OBVIOUS
<1> USE DEF Stages
<1>1. CASE CheckHostAPI
  BY <1>1, RefusedTypes, UntouchedTypes DEF CheckHostAPI
<1>2. CASE CompilePackages
  BY <1>2, RefusedTypes, UntouchedTypes DEF CompilePackages
<1>3. CASE CollectForms
  <2>1. CASE Duplicates(input.packages) # {}
    BY <1>3, <2>1, RefusedTypes DEF CollectForms
  <2>2. CASE Duplicates(input.packages) = {}
    <3>1. /\ stage = "forms" /\ Pass("contracts") /\ forms' = ByIdentity(input.packages)
          /\ UNCHANGED <<input, interfaces, bindings>>
      BY <1>3, <2>2 DEF CollectForms, Pass
    <3>2. ClosedKeys'
      BY <3>1 DEF TypeInv, ClosedKeys, ByIdentity
    <3> QED  BY <3>1, <3>2, PassedTypes
  <2> QED  BY <2>1, <2>2
<1>4. CASE CompileContractArtifacts
  BY <1>4, RefusedTypes, UntouchedTypes DEF CompileContractArtifacts
<1>5. CASE CollectContracts
  <2> DEFINE faults == Duplicates(input.interfaces) \cup Duplicates(input.bindings)
  <2>1. CASE faults # {}
    BY <1>5, <2>1, RefusedTypes DEF CollectContracts
  <2>2. CASE faults = {}
    <3>1. /\ stage = "collect" /\ Pass("projections") /\ UNCHANGED <<input, forms>>
          /\ interfaces' = ByIdentity(input.interfaces)
          /\ bindings' = ByIdentity(input.bindings)
      BY <1>5, <2>2 DEF CollectContracts, Pass
    <3>2. ClosedKeys'
      BY <3>1 DEF TypeInv, ClosedKeys, ByIdentity
    <3> QED  BY <3>1, <3>2, PassedTypes
  <2> QED  BY <2>1, <2>2
<1>6. CASE CloseBindings
  BY <1>6, RefusedTypes, UntouchedTypes DEF CloseBindings
<1>7. CASE CloseContractReferences
  BY <1>7, RefusedTypes, UntouchedTypes DEF CloseContractReferences
<1>8. CASE CheckLanes
  BY <1>8, RefusedTypes, UntouchedTypes DEF CheckLanes
<1>9. CASE CloseTargets
  BY <1>9, RefusedTypes, UntouchedTypes DEF CloseTargets
<1>10. CASE CompileDefaults
  <2> DEFINE faults == UNION {DefaultFault(g, forms, input.pins) : g \in Groups(forms, input.pins)}
  <2>1. CASE faults # {}
    BY <1>10, <2>1, RefusedTypes DEF CompileDefaults
  <2>2. CASE faults = {}
    <3>1. stage = "defaults" /\ Pass("digest") /\ UNCHANGED <<input, forms, interfaces, bindings>>
      BY <1>10, <2>2 DEF CompileDefaults, Pass
    <3> QED  BY <3>1, PassedTypes DEF TypeInv, ClosedKeys
  <2> QED  BY <2>1, <2>2
<1>11. CASE Issue
  <2>1. outcome'.kind = "snapshot" /\ stage' = "done" /\ UNCHANGED <<input, compiles, closed>>
    BY <1>11 DEF Issue, Return
  <2> QED  BY <2>1 DEF TypeInv, ClosedKeys, closed
<1>12. CASE Recompile
  <2>1. /\ stage' = "host" /\ outcome'.kind = "none" /\ compiles' \in 1..MaxCompiles
        /\ ClosedKeys'
    BY <1>12, CompilesAssumption DEF Recompile, TypeInv, NoOutcome, ClosedKeys, Empty
  <2>2. PICK in \in Inputs : IsInput(input, in)
    BY DEF TypeInv
  <2>3. PICK ps \in SetToSeqs(DOMAIN input.packages), is \in SetToSeqs(DOMAIN input.interfaces),
             bs \in SetToSeqs(DOMAIN input.bindings), ds \in SetToSeqs(DOMAIN input.pins) :
          input' = [input EXCEPT !.packages = [i \in DOMAIN ps |-> @[ps[i]]],
                                 !.interfaces = [i \in DOMAIN is |-> @[is[i]]],
                                 !.bindings = [i \in DOMAIN bs |-> @[bs[i]]],
                                 !.pins = [i \in DOMAIN ds |-> @[ds[i]]]]
    BY <1>12 DEF Recompile
  <2>4. /\ DOMAIN input' = {"hostAPI", "packages", "interfaces", "bindings", "pins"}
        /\ input'.hostAPI = input.hostAPI
        /\ input'.packages = [i \in DOMAIN ps |-> input.packages[ps[i]]]
        /\ input'.interfaces = [i \in DOMAIN is |-> input.interfaces[is[i]]]
        /\ input'.bindings = [i \in DOMAIN bs |-> input.bindings[bs[i]]]
        /\ input'.pins = [i \in DOMAIN ds |-> input.pins[ds[i]]]
    BY <2>2, <2>3 DEF IsInput
  <2>5. \A part \in Parts : IsList(input[part]) /\ Elements(input[part]) = Elements(in[part])
    BY <2>2 DEF IsInput
  <2>6. \A part \in Parts : IsList(input'[part]) /\ Elements(input'[part]) = Elements(in[part])
    <3>1. /\ IsList(input'.packages) /\ Elements(input'.packages) = Elements(in.packages)
      BY <2>3, <2>4, <2>5, Reordered DEF Parts
    <3>2. /\ IsList(input'.interfaces) /\ Elements(input'.interfaces) = Elements(in.interfaces)
      BY <2>3, <2>4, <2>5, Reordered DEF Parts
    <3>3. /\ IsList(input'.bindings) /\ Elements(input'.bindings) = Elements(in.bindings)
      BY <2>3, <2>4, <2>5, Reordered DEF Parts
    <3>4. /\ IsList(input'.pins) /\ Elements(input'.pins) = Elements(in.pins)
      BY <2>3, <2>4, <2>5, Reordered DEF Parts
    <3> QED  BY <3>1, <3>2, <3>3, <3>4 DEF Parts
  <2>7. IsInput(input', in)
    BY <2>2, <2>4, <2>6 DEF IsInput
  <2> QED  BY <2>1, <2>7 DEF TypeInv
<1>13. CASE UNCHANGED vars
  BY <1>13 DEF vars, TypeInv, ClosedKeys
<1> QED
  BY <1>1, <1>2, <1>3, <1>4, <1>5, <1>6, <1>7, <1>8, <1>9, <1>10, <1>11, <1>12, <1>13 DEF Next

\* TypeOK, of every input and however often it is compiled.
THEOREM CompileTypeCorrect == Spec => []TypeOK
<1>1. TypeInv => TypeOK
  BY DEF TypeInv, IsInput, Parts, ClosedKeys, TypeOK
<1> QED  BY <1>1, InitTypes, StepTypes, PTL DEF Spec

-----------------------------------------------------------------------------
(* Contract annotations.                                                     *)

\* contractAnnotationsWithBinding is called at a node, with the binding name it
\* inherits and the $refs being visited.
Names(s) == {NoName} \cup {s[n].bind : n \in DOMAIN s}
Targets(s) == (DOMAIN s) \X Names(s)
Calls(s) == (DOMAIN s) \X Names(s) \X SUBSET Targets(s)
NameAt(s, n, inherited) == IF s[n].bind # NoName THEN s[n].bind ELSE inherited

\* What a call finds itself, and the calls it makes.
Here(s, x) ==
  IF s[x[1]].need = <<>> THEN {}
  ELSE {[at |-> x[1], ref |-> s[x[1]].need, name |-> NameAt(s, x[1], x[2])]}
Through(s, x) == <<s[x[1]].ref, NameAt(s, x[1], x[2])>>
Follows(s, x) ==
  ~(NameAt(s, x[1], x[2]) = NoName \/ s[x[1]].ref = NoNode \/ Through(s, x) \in x[3])
Below(s, x) == {<<kid, NameAt(s, x[1], x[2]), x[3]>> : kid \in s[x[1]].kids}
Beyond(s, x) ==
  IF Follows(s, x) THEN {<<s[x[1]].ref, NameAt(s, x[1], x[2]), x[3] \cup {Through(s, x)}>>} ELSE {}
Visit(s, w, x) == Here(s, x) \cup UNION {w[y] : y \in Below(s, x) \cup Beyond(s, x)}

\* How far a call is from the deepest there could be: every $ref followed adds one to
\* those being visited, every step down gets nearer to the last node.
Far(s, x) ==
  (Cardinality(Targets(s)) - Cardinality(x[3])) * (Len(s) + 1) + (Len(s) - x[1])

\* The parts of a call.
LEMMA CallParts ==
  ASSUME NEW s, NEW x \in Calls(s)
  PROVE  /\ x = <<x[1], x[2], x[3]>> /\ x[1] \in DOMAIN s /\ x[2] \in Names(s)
         /\ x[3] \subseteq Targets(s) /\ NameAt(s, x[1], x[2]) \in Names(s)
BY DEF Calls, NameAt, Names

\* A document has finitely many nodes and binding names.
LEMMA TargetsFinite ==
  ASSUME NEW s, IsDocument(s)
  PROVE  IsFiniteSet(Targets(s)) /\ Cardinality(Targets(s)) \in Nat
<1>1. DOMAIN s = 1..Len(s) /\ Len(s) \in Nat
  BY DEF IsDocument, IsList
<1>2. IsFiniteSet(DOMAIN s)
  BY <1>1, FS_Interval
<1> DEFINE binds == {s[n].bind : n \in DOMAIN s}
           f == [n \in DOMAIN s |-> s[n].bind]
<1>3. f \in Surjection(DOMAIN s, binds)
  BY DEF Surjection
<1>4. IsFiniteSet(binds)
  BY <1>2, <1>3, FS_Surjection
<1>5. IsFiniteSet(Names(s))
  BY <1>4, FS_Singleton, FS_Union DEF Names
<1> QED  BY <1>2, <1>5, FS_Product, FS_CardinalityType DEF Targets

\* The distance is a natural number, since no $ref is visited twice.
LEMMA FarNatural ==
  ASSUME NEW s, IsDocument(s), NEW x \in Calls(s)
  PROVE  /\ Far(s, x) \in Nat
         /\ IsFiniteSet(x[3]) /\ Cardinality(x[3]) \in Nat
         /\ Cardinality(x[3]) <= Cardinality(Targets(s))
<1>1. IsFiniteSet(x[3]) /\ Cardinality(x[3]) \in Nat /\ Cardinality(x[3]) <= Cardinality(Targets(s))
  BY CallParts, TargetsFinite, FS_Subset, FS_CardinalityType
<1>2. Len(s) \in Nat /\ x[1] \in 1..Len(s)
  BY CallParts DEF IsDocument, IsList
<1> DEFINE a == Cardinality(Targets(s)) - Cardinality(x[3])
           b == Len(s) + 1
<1>3. a \in Nat /\ b \in Nat /\ Len(s) - x[1] \in Nat
  BY <1>1, <1>2, TargetsFinite
<1>4. a * b \in Nat
  <2> HIDE DEF a, b
  <2> QED  BY <1>3
<1>5. a * b + (Len(s) - x[1]) \in Nat
  <2> HIDE DEF a, b
  <2> QED  BY <1>3, <1>4
<1> QED  BY <1>1, <1>5 DEF Far

\* Every call a call makes is a call, and nearer.
LEMMA CallsNearer ==
  ASSUME NEW s, IsDocument(s), NEW x \in Calls(s), NEW y \in Below(s, x) \cup Beyond(s, x)
  PROVE  y \in Calls(s) /\ Far(s, y) < Far(s, x)
<1> DEFINE t == Cardinality(Targets(s))
           c == Cardinality(x[3])
           L == Len(s)
           name == NameAt(s, x[1], x[2])
<1>1. /\ L \in Nat /\ DOMAIN s = 1..L /\ x[1] \in 1..L /\ c \in Nat /\ t \in Nat /\ c <= t
      /\ x[3] \subseteq Targets(s) /\ name \in Names(s)
      /\ s[x[1]].kids \subseteq (x[1] + 1)..L /\ s[x[1]].ref \in 0..L
  <2>1. L \in Nat /\ DOMAIN s = 1..L
    BY DEF IsDocument, IsList
  <2>2. x[1] \in DOMAIN s /\ x[3] \subseteq Targets(s) /\ name \in Names(s)
    BY CallParts
  <2>3. s[x[1]].kids \subseteq (x[1] + 1)..L /\ s[x[1]].ref \in 0..L
    BY <2>2 DEF IsDocument
  <2> QED  BY <2>1, <2>2, <2>3, FarNatural, TargetsFinite
<1>2. CASE y \in Below(s, x)
  <2>1. PICK kid \in s[x[1]].kids : y = <<kid, name, x[3]>>
    BY <1>2 DEF Below
  <2>2. kid \in 1..L /\ x[1] < kid
    BY <1>1
  <2>3. y \in Calls(s)
    BY <1>1, <2>1, <2>2 DEF Calls
  <2>4. (t - c) * (L + 1) \in Int
    <3>1. t - c \in Int /\ L + 1 \in Int
      BY <1>1
    <3> QED  BY <3>1
  <2>5. /\ Far(s, y) = (t - c) * (L + 1) + (L - kid)
        /\ Far(s, x) = (t - c) * (L + 1) + (L - x[1])
    BY <2>1 DEF Far
  <2>6. L - kid < L - x[1] /\ L - kid \in Int /\ L - x[1] \in Int
    BY <1>1, <2>2
  <2>7. Far(s, y) < Far(s, x)
    <3>1. ASSUME NEW a \in Int, NEW b \in Int, NEW d \in Int, b < d PROVE a + b < a + d
      BY <3>1
    <3> HIDE DEF t, c, L
    <3> QED  BY <2>4, <2>5, <2>6, <3>1
  <2> QED  BY <2>3, <2>7
<1>3. CASE y \in Beyond(s, x)
  <2> DEFINE through == <<s[x[1]].ref, name>>
             r == s[x[1]].ref
  <2>1. y = <<r, name, x[3] \cup {through}>> /\ r # NoNode /\ through \notin x[3]
    BY <1>3 DEF Beyond, Follows, Through
  <2>2. r \in 1..L
    BY <1>1, <2>1 DEF NoNode
  <2>3. through \in Targets(s)
    BY <1>1, <2>2 DEF Targets
  <2>4. y \in Calls(s)
    BY <1>1, <2>1, <2>2, <2>3 DEF Calls
  <2>5. Cardinality(y[3]) = c + 1 /\ c + 1 <= t
    <3>1. Cardinality(x[3] \cup {through}) = c + 1
      BY <2>1, FarNatural, FS_AddElement
    <3>2. y[3] = x[3] \cup {through}
      BY <2>1
    <3> QED  BY <2>4, <3>1, <3>2, FarNatural
  <2>6. /\ Far(s, y) = (t - (c + 1)) * (L + 1) + (L - r)
        /\ Far(s, x) = (t - c) * (L + 1) + (L - x[1])
    BY <2>1, <2>5 DEF Far
  <2>7. ASSUME NEW m \in Nat, NEW k \in Nat, NEW i \in 1..m, NEW j \in 1..m
        PROVE  k * (m + 1) + (m - i) < (k + 1) * (m + 1) + (m - j)
    <3>1. (k + 1) * (m + 1) = k * (m + 1) + (m + 1)
      OBVIOUS
    <3>2. k * (m + 1) \in Int
      OBVIOUS
    <3> QED  BY <3>1, <3>2
  <2>8. t - (c + 1) \in Nat /\ t - c = (t - (c + 1)) + 1
    BY <1>1, <2>5
  <2>9. Far(s, y) < Far(s, x)
    <3> HIDE DEF t, c, L, r
    <3> QED  BY <1>1, <2>2, <2>6, <2>7, <2>8
  <2> QED  BY <2>4, <2>9
<1> QED  BY <1>2, <1>3

\* What a call finds depends on what nearer calls find.
LEMMA VisitLocal ==
  ASSUME NEW s, IsDocument(s), NEW x \in Calls(s), NEW f, NEW g,
         \A y \in Calls(s) : Far(s, y) < Far(s, x) => f[y] = g[y]
  PROVE  Visit(s, f, x) = Visit(s, g, x)
<1>1. \A y \in Below(s, x) \cup Beyond(s, x) : f[y] = g[y]
  BY CallsNearer
<1> QED  BY <1>1 DEF Visit

\* What a function of the calls has to be to be the walk.
IsWalk(s, w) == w = [x \in Calls(s) |-> Visit(s, w, x)]

\* Every nonempty set of naturals has a least element.
LEMMA LeastNatural ==
  ASSUME NEW S, S \subseteq Nat, S # {}
  PROVE  \E m \in S : \A k \in S : m <= k
<1>1. IsWellFoundedOn(OpToRel(<, Nat), Nat)
  BY NatLessThanWellFounded
<1>2. PICK m \in S : \A k \in S : <<k, m>> \notin OpToRel(<, Nat)
  BY <1>1, WFMin
<1>3. ASSUME NEW k \in S
      PROVE  m <= k
  <2>1. m \in Nat /\ k \in Nat /\ <<k, m>> \in Nat \X Nat
    OBVIOUS
  <2>2. ~(k < m)
    BY <1>2, <2>1 DEF OpToRel
  <2> QED  BY <2>1, <2>2
<1> QED  BY <1>3

\* The walk ends: the recursion has a solution, since what is found by the calls
\* nearer than m can be continued by those at m.
LEMMA WalkExists ==
  ASSUME NEW s, IsDocument(s)
  PROVE  \E w : IsWalk(s, w)
<1> DEFINE Near(m) == {x \in Calls(s) : Far(s, x) < m}
           Solves(f, m) == f = [x \in Near(m) |-> Visit(s, f, x)]
           Unsolved == {m \in Nat : ~\E f : Solves(f, m)}
<1>1. ASSUME NEW m \in Nat, NEW f, Solves(f, m)
      PROVE  \E g : Solves(g, m + 1)
  <2> DEFINE g == [x \in Near(m + 1) |-> IF x \in Near(m) THEN f[x] ELSE Visit(s, f, x)]
  <2>1. ASSUME NEW x \in Near(m + 1)
        PROVE  g[x] = Visit(s, g, x)
    <3>1. x \in Calls(s) /\ Far(s, x) \in Nat /\ Far(s, x) < m + 1
      BY FarNatural
    <3>2. ASSUME NEW y \in Calls(s), Far(s, y) < Far(s, x)
          PROVE  f[y] = g[y]
      <4>1. Far(s, y) \in Nat
        BY FarNatural
      <4>2. y \in Near(m) /\ y \in Near(m + 1)
        BY <3>1, <3>2, <4>1
      <4> QED  BY <4>2
    <3>3. Visit(s, f, x) = Visit(s, g, x)
      <4> HIDE DEF g, Near, Solves
      <4> QED  BY <3>1, <3>2, VisitLocal
    <3>4. x \in Near(m) => f[x] = Visit(s, f, x)
      <4> HIDE DEF Near
      <4> QED  BY <1>1
    <3>5. g[x] = Visit(s, f, x)
      <4> HIDE DEF Near
      <4> QED  BY <3>4
    <3> QED  BY <3>3, <3>5
  <2>2. Solves(g, m + 1)
    <3>1. g = [x \in Near(m + 1) |-> g[x]]
      OBVIOUS
    <3> HIDE DEF g, Near
    <3> QED  BY <2>1, <3>1
  <2> HIDE DEF Solves, g
  <2> QED  BY <2>2
<1>2. \E f : Solves(f, 0)
  <2>1. Near(0) = {}
    BY FarNatural
  <2>2. Solves([x \in {} |-> {}], 0)
    <3> HIDE DEF Near
    <3> QED  BY <2>1
  <2> HIDE DEF Solves
  <2> QED  BY <2>2
<1>3. Unsolved = {}
  <2>1. SUFFICES ASSUME Unsolved # {} PROVE FALSE
    OBVIOUS
  <2>2. PICK m \in Unsolved : \A k \in Unsolved : m <= k
    <3>1. Unsolved \subseteq Nat
      OBVIOUS
    <3> HIDE DEF Unsolved
    <3> QED  BY <2>1, <3>1, LeastNatural
  <2> HIDE DEF Solves
  <2>3. m \in Nat /\ m # 0
    BY <1>2
  <2>4. m - 1 \in Nat /\ ~(m - 1 \in Unsolved)
    <3>1. m - 1 \in Nat /\ ~(m <= m - 1)
      BY <2>3
    <3> HIDE DEF Unsolved
    <3> QED  BY <2>2, <3>1
  <2>5. \E g : Solves(g, (m - 1) + 1)
    BY <1>1, <2>4
  <2>6. (m - 1) + 1 = m
    BY <2>3
  <2> QED  BY <2>5, <2>6
<1> DEFINE top == (Cardinality(Targets(s)) + 1) * (Len(s) + 1)
<1>4. top \in Nat
  <2>1. Cardinality(Targets(s)) + 1 \in Nat /\ Len(s) + 1 \in Nat
    BY TargetsFinite DEF IsDocument, IsList
  <2> QED  BY <2>1
<1>5. ASSUME NEW x \in Calls(s)
      PROVE  Far(s, x) < top
  <2>1. ASSUME NEW t \in Nat, NEW c \in Nat, c <= t, NEW m \in Nat, NEW i \in 1..m
        PROVE  (t - c) * (m + 1) + (m - i) < (t + 1) * (m + 1)
    <3>1. (t + 1) * (m + 1) = (t - c) * (m + 1) + c * (m + 1) + (m + 1)
      BY <2>1
    <3>2. c * (m + 1) \in Nat /\ (t - c) * (m + 1) \in Int
      BY <2>1
    <3> QED  BY <3>1, <3>2
  <2>2. Len(s) \in Nat /\ x[1] \in 1..Len(s)
    BY CallParts DEF IsDocument, IsList
  <2> QED  BY <2>1, <2>2, FarNatural, TargetsFinite DEF Far
<1>6. Near(top) = Calls(s)
  <2> HIDE DEF top
  <2> QED  BY <1>5
<1>7. PICK w : Solves(w, top)
  <2> HIDE DEF Solves, top
  <2> QED  BY <1>3, <1>4
<1>8. IsWalk(s, w)
  <2> HIDE DEF Near, top
  <2> QED  BY <1>6, <1>7 DEF IsWalk
<1> QED  BY <1>8

\* The function of contractAnnotationsWithBinding.
Walk(s) == CHOOSE w : IsWalk(s, w)

\* The walk of a document calls itself as the code does.
LEMMA WalkIsWalk ==
  ASSUME NEW s, IsDocument(s)
  PROVE  \A x \in Calls(s) : Walk(s)[x] = Visit(s, Walk(s), x)
<1>1. IsWalk(s, Walk(s))
  BY WalkExists DEF Walk
<1> HIDE DEF Walk
<1> QED  BY <1>1 DEF IsWalk

\* ContractAnnotations is what the walk returns of the root.
LEMMA AnnotationsOfWalk ==
  ASSUME NEW s
  PROVE  ContractAnnotations(s) = Walk(s)[<<1, NoName, {}>>]
<1> DEFINE Body(w, x) ==
             LET node == s[x[1]]
                 name == IF node.bind # NoName THEN node.bind ELSE x[2]
                 here == IF node.need = <<>> THEN {}
                         ELSE {[at |-> x[1], ref |-> node.need, name |-> name]}
                 below == UNION {w[<<kid, name, x[3]>>] : kid \in node.kids}
                 through == <<node.ref, name>>
             IN here \cup below \cup
                IF name = NoName \/ node.ref = NoNode \/ through \in x[3] THEN {}
                ELSE w[<<node.ref, name, x[3] \cup {through}>>]
           Given(w) == w = [x \in Calls(s) |-> Body(w, x)]
<1>1. ContractAnnotations(s) = (CHOOSE w : Given(w))[<<1, NoName, {}>>]
  BY DEF ContractAnnotations, Calls, Names, Targets
<1>2. ASSUME NEW w, NEW x
      PROVE  Body(w, x) = Visit(s, w, x)
  <2>1. UNION {w[y] : y \in Below(s, x)}
          = UNION {w[<<kid, NameAt(s, x[1], x[2]), x[3]>>] : kid \in s[x[1]].kids}
    BY DEF Below
  <2>2. UNION {w[y] : y \in Beyond(s, x)}
          = IF Follows(s, x)
            THEN w[<<s[x[1]].ref, NameAt(s, x[1], x[2]), x[3] \cup {Through(s, x)}>>] ELSE {}
    BY DEF Beyond
  <2>3. Visit(s, w, x) = Here(s, x) \cup (UNION {w[y] : y \in Below(s, x)})
                          \cup (UNION {w[y] : y \in Beyond(s, x)})
    <3>1. ASSUME NEW A, NEW B
          PROVE  UNION {w[y] : y \in A \cup B} = (UNION {w[y] : y \in A}) \cup (UNION {w[y] : y \in B})
      OBVIOUS
    <3>2. UNION {w[y] : y \in Below(s, x) \cup Beyond(s, x)}
            = (UNION {w[y] : y \in Below(s, x)}) \cup (UNION {w[y] : y \in Beyond(s, x)})
      BY <3>1
    <3>3. Visit(s, w, x) = Here(s, x) \cup UNION {w[y] : y \in Below(s, x) \cup Beyond(s, x)}
      BY DEF Visit
    <3> HIDE DEF Body
    <3> QED  BY <3>2, <3>3
  <2> DEFINE name == NameAt(s, x[1], x[2])
             below == UNION {w[<<kid, name, x[3]>>] : kid \in s[x[1]].kids}
             beyond == IF Follows(s, x)
                       THEN w[<<s[x[1]].ref, name, x[3] \cup {Through(s, x)}>>] ELSE {}
  <2>4. Body(w, x) = Here(s, x) \cup below \cup beyond
    BY Zenon DEF Here, Follows, Through, NameAt
  <2> HIDE DEF Body
  <2> QED  BY <2>1, <2>2, <2>3, <2>4
<1>3. \A w : Given(w) <=> IsWalk(s, w)
  <2> HIDE DEF Body
  <2>1. ASSUME NEW w PROVE Given(w) <=> IsWalk(s, w)
    <3>1. [x \in Calls(s) |-> Body(w, x)] = [x \in Calls(s) |-> Visit(s, w, x)]
      BY <1>2
    <3> QED  BY <3>1 DEF IsWalk
  <2> QED  BY <2>1
<1>4. (CHOOSE w : Given(w)) = Walk(s)
  <2> HIDE DEF Given
  <2> QED  BY <1>3 DEF Walk
<1> QED  BY <1>1, <1>4

-----------------------------------------------------------------------------
(* What the walk meets.                                                      *)

\* The first call, and what is closed under the calls that calls make; the calls
\* made are the least such set.
Start == <<1, NoName, {}>>
ClosedUnderCalls(s, S) ==
  Start \in S /\ \A x \in S : Below(s, x) \cup Beyond(s, x) \subseteq S

\* The calls that are made: those in every set the calls stay in.
Made(s) == {x \in Calls(s) : \A S \in SUBSET Calls(s) : ClosedUnderCalls(s, S) => x \in S}

\* The calls made are closed, and in whatever else is.
LEMMA MadeClosed ==
  ASSUME NEW s, IsDocument(s)
  PROVE  /\ Made(s) \subseteq Calls(s) /\ ClosedUnderCalls(s, Made(s))
         /\ \A S \in SUBSET Calls(s) : ClosedUnderCalls(s, S) => Made(s) \subseteq S
<1>1. Start \in Calls(s)
  <2>1. 1 \in DOMAIN s
    BY DEF IsDocument, IsList
  <2> QED  BY <2>1 DEF Start, Calls, Names
<1>2. ASSUME NEW x \in Made(s), NEW y \in Below(s, x) \cup Beyond(s, x)
      PROVE  y \in Made(s)
  <2>1. x \in Calls(s) /\ y \in Calls(s)
    BY <1>2, CallsNearer DEF Made
  <2>2. ASSUME NEW S \in SUBSET Calls(s), ClosedUnderCalls(s, S)
        PROVE  y \in S
    <3>1. x \in S
      BY <2>2 DEF Made
    <3> QED  BY <1>2, <2>2, <3>1 DEF ClosedUnderCalls
  <2> QED  BY <2>1, <2>2 DEF Made
<1> QED  BY <1>1, <1>2 DEF Made, ClosedUnderCalls

\* What a call that is made finds is among the annotations.
LEMMA MadeFound ==
  ASSUME NEW s, IsDocument(s), NEW x \in Made(s)
  PROVE  Here(s, x) \subseteq ContractAnnotations(s)
<1> DEFINE S == {y \in Calls(s) : Walk(s)[y] \subseteq ContractAnnotations(s)}
<1>1. Start \in S
  BY MadeClosed, AnnotationsOfWalk DEF ClosedUnderCalls, Start
<1>2. ASSUME NEW y \in S, NEW z \in Below(s, y) \cup Beyond(s, y)
      PROVE  z \in S
  <2>1. Walk(s)[y] = Visit(s, Walk(s), y)
    BY WalkIsWalk
  <2>2. Walk(s)[z] \subseteq Walk(s)[y]
    BY <2>1 DEF Visit
  <2> QED  BY <2>2, CallsNearer
<1>3. x \in S
  <2>1. ClosedUnderCalls(s, S) /\ S \in SUBSET Calls(s)
    BY <1>1, <1>2 DEF ClosedUnderCalls
  <2> HIDE DEF S
  <2> QED  BY <2>1, MadeClosed
<1>4. Walk(s)[x] = Visit(s, Walk(s), x)
  BY <1>3, WalkIsWalk
<1> QED  BY <1>3, <1>4 DEF Visit

\* A $ref that is being visited in a context was called in it.
LEMMA VisitingWasCalled ==
  ASSUME NEW s, IsDocument(s), NEW x \in Made(s), NEW t \in x[3]
  PROVE  \E y \in Made(s) : y[1] = t[1] /\ y[2] = t[2]
<1> DEFINE Called(r) == \E y \in Made(s) : y[1] = r[1] /\ y[2] = r[2]
           S == {y \in Made(s) : \A r \in y[3] : Called(r)}
<1>1. Start \in S
  BY MadeClosed DEF ClosedUnderCalls, Start
<1>2. ASSUME NEW y \in S, NEW z \in Below(s, y) \cup Beyond(s, y)
      PROVE  z \in S
  <2>1. z \in Made(s)
    BY MadeClosed DEF ClosedUnderCalls
  <2>2. ASSUME NEW r \in z[3] PROVE Called(r)
    <3>1. CASE r \in y[3]
      BY <3>1
    <3>2. CASE r \notin y[3]
      <4>1. z \in Beyond(s, y)
        BY <1>2, <3>2 DEF Below
      <4>2. z = <<s[y[1]].ref, NameAt(s, y[1], y[2]), y[3] \cup {Through(s, y)}>>
        BY <4>1 DEF Beyond
      <4>3. r = Through(s, y)
        BY <3>2, <4>2
      <4>4. r[1] = z[1] /\ r[2] = z[2]
        BY <4>2, <4>3 DEF Through
      <4> QED  BY <2>1, <4>4
    <3> QED  BY <3>1, <3>2
  <2> QED  BY <2>1, <2>2
<1>3. x \in S
  <2>1. ClosedUnderCalls(s, S) /\ S \in SUBSET Calls(s)
    BY <1>1, <1>2, MadeClosed DEF ClosedUnderCalls
  <2> HIDE DEF S
  <2> QED  BY <2>1, MadeClosed
<1> QED  BY <1>3

\* Where a call is: its node and the context there.
Spot(s, x) == <<x[1], NameAt(s, x[1], x[2])>>
Met(s) == {Spot(s, x) : x \in Made(s)}
AtNode(s, n, name) == <<n, NameAt(s, n, name)>>
NextSpots(s, x) ==
  {AtNode(s, kid, x[2]) : kid \in s[x[1]].kids} \cup
  IF x[2] = NoName \/ s[x[1]].ref = NoNode THEN {} ELSE {AtNode(s, s[x[1]].ref, x[2])}

\* The walk meets what can be reached from what it meets.
LEMMA MetClosed ==
  ASSUME NEW s, IsDocument(s)
  PROVE  /\ AtNode(s, 1, NoName) \in Met(s)
         /\ \A q \in Met(s) : NextSpots(s, q) \subseteq Met(s)
<1>1. AtNode(s, 1, NoName) \in Met(s)
  BY MadeClosed DEF ClosedUnderCalls, Start, Met, Spot, AtNode
<1>2. ASSUME NEW x \in Made(s), NEW q \in NextSpots(s, Spot(s, x))
      PROVE  q \in Met(s)
  <2> DEFINE name == NameAt(s, x[1], x[2])
             r == s[x[1]].ref
  <2>1. CASE \E kid \in s[x[1]].kids : q = AtNode(s, kid, name)
    <3>1. PICK kid \in s[x[1]].kids : q = AtNode(s, kid, name)
      BY <2>1
    <3>2. <<kid, name, x[3]>> \in Made(s)
      BY MadeClosed DEF ClosedUnderCalls, Below
    <3>3. q = Spot(s, <<kid, name, x[3]>>)
      BY <3>1 DEF Spot, AtNode
    <3> QED  BY <3>2, <3>3 DEF Met
  <2>2. CASE name # NoName /\ r # NoNode /\ q = AtNode(s, r, name)
    <3>1. CASE Through(s, x) \in x[3]
      <4>1. PICK y \in Made(s) : y[1] = r /\ y[2] = name
        BY <3>1, VisitingWasCalled DEF Through
      <4> QED  BY <2>2, <4>1 DEF Met, Spot, AtNode
    <3>2. CASE Through(s, x) \notin x[3]
      <4>1. <<r, name, x[3] \cup {Through(s, x)}>> \in Made(s)
        BY <2>2, <3>2, MadeClosed DEF ClosedUnderCalls, Beyond, Follows
      <4>2. q = Spot(s, <<r, name, x[3] \cup {Through(s, x)}>>)
        BY <2>2 DEF Spot, AtNode
      <4> QED  BY <4>1, <4>2 DEF Met
    <3> QED  BY <3>1, <3>2
  <2>3. Spot(s, x)[1] = x[1] /\ Spot(s, x)[2] = name
    BY DEF Spot
  <2> QED  BY <1>2, <2>1, <2>2, <2>3 DEF NextSpots
<1> QED  BY <1>1, <1>2 DEF Met

\* Whatever can be reached, in whatever context, the walk meets there.
LEMMA ReachableMet ==
  ASSUME NEW s, IsDocument(s)
  PROVE  InContext(s) \subseteq Met(s)
<1> DEFINE pairs == Cardinality(DOMAIN s) * (1 + Cardinality(DOMAIN s))
           first == {AtNode(s, 1, NoName)}
           More(X) == X \cup UNION {NextSpots(s, x) : x \in X}
           Solves(f, m) == f = [i \in 0..m |-> IF i = 0 THEN first ELSE More(f[i - 1])]
           Unsolved == {m \in Nat : ~\E f : Solves(f, m)}
<1>1. pairs \in Nat
  <2>1. Cardinality(DOMAIN s) \in Nat
    BY FS_Interval, FS_CardinalityType DEF IsDocument, IsList
  <2> QED  BY <2>1
<1>2. ASSUME NEW m \in Nat, NEW f, Solves(f, m)
      PROVE  \E g : Solves(g, m + 1)
  <2> HIDE DEF first, More
  <2> DEFINE g == [i \in 0..(m + 1) |-> IF i = m + 1 THEN More(f[m]) ELSE f[i]]
  <2>1. ASSUME NEW i \in 0..(m + 1)
        PROVE  g[i] = IF i = 0 THEN first ELSE More(g[i - 1])
    <3>1. CASE i = m + 1
      <4>1. i # 0 /\ i - 1 = m /\ m \in 0..(m + 1) /\ m # m + 1
        BY <3>1
      <4> QED  BY <3>1, <4>1
    <3>2. CASE i # m + 1
      <4>1. i \in 0..m
        BY <3>2
      <4>2. f[i] = IF i = 0 THEN first ELSE More(f[i - 1])
        BY <1>2, <4>1
      <4>3. i # 0 => i - 1 \in 0..(m + 1) /\ i - 1 # m + 1
        BY <4>1
      <4> QED  BY <3>2, <4>2, <4>3
    <3> QED  BY <3>1, <3>2
  <2>2. g = [i \in 0..(m + 1) |-> g[i]]
    OBVIOUS
  <2>3. Solves(g, m + 1)
    <3> HIDE DEF g
    <3> QED  BY <2>1, <2>2
  <2> HIDE DEF Solves, g
  <2> QED  BY <2>3
<1>3. \E f : Solves(f, 0)
  <2> HIDE DEF first, More
  <2>1. Solves([i \in 0..0 |-> first], 0)
    OBVIOUS
  <2> HIDE DEF Solves
  <2> QED  BY <2>1
<1>4. Unsolved = {}
  <2>1. SUFFICES ASSUME Unsolved # {} PROVE FALSE
    OBVIOUS
  <2>2. PICK m \in Unsolved : \A k \in Unsolved : m <= k
    <3>1. Unsolved \subseteq Nat
      OBVIOUS
    <3> HIDE DEF Unsolved
    <3> QED  BY <2>1, <3>1, LeastNatural
  <2> HIDE DEF Solves
  <2>3. m \in Nat /\ m # 0
    BY <1>3
  <2>4. m - 1 \in Nat /\ ~(m - 1 \in Unsolved)
    <3>1. m - 1 \in Nat /\ ~(m <= m - 1)
      BY <2>3
    <3> HIDE DEF Unsolved
    <3> QED  BY <2>2, <3>1
  <2>5. \E g : Solves(g, (m - 1) + 1)
    BY <1>2, <2>4
  <2>6. (m - 1) + 1 = m
    BY <2>3
  <2> QED  BY <2>5, <2>6
<1> DEFINE reach == CHOOSE f : Solves(f, pairs)
<1>5. Solves(reach, pairs)
  <2> HIDE DEF Solves, pairs
  <2> QED  BY <1>1, <1>4
<1>6. InContext(s) = reach[pairs]
  BY DEF InContext, AtNode, NextSpots, NameAt
<1> DEFINE Bad == {i \in 0..pairs : ~(reach[i] \subseteq Met(s))}
<1>7. Bad = {}
  <2>1. SUFFICES ASSUME Bad # {} PROVE FALSE
    OBVIOUS
  <2>2. PICK i \in Bad : \A k \in Bad : i <= k
    <3>1. Bad \subseteq Nat
      BY <1>1
    <3> HIDE DEF Bad
    <3> QED  BY <2>1, <3>1, LeastNatural
  <2> HIDE DEF reach, pairs
  <2>3. i \in 0..pairs /\ i \in Nat
    BY <1>1
  <2>4. reach[i] = IF i = 0 THEN first ELSE More(reach[i - 1])
    <3> HIDE DEF first, More
    <3> QED  BY <1>5, <2>3
  <2>5. CASE i = 0
    BY <2>4, <2>5, MetClosed
  <2>6. CASE i # 0
    <3>1. i - 1 \in 0..pairs /\ ~(i <= i - 1)
      BY <1>1, <2>3, <2>6
    <3>2. reach[i - 1] \subseteq Met(s)
      BY <2>2, <3>1
    <3>3. More(reach[i - 1]) \subseteq Met(s)
      BY <3>2, MetClosed
    <3> QED  BY <2>4, <2>6, <3>3
  <2> QED  BY <2>5, <2>6
<1>8. reach[pairs] \subseteq Met(s)
  <2> HIDE DEF reach
  <2>1. pairs \in 0..pairs
    BY <1>1
  <2> QED  BY <1>7, <2>1
<1> QED  BY <1>6, <1>8

-----------------------------------------------------------------------------
(* What the absence of diagnostics says of what can be reached.              *)

\* The Interface required at a node is there, and its context's Binding targets it.
IsBound(p, x, ifs, bs) ==
  /\ p.schema[x[1]].need \in DOMAIN ifs
  /\ x[2] # NoName =>
       \E i \in DOMAIN p.accepts :
         /\ AcceptedByName(p, x[2]) = {i}
         /\ bs[p.accepts[i]].target = p.schema[x[1]].need

\* If no reference of a Form is at fault, what is reachable in it is bound.
LEMMA ReachedBound ==
  ASSUME NEW p, IsDocument(p.schema), p.accepts \in Seq(ContractKeys),
         NEW ifs, NEW bs, ReferenceFaults(p, ifs, bs) = {},
         NEW x \in InContext(p.schema), p.schema[x[1]].need # <<>>
  PROVE  IsBound(p, x, ifs, bs)
<1> DEFINE s == p.schema
           all == ContractAnnotations(s)
           found == [at |-> x[1], ref |-> s[x[1]].need, name |-> x[2]]
<1>1. AcceptedFaults(p, bs) = {} /\ AnnotatedInterfaceFaults(p, ifs, bs) = {} /\ AnnotatedBindingFaults(p) = {}
  BY DEF ReferenceFaults
<1>2. PICK y \in Made(s) : x = Spot(s, y)
  BY ReachableMet DEF Met
<1>3. x[1] = y[1] /\ x[2] = NameAt(s, y[1], y[2]) /\ y \in Calls(s)
  BY <1>2 DEF Spot, Made
<1>4. found \in all
  BY <1>3, MadeFound DEF Here
<1> DEFINE absent == {a \in all : a.ref \notin DOMAIN ifs}
           bound(a) == {p.accepts[i] : i \in AcceptedByName(p, a.name)} \cap DOMAIN bs
           mismatched == {a \in all \ absent :
                            /\ a.name # NoName
                            /\ Cardinality(AcceptedByName(p, a.name)) = 1
                            /\ \E b \in bound(a) : bs[b].target # a.ref}
<1>5. absent = {} /\ mismatched = {}
  <2> DEFINE A == {UnresolvedInterface(p, <<5, a.at>>, a.ref) : a \in absent}
             M == {Diagnostic("invalid_artifact", p.ref, <<5, a.at>>, <<a.name>> \o a.ref) :
                     a \in mismatched}
  <2>1. AnnotatedInterfaceFaults(p, ifs, bs) = A \cup M
    BY DEF AnnotatedInterfaceFaults
  <2>2. A = {} /\ M = {}
    <3> HIDE DEF A, M
    <3> QED  BY <1>1, <2>1
  <2>3. absent = {}
    <3> HIDE DEF absent
    <3> QED  BY <2>2
  <2>4. mismatched = {}
    <3> HIDE DEF mismatched
    <3> QED  BY <2>2
  <2> QED  BY <2>3, <2>4
<1>6. s[x[1]].need \in DOMAIN ifs
  BY <1>4, <1>5
<1>7. ASSUME x[2] # NoName
      PROVE  \E i \in DOMAIN p.accepts :
               /\ AcceptedByName(p, x[2]) = {i}
               /\ bs[p.accepts[i]].target = s[x[1]].need
  <2>1. PICK n \in DOMAIN s : s[n].bind = x[2]
    BY <1>3, <1>7, CallParts DEF Names
  <2>2. Cardinality(AcceptedByName(p, x[2])) = 1
    <3> DEFINE bad == {m \in DOMAIN p.schema :
                         /\ p.schema[m].bind # NoName
                         /\ Cardinality(AcceptedByName(p, p.schema[m].bind)) # 1}
    <3>1. bad = {}
      <4> HIDE DEF bad
      <4>1. {Diagnostic("unresolved_reference", p.ref, <<6, k>>, <<p.schema[k].bind>>) : k \in bad} = {}
        BY <1>1 DEF AnnotatedBindingFaults, bad
      <4> QED  BY <4>1
    <3> QED  BY <1>7, <2>1, <3>1
  <2>3. IsFiniteSet(AcceptedByName(p, x[2]))
    <3>1. IsFiniteSet(DOMAIN p.accepts)
      BY FS_Interval
    <3> QED  BY <3>1, FS_Subset DEF AcceptedByName
  <2>4. PICK i : AcceptedByName(p, x[2]) = {i}
    BY <2>2, <2>3, FS_Singleton
  <2>5. i \in DOMAIN p.accepts
    BY <2>4 DEF AcceptedByName
  <2>6. p.accepts[i] \in DOMAIN bs
    BY <1>1, <2>5 DEF AcceptedFaults
  <2>7. p.accepts[i] \in bound(found)
    BY <2>4, <2>6
  <2>8. found.ref = s[x[1]].need /\ found.name = x[2]
    OBVIOUS
  <2>9. bs[p.accepts[i]].target = found.ref
    <3> HIDE DEF found, all, bound
    <3> QED  BY <1>4, <1>5, <1>7, <2>2, <2>7, <2>8
  <2> QED  BY <2>4, <2>5, <2>8, <2>9
<1> QED  BY <1>6, <1>7 DEF IsBound

\* What was annotated in a Form of a Snapshot has the Interface and Binding asked for.
LEMMA StagesBind == TypeInv /\ StagesInv => RequirementsBound
<1> SUFFICES ASSUME TypeInv, StagesInv, outcome.kind = "snapshot", NEW k \in DOMAIN forms,
                    NEW x \in InContext(forms[k].schema), forms[k].schema[x[1]].need # <<>>
             PROVE  IsBound(forms[k], x, interfaces, bindings)
  BY DEF RequirementsBound, IsBound
<1>1. FormsClosed /\ ReferencesClosed
  BY DEF StagesInv, Left
<1>2. forms[k] \in Elements(input.packages)
  BY <1>1, IdentityKept DEF FormsClosed
<1>3. IsDocument(forms[k].schema) /\ forms[k].accepts \in Seq(ContractKeys)
  BY <1>2, InputsAssumption DEF TypeInv, IsInput, Parts, InputShape
<1>4. ReferenceFaults(forms[k], interfaces, bindings) = {}
  BY <1>1 DEF ReferencesClosed
<1> QED  BY <1>3, <1>4, ReachedBound

\* Whatever a schema's $refs, cyclic ones included, no required Interface of an
\* issued Snapshot escapes its Binding.
THEOREM RequirementsBoundAlways == Spec => []RequirementsBound
<1>1. Spec => []TypeInv
  BY InitTypes, StepTypes, PTL DEF Spec
<1> QED  BY <1>1, StagesAlways, StagesBind, PTL

-----------------------------------------------------------------------------
(* Lists that are rearranged, and sorting.                                   *)

\* a rearranged by r is b.
Rearranges(r, a, b) ==
  /\ Len(a) = Len(b) /\ r \in [1..Len(b) -> 1..Len(a)]
  /\ \A i, j \in 1..Len(b) : r[i] = r[j] => i = j
  /\ \A i \in 1..Len(b) : b[i] = a[r[i]]
\* Two lists are rearrangements of each other.
Same(a, b) == \E r : Rearranges(r, a, b)

\* What is placed once each fills as many places.
LEMMA PlacesFilled ==
  ASSUME NEW n \in Nat, NEW r \in [1..n -> 1..n], \A i, j \in 1..n : r[i] = r[j] => i = j
  PROVE  \A k \in 1..n : \E i \in 1..n : r[i] = k
<1>1. r \in Injection(1..n, 1..n)
  BY DEF Injection, IsInjective
<1>2. IsFiniteSet(1..n)
  BY FS_Interval
<1>3. r \in Surjection(1..n, 1..n)
  BY <1>1, <1>2, FS_Injection
<1> QED  BY <1>3 DEF Surjection

\* A list is a rearrangement of itself.
LEMMA SameReflexive ==
  ASSUME NEW a, Len(a) \in Nat
  PROVE  Same(a, a)
<1>1. Rearranges([i \in 1..Len(a) |-> i], a, a)
  BY DEF Rearranges
<1> QED  BY <1>1 DEF Same

\* What can be rearranged can be rearranged back.
LEMMA SameSymmetric ==
  ASSUME NEW a, NEW b, Len(b) \in Nat, Same(a, b)
  PROVE  Same(b, a)
<1>1. PICK r : Rearranges(r, a, b)
  BY DEF Same
<1> DEFINE n == Len(b)
           back == [k \in 1..n |-> CHOOSE i \in 1..n : r[i] = k]
<1>2. Len(a) = n /\ n \in Nat /\ r \in [1..n -> 1..n] /\ \A i, j \in 1..n : r[i] = r[j] => i = j
  BY <1>1 DEF Rearranges
<1>3. \A k \in 1..n : \E i \in 1..n : r[i] = k
  BY <1>2, PlacesFilled
<1>4. \A k \in 1..n : back[k] \in 1..n /\ r[back[k]] = k
  BY <1>3
<1>5. Rearranges(back, b, a)
  <2>1. back \in [1..n -> 1..n]
    BY <1>4
  <2>2. \A i, j \in 1..n : back[i] = back[j] => i = j
    BY <1>4
  <2>3. \A k \in 1..n : a[k] = b[back[k]]
    BY <1>1, <1>4 DEF Rearranges
  <2> HIDE DEF back
  <2> QED  BY <1>2, <2>1, <2>2, <2>3 DEF Rearranges
<1> QED  BY <1>5 DEF Same

\* Rearranging a rearranged list rearranges the list.
LEMMA SameTransitive ==
  ASSUME NEW a, NEW b, NEW c, Same(a, b), Same(b, c)
  PROVE  Same(a, c)
<1>1. PICK r : Rearranges(r, a, b)
  BY DEF Same
<1>2. PICK q : Rearranges(q, b, c)
  BY DEF Same
<1>3. Rearranges([i \in 1..Len(c) |-> r[q[i]]], a, c)
  BY <1>1, <1>2 DEF Rearranges
<1> QED  BY <1>3 DEF Same

\* Rearranging a list leaves its set of elements as it is.
LEMMA SameElements ==
  ASSUME NEW a, NEW b, IsList(a), IsList(b), Same(a, b)
  PROVE  Elements(a) = Elements(b)
<1>1. DOMAIN a = 1..Len(a) /\ DOMAIN b = 1..Len(b) /\ Len(b) \in Nat
  BY DEF IsList
<1>2. PICK r : Rearranges(r, a, b)
  BY DEF Same
<1>3. \A k \in 1..Len(a) : \E i \in 1..Len(b) : r[i] = k
  <2> DEFINE n == Len(b)
  <2>1. n \in Nat /\ Len(a) = n /\ r \in [1..n -> 1..n] /\ \A i, j \in 1..n : r[i] = r[j] => i = j
    BY <1>1, <1>2 DEF Rearranges
  <2> HIDE DEF n
  <2>2. \A k \in 1..n : \E i \in 1..n : r[i] = k
    BY <2>1, PlacesFilled
  <2> QED  BY <2>1, <2>2 DEF n
<1>4. \A i \in DOMAIN b : r[i] \in DOMAIN a /\ b[i] = a[r[i]]
  BY <1>1, <1>2 DEF Rearranges
<1>5. \A k \in DOMAIN a : \E i \in DOMAIN b : r[i] = k
  BY <1>1, <1>3
<1> QED  BY <1>4, <1>5 DEF Elements

-----------------------------------------------------------------------------
(* Sorting by insertion.                                                     *)

\* A strict order of all of U.
Orders(less, U) ==
  /\ \A a \in U : <<a, a>> \notin less
  /\ \A a, b, c \in U : <<a, b>> \in less /\ <<b, c>> \in less => <<a, c>> \in less
  /\ \A a, b \in U : a = b \/ <<a, b>> \in less \/ <<b, a>> \in less

\* No element is before an earlier one.
Ascending(less, s) == \A i, j \in 1..Len(s) : i < j => <<s[j], s[i]>> \notin less

\* Where an element goes in.
IsInserted(less, U, s, e, t) ==
  /\ t \in Seq(U) /\ Len(t) = Len(s) + 1 /\ Ascending(less, t)
  /\ \E p \in 1..(Len(s) + 1) :
       /\ t[p] = e
       /\ \A i \in 1..(Len(s) + 1) : (i < p => t[i] = s[i]) /\ (i > p => t[i] = s[i - 1])

\* insertSorted puts an element into an ascending list and leaves it ascending.
LEMMA Inserted ==
  ASSUME NEW U, NEW less, Orders(less, U), NEW s \in Seq(U), Ascending(less, s), NEW e \in U
  PROVE  IsInserted(less, U, s, e, InsertSorted(less, s, e))
<1> DEFINE n == Len(s)
           stops == {j \in 0..n : j = 0 \/ <<e, s[j]>> \notin less}
           q == CHOOSE j \in stops : \A k \in stops : k <= j
           t == InsertSorted(less, s, e)
<1>1. n \in Nat
  OBVIOUS
<1>2. q \in stops /\ \A k \in stops : k <= q
  <2>1. \E j \in stops : \A k \in stops : k <= j
    <3> DEFINE rest == {n - k : k \in stops}
    <3>1. rest \subseteq Nat /\ rest # {}
      <4>1. 0 \in stops
        BY <1>1
      <4>2. \A k \in stops : k \in 0..n
        OBVIOUS
      <4> HIDE DEF stops
      <4> QED  BY <1>1, <4>1, <4>2
    <3>2. PICK m \in rest : \A k \in rest : m <= k
      <4> HIDE DEF rest
      <4> QED  BY <3>1, LeastNatural
    <3>3. PICK j \in stops : m = n - j
      BY <3>2
    <3>4. ASSUME NEW k \in stops PROVE k <= j
      <4>1. n - k \in rest
        OBVIOUS
      <4>2. n - j <= n - k /\ k \in 0..n /\ j \in 0..n
        <5> HIDE DEF rest
        <5> QED  BY <3>2, <3>3, <4>1
      <4> QED  BY <1>1, <4>2
    <3> QED  BY <3>4
  <2> HIDE DEF stops
  <2> QED  BY <2>1
<1>3. q \in 0..n /\ (q # 0 => <<e, s[q]>> \notin less)
  <2> HIDE DEF q
  <2> QED  BY <1>2
<1>4. \A k \in (q + 1)..n : <<e, s[k]>> \in less
  <2> SUFFICES ASSUME NEW k \in (q + 1)..n, <<e, s[k]>> \notin less PROVE FALSE
    OBVIOUS
  <2> HIDE DEF q
  <2>1. k \in 0..n /\ ~(k <= q)
    BY <1>1, <1>3
  <2> QED  BY <1>2, <2>1
<1>5. t = InsertAt(s, q + 1, e)
  BY DEF InsertSorted
<1> HIDE DEF q, t
<1>6. t = SubSeq(s, 1, q) \o <<e>> \o SubSeq(s, q + 1, n)
  <2>1. (q + 1) - 1 = q
    BY <1>3
  <2> QED  BY <1>5, <2>1 DEF InsertAt
<1> DEFINE u == SubSeq(s, 1, q)
           v == SubSeq(s, q + 1, n)
<1>7. /\ u \in Seq(U) /\ Len(u) = q /\ \A i \in 1..q : u[i] = s[i]
      /\ v \in Seq(U) /\ Len(v) = n - q /\ \A i \in 1..(n - q) : v[i] = s[q + i]
  BY <1>1, <1>3
<1> HIDE DEF u, v
<1>8. t = u \o <<e>> \o v
  BY <1>6 DEF u, v
<1>9. u \o <<e>> \in Seq(U) /\ Len(u \o <<e>>) = q + 1
  BY <1>7
<1>10. t \in Seq(U) /\ Len(t) = n + 1
  BY <1>1, <1>3, <1>7, <1>8, <1>9
<1>11. \A i \in 1..q : t[i] = s[i]
  BY <1>3, <1>7, <1>8
<1>12. t[q + 1] = e
  BY <1>3, <1>7, <1>8
<1>13. \A i \in (q + 2)..(n + 1) : t[i] = s[i - 1]
  <2> SUFFICES ASSUME NEW i \in (q + 2)..(n + 1) PROVE t[i] = s[i - 1]
    OBVIOUS
  <2>1. t[i] = v[i - (q + 1)]
    BY <1>3, <1>7, <1>8, <1>9
  <2>2. i - (q + 1) \in 1..(n - q) /\ q + (i - (q + 1)) = i - 1
    BY <1>1, <1>3
  <2> QED  BY <1>7, <2>1, <2>2
<1>14. \A i \in 1..n : s[i] \in U
  OBVIOUS
<1>15. ASSUME NEW i \in 1..q PROVE <<e, s[i]>> \notin less
  <2>1. q \in 1..n /\ i \in 1..n /\ <<e, s[q]>> \notin less /\ s[q] \in U /\ s[i] \in U
    BY <1>1, <1>3, <1>14
  <2>2. i = q \/ <<s[q], s[i]>> \notin less
    BY <2>1 DEF Ascending
  <2> QED  BY <2>1, <2>2 DEF Orders
<1>16. ASSUME NEW i \in 1..Len(t), NEW j \in 1..Len(t), i < j
       PROVE  <<t[j], t[i]>> \notin less
  <2>1. i \in 1..(n + 1) /\ j \in 1..(n + 1)
    BY <1>10
  <2>2. CASE j <= q
    <3>1. i \in 1..q /\ j \in 1..q /\ i \in 1..n /\ j \in 1..n
      BY <1>1, <1>3, <1>16, <2>1, <2>2
    <3> QED  BY <1>11, <1>16, <3>1 DEF Ascending
  <2>3. CASE j = q + 1
    <3>1. i \in 1..q
      BY <1>1, <1>3, <1>16, <2>1, <2>3
    <3> QED  BY <1>11, <1>12, <1>15, <2>3, <3>1
  <2>4. CASE j > q + 1
    <3>1. j \in (q + 2)..(n + 1) /\ j - 1 \in (q + 1)..n /\ j - 1 \in 1..n
      BY <1>1, <1>3, <2>1, <2>4
    <3>2. t[j] = s[j - 1] /\ <<e, s[j - 1]>> \in less /\ s[j - 1] \in U
      BY <1>4, <1>13, <1>14, <3>1
    <3>3. CASE i <= q
      <4>1. i \in 1..q /\ i \in 1..n /\ i < j - 1
        BY <1>1, <1>3, <2>1, <2>4, <3>3
      <4> QED  BY <1>11, <3>1, <3>2, <4>1 DEF Ascending
    <3>4. CASE i = q + 1
      BY <1>12, <3>2, <3>4 DEF Orders
    <3>5. CASE i > q + 1
      <4>1. i \in (q + 2)..(n + 1) /\ i - 1 \in 1..n /\ i - 1 < j - 1
        BY <1>1, <1>3, <1>16, <2>1, <3>5
      <4> QED  BY <1>13, <3>1, <3>2, <4>1 DEF Ascending
    <3> QED  BY <1>3, <2>1, <3>3, <3>4, <3>5
  <2> QED  BY <1>3, <2>1, <2>2, <2>3, <2>4
<1>17. Ascending(less, t)
  BY <1>16 DEF Ascending
<1>18. \E p \in 1..(n + 1) :
         /\ t[p] = e
         /\ \A i \in 1..(n + 1) : (i < p => t[i] = s[i]) /\ (i > p => t[i] = s[i - 1])
  <2>1. q + 1 \in 1..(n + 1)
    BY <1>1, <1>3
  <2>2. ASSUME NEW i \in 1..(n + 1)
        PROVE  (i < q + 1 => t[i] = s[i]) /\ (i > q + 1 => t[i] = s[i - 1])
    <3>1. (i < q + 1 => i \in 1..q) /\ (i > q + 1 => i \in (q + 2)..(n + 1))
      BY <1>1, <1>3
    <3> QED  BY <1>11, <1>13, <3>1
  <2> QED  BY <1>12, <2>1, <2>2
<1>19. IsInserted(less, U, s, e, t)
  BY <1>10, <1>17, <1>18 DEF IsInserted
<1> QED  BY <1>19 DEF t

\* The recursion of an insertion sort, over the places before k.
Sorts(less, seq, m, f) ==
  f = [k \in 0..m |-> IF k = 0 THEN <<>> ELSE InsertSorted(less, f[k - 1], seq[k])]

\* SortBy is the last of the lists got by inserting one element after another.
LEMMA SortDefined ==
  ASSUME NEW less, NEW seq, Len(seq) \in Nat
  PROVE  \E f : Sorts(less, seq, Len(seq), f) /\ SortBy(less, seq) = f[Len(seq)]
<1> DEFINE Unsolved == {m \in Nat : ~\E f : Sorts(less, seq, m, f)}
<1>1. ASSUME NEW m \in Nat, NEW f, Sorts(less, seq, m, f)
      PROVE  \E g : Sorts(less, seq, m + 1, g)
  <2> DEFINE g == [k \in 0..(m + 1) |-> IF k = m + 1 THEN InsertSorted(less, f[m], seq[m + 1])
                                        ELSE f[k]]
  <2>1. ASSUME NEW k \in 0..(m + 1)
        PROVE  g[k] = IF k = 0 THEN <<>> ELSE InsertSorted(less, g[k - 1], seq[k])
    <3>1. CASE k = m + 1
      <4>1. k # 0 /\ k - 1 = m /\ m \in 0..(m + 1) /\ m # m + 1
        BY <3>1
      <4> QED  BY <3>1, <4>1
    <3>2. CASE k # m + 1
      <4>1. k \in 0..m
        BY <3>2
      <4>2. f[k] = IF k = 0 THEN <<>> ELSE InsertSorted(less, f[k - 1], seq[k])
        BY <1>1, <4>1 DEF Sorts
      <4>3. k # 0 => k - 1 \in 0..(m + 1) /\ k - 1 # m + 1
        BY <4>1
      <4> QED  BY <3>2, <4>2, <4>3
    <3> QED  BY <3>1, <3>2
  <2>2. g = [k \in 0..(m + 1) |-> g[k]]
    OBVIOUS
  <2> HIDE DEF g
  <2> QED  BY <2>1, <2>2 DEF Sorts
<1>2. Sorts(less, seq, 0, [k \in 0..0 |-> <<>>])
  BY DEF Sorts
<1>3. Unsolved = {}
  <2>1. SUFFICES ASSUME Unsolved # {} PROVE FALSE
    OBVIOUS
  <2>2. PICK m \in Unsolved : \A k \in Unsolved : m <= k
    <3>1. Unsolved \subseteq Nat
      OBVIOUS
    <3> HIDE DEF Unsolved
    <3> QED  BY <2>1, <3>1, LeastNatural
  <2>3. m \in Nat /\ m # 0
    BY <1>2
  <2>4. m - 1 \in Nat /\ ~(m - 1 \in Unsolved)
    <3>1. m - 1 \in Nat /\ ~(m <= m - 1)
      BY <2>3
    <3> HIDE DEF Unsolved
    <3> QED  BY <2>2, <3>1
  <2>5. \E g : Sorts(less, seq, (m - 1) + 1, g)
    BY <1>1, <2>4
  <2>6. (m - 1) + 1 = m
    BY <2>3
  <2> QED  BY <2>5, <2>6
<1> DEFINE f == CHOOSE f : Sorts(less, seq, Len(seq), f)
<1>4. Sorts(less, seq, Len(seq), f)
  BY <1>3
<1>5. SortBy(less, seq) = f[Len(seq)]
  BY DEF SortBy, Sorts
<1> QED  BY <1>4, <1>5

\* Sorting by an order rearranges, and ascends.
LEMMA Sorted1 ==
  ASSUME NEW U, NEW less, Orders(less, U), NEW seq \in Seq(U)
  PROVE  LET s == SortBy(less, seq)
         IN s \in Seq(U) /\ Ascending(less, s) /\ Same(seq, s)
<1> DEFINE n == Len(seq)
<1>1. n \in Nat /\ \A k \in 1..n : seq[k] \in U
  OBVIOUS
<1>2. PICK f : Sorts(less, seq, n, f) /\ SortBy(less, seq) = f[n]
  BY SortDefined
<1>3. f[0] = <<>> /\ \A k \in 1..n : f[k] = InsertSorted(less, f[k - 1], seq[k])
  <2>1. \A k \in 0..n : f[k] = IF k = 0 THEN <<>> ELSE InsertSorted(less, f[k - 1], seq[k])
    BY <1>2 DEF Sorts
  <2> QED  BY <1>1, <2>1
<1> DEFINE Placed(k, r) ==
             /\ r \in [1..k -> 1..k]
             /\ \A i, j \in 1..k : r[i] = r[j] => i = j
             /\ \A i \in 1..k : f[k][i] = seq[r[i]]
           Good(k) == /\ f[k] \in Seq(U) /\ Len(f[k]) = k /\ Ascending(less, f[k])
                      /\ \E r : Placed(k, r)
<1>4. Good(0)
  <2>1. Placed(0, <<>>)
    OBVIOUS
  <2>2. f[0] \in Seq(U) /\ Len(f[0]) = 0 /\ Ascending(less, f[0])
    BY <1>3 DEF Ascending
  <2> HIDE DEF Placed
  <2> QED  BY <2>1, <2>2
<1>5. ASSUME NEW k \in 1..n, Good(k - 1)
      PROVE  Good(k)
  <2> DEFINE s == f[k - 1]
             t == f[k]
  <2>1. t = InsertSorted(less, s, seq[k]) /\ seq[k] \in U
    BY <1>1, <1>3
  <2>2. k - 1 \in Nat /\ (k - 1) + 1 = k /\ s \in Seq(U) /\ Len(s) = k - 1 /\ Ascending(less, s)
    BY <1>1, <1>5
  <2> HIDE DEF s, t
  <2>11. IsInserted(less, U, s, seq[k], t)
    BY <2>1, <2>2, Inserted
  <2>3. t \in Seq(U) /\ Len(t) = k /\ Ascending(less, t)
    BY <2>2, <2>11 DEF IsInserted
  <2>4. PICK p \in 1..k :
          /\ t[p] = seq[k]
          /\ \A i \in 1..k : (i < p => t[i] = s[i]) /\ (i > p => t[i] = s[i - 1])
    BY <2>2, <2>11 DEF IsInserted
  <2>5. PICK r : Placed(k - 1, r)
    BY <1>5
  <2> DEFINE q == [i \in 1..k |-> IF i < p THEN r[i] ELSE IF i = p THEN k ELSE r[i - 1]]
  <2>6. /\ \A i \in 1..k : i < p => i \in 1..(k - 1)
        /\ \A i \in 1..k : i > p => i - 1 \in 1..(k - 1)
        /\ \A i \in 1..(k - 1) : i \in 1..k /\ r[i] \in 1..(k - 1) /\ r[i] \in 1..k /\ r[i] # k
    BY <2>2, <2>5
  <2>7. q \in [1..k -> 1..k]
    BY <2>2, <2>6
  <2>8. ASSUME NEW i \in 1..k, NEW j \in 1..k, q[i] = q[j]
        PROVE  i = j
    <3>1. \A a, b \in 1..(k - 1) : r[a] = r[b] => a = b
      BY <2>5
    <3> HIDE DEF Placed, Good
    <3>2. CASE i = p \/ j = p
      BY <2>6, <2>8, <3>2
    <3>3. CASE i < p /\ j < p
      BY <2>6, <2>8, <3>1, <3>3
    <3>4. CASE i > p /\ j > p
      <4>1. i - 1 = j - 1
        BY <2>6, <2>8, <3>1, <3>4
      <4> QED  BY <2>2, <4>1
    <3>5. CASE i < p /\ j > p
      <4>1. i = j - 1
        BY <2>6, <2>8, <3>1, <3>5
      <4> QED  BY <2>2, <3>5, <4>1
    <3>6. CASE i > p /\ j < p
      <4>1. i - 1 = j
        BY <2>6, <2>8, <3>1, <3>6
      <4> QED  BY <2>2, <3>6, <4>1
    <3> QED  BY <2>2, <3>2, <3>3, <3>4, <3>5, <3>6
  <2>9. ASSUME NEW i \in 1..k
        PROVE  t[i] = seq[q[i]]
    <3>1. \A a \in 1..(k - 1) : s[a] = seq[r[a]]
      BY <2>5 DEF s
    <3> HIDE DEF Placed, Good
    <3>2. CASE i = p
      BY <2>4, <3>2
    <3>3. CASE i < p
      BY <2>4, <2>6, <3>1, <3>3
    <3>4. CASE i > p
      BY <2>4, <2>6, <3>1, <3>4
    <3> QED  BY <2>2, <3>2, <3>3, <3>4
  <2>10. Placed(k, q)
    <3> HIDE DEF q
    <3> QED  BY <2>7, <2>8, <2>9 DEF t
  <2> HIDE DEF Placed, q
  <2> QED  BY <2>3, <2>10 DEF t
<1> HIDE DEF Good
<1> DEFINE Bad == {k \in 0..n : ~Good(k)}
<1>6. Bad = {}
  <2>1. SUFFICES ASSUME Bad # {} PROVE FALSE
    OBVIOUS
  <2>2. PICK k \in Bad : \A j \in Bad : k <= j
    <3>1. Bad \subseteq Nat
      BY <1>1
    <3> HIDE DEF Bad
    <3> QED  BY <2>1, <3>1, LeastNatural
  <2>3. k \in 1..n
    BY <1>1, <1>4
  <2>4. k - 1 \in 0..n /\ ~(k <= k - 1)
    BY <1>1, <2>3
  <2>5. Good(k - 1)
    BY <2>2, <2>4
  <2> QED  BY <1>5, <2>3, <2>5
<1>7. Good(n)
  BY <1>1, <1>6
<1>8. PICK r : Placed(n, r)
  BY <1>7 DEF Good
<1>9. f[n] \in Seq(U) /\ Len(f[n]) = n /\ Ascending(less, f[n])
  BY <1>7 DEF Good
<1>10. Rearranges(r, seq, f[n])
  BY <1>8, <1>9 DEF Rearranges
<1> QED  BY <1>2, <1>9, <1>10 DEF Same

\* One list is the only one that ascends of those that hold the same.
LEMMA AscendingUnique ==
  ASSUME NEW U, NEW less, Orders(less, U), NEW a \in Seq(U), NEW b \in Seq(U),
         Ascending(less, a), Ascending(less, b), Same(a, b)
  PROVE  a = b
<1> DEFINE n == Len(a)
<1>1. PICK r : Rearranges(r, a, b)
  BY DEF Same
<1>2. /\ n \in Nat /\ Len(b) = n /\ r \in [1..n -> 1..n] /\ \A i, j \in 1..n : r[i] = r[j] => i = j
      /\ \A i \in 1..n : b[i] = a[r[i]] /\ a[i] \in U /\ b[i] \in U /\ r[i] \in 1..n
  BY <1>1 DEF Rearranges
<1>3. ASSUME NEW i \in 1..n, <<a[i], b[i]>> \in less
      PROVE  FALSE
  <2>1. ASSUME NEW k \in i..n PROVE r[k] \in (i + 1)..n
    <3>1. k \in 1..n /\ (k = i \/ i < k)
      BY <1>2
    <3>2. <<b[k], b[i]>> \notin less
      BY <1>2, <3>1 DEF Ascending, Orders
    <3>3. <<a[i], b[k]>> \in less
      BY <1>2, <1>3, <3>1, <3>2 DEF Orders
    <3>4. ~(r[k] < i)
      BY <1>2, <3>1, <3>3 DEF Ascending
    <3>5. r[k] # i
      BY <1>2, <3>1, <3>3 DEF Orders
    <3> QED  BY <1>2, <3>1, <3>4, <3>5
  <2> DEFINE g == [k \in i..n |-> r[k]]
  <2>2. g \in [i..n -> (i + 1)..n] /\ \A k \in i..n : g[k] = r[k]
    BY <2>1
  <2>3. /\ IsFiniteSet(i..n) /\ Cardinality(i..n) = n - i + 1
        /\ IsFiniteSet((i + 1)..n) /\ Cardinality((i + 1)..n) = n - i
    <3>1. i \in Int /\ n \in Int /\ i + 1 \in Int /\ ~(i > n)
      BY <1>2
    <3>2. /\ IsFiniteSet(i..n) /\ Cardinality(i..n) = IF i > n THEN 0 ELSE n - i + 1
          /\ IsFiniteSet((i + 1)..n)
          /\ Cardinality((i + 1)..n) = IF i + 1 > n THEN 0 ELSE n - (i + 1) + 1
      BY <3>1, FS_Interval
    <3> QED  BY <1>2, <3>1, <3>2
  <2>4. Cardinality((i + 1)..n) < Cardinality(i..n)
    BY <1>2, <2>3
  <2> HIDE DEF g
  <2>5. PICK j, k \in i..n : j # k /\ g[j] = g[k]
    <3> DEFINE S == i..n
               T == (i + 1)..n
    <3>1. IsFiniteSet(S) /\ IsFiniteSet(T) /\ Cardinality(T) < Cardinality(S) /\ g \in [S -> T]
      BY <2>2, <2>3, <2>4
    <3> HIDE DEF S, T
    <3>2. \E j, k \in S : j # k /\ g[j] = g[k]
      BY <3>1, FS_PigeonHole
    <3> QED  BY <3>2 DEF S
  <2>6. r[j] = r[k]
    BY <2>2, <2>5
  <2>7. j \in 1..n /\ k \in 1..n
    BY <1>2
  <2> QED  BY <1>2, <2>5, <2>6, <2>7
<1>4. ASSUME NEW i \in 1..n, <<b[i], a[i]>> \in less
      PROVE  FALSE
  <2>1. ASSUME NEW k \in 1..i PROVE r[k] \in 1..(i - 1)
    <3>1. k \in 1..n /\ (k = i \/ k < i)
      BY <1>2
    <3>2. <<b[i], b[k]>> \notin less
      BY <1>2, <3>1 DEF Ascending, Orders
    <3>3. <<b[k], a[i]>> \in less
      BY <1>2, <1>4, <3>1, <3>2 DEF Orders
    <3>4. ~(i < r[k])
      BY <1>2, <3>1, <3>3 DEF Ascending
    <3>5. r[k] # i
      BY <1>2, <3>1, <3>3 DEF Orders
    <3> QED  BY <1>2, <3>1, <3>4, <3>5
  <2> DEFINE g == [k \in 1..i |-> r[k]]
  <2>2. g \in [1..i -> 1..(i - 1)] /\ \A k \in 1..i : g[k] = r[k]
    BY <2>1
  <2>3. /\ IsFiniteSet(1..i) /\ Cardinality(1..i) = i
        /\ IsFiniteSet(1..(i - 1)) /\ Cardinality(1..(i - 1)) = i - 1
    <3>1. /\ IsFiniteSet(1..i) /\ Cardinality(1..i) = IF 1 > i THEN 0 ELSE i - 1 + 1
          /\ IsFiniteSet(1..(i - 1))
          /\ Cardinality(1..(i - 1)) = IF 1 > i - 1 THEN 0 ELSE (i - 1) - 1 + 1
      BY FS_Interval
    <3> QED  BY <3>1
  <2> HIDE DEF g
  <2>4. PICK j, k \in 1..i : j # k /\ g[j] = g[k]
    <3> DEFINE S == 1..i
               T == 1..(i - 1)
    <3>0. i - 1 < i
      OBVIOUS
    <3>1. IsFiniteSet(S) /\ IsFiniteSet(T) /\ Cardinality(T) < Cardinality(S) /\ g \in [S -> T]
      <4>1. IsFiniteSet(S) /\ IsFiniteSet(T) /\ g \in [S -> T]
        BY <2>2, <2>3
      <4>2. Cardinality(S) = i /\ Cardinality(T) = i - 1
        BY <2>3
      <4> QED  BY <3>0, <4>1, <4>2
    <3> HIDE DEF S, T
    <3>2. \E j, k \in S : j # k /\ g[j] = g[k]
      BY <3>1, FS_PigeonHole
    <3> QED  BY <3>2 DEF S
  <2>5. r[j] = r[k]
    BY <2>2, <2>4
  <2>6. j \in 1..n /\ k \in 1..n
    BY <1>2
  <2> QED  BY <1>2, <2>4, <2>5, <2>6
<1>5. \A i \in 1..n : a[i] = b[i]
  BY <1>2, <1>3, <1>4 DEF Orders
<1> QED  BY <1>2, <1>5

\* However a list is rearranged, sorting it by an order gives the same list.
LEMMA SortSame ==
  ASSUME NEW U, NEW less, Orders(less, U), NEW a \in Seq(U), NEW b \in Seq(U), Same(a, b)
  PROVE  SortBy(less, a) = SortBy(less, b)
<1> DEFINE s == SortBy(less, a)
           t == SortBy(less, b)
<1>1. s \in Seq(U) /\ Ascending(less, s) /\ Same(a, s)
  BY Sorted1
<1>2. t \in Seq(U) /\ Ascending(less, t) /\ Same(b, t)
  BY Sorted1
<1> HIDE DEF s, t
<1>3. Same(s, t)
  <2>1. Same(s, a)
    BY <1>1, SameSymmetric
  <2> QED  BY <1>2, <2>1, SameTransitive
<1>4. s = t
  BY <1>1, <1>2, <1>3, AscendingUnique
<1> QED  BY <1>4 DEF s, t

-----------------------------------------------------------------------------
(* The orders that are sorted by.                                            *)

\* s comes first at place i, where the two part.
PartAt(s, t, i) ==
  /\ i \in 1..Len(t) /\ i - 1 <= Len(s)
  /\ \A j \in 1..(i - 1) : s[j] = t[j]
  /\ i > Len(s) \/ s[i] < t[i]

\* One text is before another where they first part.
LEMMA LexParts ==
  ASSUME NEW s \in Seq(Int), NEW t \in Seq(Int)
  PROVE  LexLess(s, t) <=> \E i : PartAt(s, t, i)
<1>1. ASSUME NEW i \in 1..Len(t), i - 1 <= Len(s)
      PROVE  SubSeq(s, 1, i - 1) = SubSeq(t, 1, i - 1) <=> \A j \in 1..(i - 1) : s[j] = t[j]
  <2> DEFINE m == i - 1
             a == SubSeq(s, 1, m)
             b == SubSeq(t, 1, m)
  <2>1. m \in Nat /\ m <= Len(s) /\ m <= Len(t)
    BY <1>1
  <2>2. a \in Seq(Int) /\ Len(a) = m /\ \A j \in 1..m : a[j] = s[j]
    BY <2>1
  <2>3. b \in Seq(Int) /\ Len(b) = m /\ \A j \in 1..m : b[j] = t[j]
    BY <2>1
  <2> HIDE DEF a, b
  <2>4. a = b <=> \A j \in 1..m : a[j] = b[j]
    BY <2>1, <2>2, <2>3
  <2> QED  BY <2>2, <2>3, <2>4 DEF a, b
<1> QED  BY <1>1 DEF LexLess, PartAt

\* No text is before itself.
LEMMA LexIrreflexive ==
  ASSUME NEW s \in Seq(Int)
  PROVE  ~LexLess(s, s)
<1>1. \A i \in 1..Len(s) : s[i] \in Int /\ ~(i > Len(s))
  OBVIOUS
<1> QED  BY <1>1, LexParts DEF PartAt

\* The order of texts is transitive.
LEMMA LexTransitive ==
  ASSUME NEW s \in Seq(Int), NEW t \in Seq(Int), NEW u \in Seq(Int), LexLess(s, t), LexLess(t, u)
  PROVE  LexLess(s, u)
<1>1. PICK i : PartAt(s, t, i)
  BY LexParts
<1>2. PICK j : PartAt(t, u, j)
  BY LexParts
<1>3. /\ Len(s) \in Nat /\ Len(t) \in Nat /\ Len(u) \in Nat
      /\ \A k \in 1..Len(s) : s[k] \in Int
      /\ \A k \in 1..Len(t) : t[k] \in Int
      /\ \A k \in 1..Len(u) : u[k] \in Int
  OBVIOUS
<1>4. CASE i <= j
  <2>1. i \in 1..Len(u) /\ i - 1 <= Len(s)
    BY <1>1, <1>2, <1>3, <1>4 DEF PartAt
  <2>2. \A k \in 1..(i - 1) : s[k] = u[k]
    <3>1. \A k \in 1..(i - 1) : k \in 1..(j - 1)
      BY <1>1, <1>2, <1>3, <1>4 DEF PartAt
    <3> QED  BY <1>1, <1>2, <3>1 DEF PartAt
  <2>3. i > Len(s) \/ s[i] < u[i]
    <3>1. CASE i = j
      <4>1. ~(i > Len(t))
        BY <1>1, <1>3 DEF PartAt
      <4> QED  BY <1>1, <1>2, <1>3, <2>1, <3>1, <4>1 DEF PartAt
    <3>2. CASE i < j
      <4>1. i \in 1..(j - 1)
        BY <1>1, <1>2, <1>3, <3>2 DEF PartAt
      <4>2. t[i] = u[i]
        BY <1>2, <4>1 DEF PartAt
      <4> QED  BY <1>1, <4>2 DEF PartAt
    <3> QED  BY <1>1, <1>2, <1>3, <1>4, <3>1, <3>2 DEF PartAt
  <2> QED  BY <2>1, <2>2, <2>3, LexParts DEF PartAt
<1>5. CASE j < i
  <2>1. j \in 1..Len(u) /\ j - 1 <= Len(s) /\ j \in 1..(i - 1) /\ j <= Len(s) /\ j <= Len(t)
    BY <1>1, <1>2, <1>3, <1>5 DEF PartAt
  <2>2. \A k \in 1..(j - 1) : s[k] = u[k]
    <3>1. \A k \in 1..(j - 1) : k \in 1..(i - 1)
      BY <1>1, <1>2, <1>3, <1>5 DEF PartAt
    <3> QED  BY <1>1, <1>2, <3>1 DEF PartAt
  <2>3. s[j] < u[j]
    <3>1. s[j] = t[j]
      BY <1>1, <2>1 DEF PartAt
    <3>2. t[j] < u[j]
      BY <1>2, <1>3, <2>1 DEF PartAt
    <3> QED  BY <3>1, <3>2
  <2> QED  BY <2>1, <2>2, <2>3, LexParts DEF PartAt
<1> QED  BY <1>1, <1>2, <1>3, <1>4, <1>5 DEF PartAt

\* Of two different texts one is before the other.
LEMMA LexTotal ==
  ASSUME NEW s \in Seq(Int), NEW t \in Seq(Int)
  PROVE  s = t \/ LexLess(s, t) \/ LexLess(t, s)
<1> SUFFICES ASSUME s # t PROVE LexLess(s, t) \/ LexLess(t, s)
  OBVIOUS
<1>1. /\ Len(s) \in Nat /\ Len(t) \in Nat
      /\ \A k \in 1..Len(s) : s[k] \in Int
      /\ \A k \in 1..Len(t) : t[k] \in Int
  OBVIOUS
<1> DEFINE Differ(k) == k > Len(s) \/ k > Len(t) \/ s[k] # t[k]
           apart == {k \in Nat \ {0} : Differ(k)}
<1>2. apart \subseteq Nat /\ apart # {}
  <2>1. Len(s) + 1 \in apart
    BY <1>1
  <2> QED  BY <2>1
<1>3. PICK i \in apart : \A k \in apart : i <= k
  <2> HIDE DEF apart
  <2> QED  BY <1>2, LeastNatural
<1>4. i \in Nat \ {0} /\ Differ(i)
  BY <1>3
<1>5. \A k \in 1..(i - 1) : k <= Len(s) /\ k <= Len(t) /\ s[k] = t[k]
  <2> SUFFICES ASSUME NEW k \in 1..(i - 1), Differ(k) PROVE FALSE
    BY <1>1, <1>4
  <2>1. k \in apart
    BY <1>4
  <2> HIDE DEF apart
  <2>2. i <= k
    BY <1>3, <2>1
  <2> QED  BY <1>4, <2>2
<1>6. i - 1 <= Len(s) /\ i - 1 <= Len(t)
  <2>1. CASE i = 1
    BY <1>1, <2>1
  <2>2. CASE i # 1
    <3>1. i - 1 \in 1..(i - 1)
      BY <1>4, <2>2
    <3> QED  BY <1>5, <3>1
  <2> QED  BY <2>1, <2>2
<1>7. CASE i > Len(s) /\ i > Len(t)
  <2>1. Len(s) = i - 1 /\ Len(t) = i - 1
    BY <1>1, <1>4, <1>6, <1>7
  <2>2. s = t
    BY <1>5, <2>1
  <2> QED  BY <2>2
<1>8. CASE i > Len(s) /\ i <= Len(t)
  <2>1. PartAt(s, t, i)
    <3>1. i \in 1..Len(t)
      BY <1>1, <1>4, <1>8
    <3> QED  BY <1>5, <1>6, <1>8, <3>1 DEF PartAt
  <2> QED  BY <2>1, LexParts
<1>9. CASE i <= Len(s) /\ i > Len(t)
  <2>1. PartAt(t, s, i)
    <3>1. i \in 1..Len(s)
      BY <1>1, <1>4, <1>9
    <3> QED  BY <1>5, <1>6, <1>9, <3>1 DEF PartAt
  <2> QED  BY <2>1, LexParts
<1>10. CASE i <= Len(s) /\ i <= Len(t)
  <2>1. i \in 1..Len(s) /\ i \in 1..Len(t) /\ s[i] # t[i] /\ s[i] \in Int /\ t[i] \in Int
    BY <1>1, <1>4, <1>10
  <2>2. s[i] < t[i] \/ t[i] < s[i]
    BY <2>1
  <2> QED  BY <1>5, <1>6, <2>1, <2>2, LexParts DEF PartAt
<1> QED  BY <1>1, <1>4, <1>7, <1>8, <1>9, <1>10

\* Texts are strictly ordered: sort.Strings knows no ties.
LEMMA LexOrders ==
  ASSUME NEW U, U \subseteq Seq(Int)
  PROVE  Orders({x \in U \X U : LexLess(x[1], x[2])}, U)
<1> DEFINE less == {x \in U \X U : LexLess(x[1], x[2])}
<1>1. \A a, b \in U : <<a, b>> \in less <=> LexLess(a, b)
  OBVIOUS
<1> HIDE DEF less
<1>2. \A a \in U : <<a, a>> \notin less
  BY <1>1, LexIrreflexive
<1>3. ASSUME NEW a \in U, NEW b \in U, NEW c \in U, <<a, b>> \in less, <<b, c>> \in less
      PROVE  <<a, c>> \in less
  BY <1>1, <1>3, LexTransitive
<1>4. \A a, b \in U : a = b \/ <<a, b>> \in less \/ <<b, a>> \in less
  BY <1>1, LexTotal
<1>5. Orders(less, U)
  BY <1>2, <1>3, <1>4 DEF Orders
<1> QED  BY <1>5 DEF less

\* Diagnostics whose texts are texts.
Diagnostics ==
  [code : DOMAIN CodeRank, subject : Seq(Int), pointer : Seq(Int), message : Seq(Int)]

\* No two codes have the same rank.
LEMMA RanksApart ==
  /\ \A c \in DOMAIN CodeRank : CodeRank[c] \in Int
  /\ \A c, d \in DOMAIN CodeRank : CodeRank[c] = CodeRank[d] => c = d
BY DEF CodeRank

\* The order of diagnostics is transitive.
LEMMA DiagnosticTransitive ==
  ASSUME NEW l \in Diagnostics, NEW m \in Diagnostics, NEW r \in Diagnostics,
         DiagnosticLess(l, m), DiagnosticLess(m, r)
  PROVE  DiagnosticLess(l, r)
<1>1. /\ l.subject \in Seq(Int) /\ m.subject \in Seq(Int) /\ r.subject \in Seq(Int)
      /\ l.pointer \in Seq(Int) /\ m.pointer \in Seq(Int) /\ r.pointer \in Seq(Int)
      /\ l.message \in Seq(Int) /\ m.message \in Seq(Int) /\ r.message \in Seq(Int)
      /\ CodeRank[l.code] \in Int /\ CodeRank[m.code] \in Int /\ CodeRank[r.code] \in Int
      /\ l.code \in DOMAIN CodeRank /\ m.code \in DOMAIN CodeRank /\ r.code \in DOMAIN CodeRank
  BY RanksApart DEF Diagnostics
<1>2. /\ LexLess(l.subject, m.subject) /\ LexLess(m.subject, r.subject)
           => LexLess(l.subject, r.subject) /\ l.subject # r.subject
      /\ LexLess(l.pointer, m.pointer) /\ LexLess(m.pointer, r.pointer)
           => LexLess(l.pointer, r.pointer) /\ l.pointer # r.pointer
      /\ LexLess(l.message, m.message) /\ LexLess(m.message, r.message)
           => LexLess(l.message, r.message)
  <2>1. /\ LexLess(l.subject, m.subject) /\ LexLess(m.subject, r.subject)
             => LexLess(l.subject, r.subject)
        /\ LexLess(l.pointer, m.pointer) /\ LexLess(m.pointer, r.pointer)
             => LexLess(l.pointer, r.pointer)
        /\ LexLess(l.message, m.message) /\ LexLess(m.message, r.message)
             => LexLess(l.message, r.message)
    BY <1>1, LexTransitive
  <2>2. ~LexLess(l.subject, l.subject) /\ ~LexLess(l.pointer, l.pointer)
    BY <1>1, LexIrreflexive
  <2> QED  BY <2>1, <2>2
<1>3. CASE l.subject # m.subject \/ m.subject # r.subject
  BY <1>2, <1>3 DEF DiagnosticLess
<1>4. CASE l.subject = m.subject /\ m.subject = r.subject
  <2>1. CASE l.pointer # m.pointer \/ m.pointer # r.pointer
    BY <1>2, <1>4, <2>1 DEF DiagnosticLess
  <2>2. CASE l.pointer = m.pointer /\ m.pointer = r.pointer
    <3>1. CASE l.code # m.code \/ m.code # r.code
      <4>1. CodeRank[l.code] < CodeRank[r.code]
        BY <1>1, <1>4, <2>2, <3>1 DEF DiagnosticLess
      <4>2. l.code # r.code
        BY <1>1, <4>1
      <4> QED  BY <1>4, <2>2, <4>1, <4>2 DEF DiagnosticLess
    <3>2. CASE l.code = m.code /\ m.code = r.code
      BY <1>2, <1>4, <2>2, <3>2 DEF DiagnosticLess
    <3> QED  BY <3>1, <3>2
  <2> QED  BY <2>1, <2>2
<1> QED  BY <1>3, <1>4

\* Of two different diagnostics one is before the other.
LEMMA DiagnosticTotal ==
  ASSUME NEW l \in Diagnostics, NEW r \in Diagnostics
  PROVE  /\ ~DiagnosticLess(l, l)
         /\ l = r \/ DiagnosticLess(l, r) \/ DiagnosticLess(r, l)
<1>1. /\ l.subject \in Seq(Int) /\ r.subject \in Seq(Int)
      /\ l.pointer \in Seq(Int) /\ r.pointer \in Seq(Int)
      /\ l.message \in Seq(Int) /\ r.message \in Seq(Int)
      /\ CodeRank[l.code] \in Int /\ CodeRank[r.code] \in Int
      /\ CodeRank[l.code] = CodeRank[r.code] => l.code = r.code
  BY RanksApart DEF Diagnostics
<1>2. ~DiagnosticLess(l, l)
  <2>1. ~LexLess(l.message, l.message)
    BY <1>1, LexIrreflexive
  <2> QED  BY <2>1 DEF DiagnosticLess
<1>3. CASE l.subject # r.subject
  <2>1. LexLess(l.subject, r.subject) \/ LexLess(r.subject, l.subject)
    BY <1>1, <1>3, LexTotal
  <2> QED  BY <1>2, <1>3, <2>1 DEF DiagnosticLess
<1>4. CASE l.subject = r.subject /\ l.pointer # r.pointer
  <2>1. LexLess(l.pointer, r.pointer) \/ LexLess(r.pointer, l.pointer)
    BY <1>1, <1>4, LexTotal
  <2> QED  BY <1>2, <1>4, <2>1 DEF DiagnosticLess
<1>5. CASE l.subject = r.subject /\ l.pointer = r.pointer /\ l.code # r.code
  <2>1. CodeRank[l.code] < CodeRank[r.code] \/ CodeRank[r.code] < CodeRank[l.code]
    BY <1>1, <1>5
  <2> QED  BY <1>2, <1>5, <2>1 DEF DiagnosticLess
<1>6. CASE l.subject = r.subject /\ l.pointer = r.pointer /\ l.code = r.code
  <2>1. l.message = r.message \/ LexLess(l.message, r.message) \/ LexLess(r.message, l.message)
    BY <1>1, LexTotal
  <2>2. l.message = r.message => l = r
    BY <1>6 DEF Diagnostics
  <2>3. /\ DiagnosticLess(l, r) <=> LexLess(l.message, r.message)
        /\ DiagnosticLess(r, l) <=> LexLess(r.message, l.message)
    BY <1>6 DEF DiagnosticLess
  <2> QED  BY <1>2, <2>1, <2>2, <2>3
<1> QED  BY <1>2, <1>3, <1>4, <1>5, <1>6

\* sortDiagnostics compares every field, so it knows no ties either.
LEMMA DiagnosticOrders ==
  ASSUME NEW U, U \subseteq Diagnostics
  PROVE  Orders({x \in U \X U : DiagnosticLess(x[1], x[2])}, U)
<1> DEFINE less == {x \in U \X U : DiagnosticLess(x[1], x[2])}
<1>1. \A a, b \in U : <<a, b>> \in less <=> DiagnosticLess(a, b)
  OBVIOUS
<1> HIDE DEF less
<1>2. \A a \in U : <<a, a>> \notin less
  BY <1>1, DiagnosticTotal
<1>3. ASSUME NEW a \in U, NEW b \in U, NEW c \in U, <<a, b>> \in less, <<b, c>> \in less
      PROVE  <<a, c>> \in less
  BY <1>1, <1>3, DiagnosticTransitive
<1>4. \A a, b \in U : a = b \/ <<a, b>> \in less \/ <<b, a>> \in less
  BY <1>1, DiagnosticTotal
<1>5. Orders(less, U)
  BY <1>2, <1>3, <1>4 DEF Orders
<1> QED  BY <1>5 DEF less

\* Every version is one whose precedence 64-bit numbers hold.
VersionsFit == \A v \in DOMAIN SemVer : SemVer[v] # NoSemVer

\* lessKey as the order of one text: with all versions parsed, the precedence has a
\* place of its own before the version's text.
KeyText(k) == <<k[1], k[2], SemVer[k[3]], k[3], k[4]>>

\* The order of texts of two characters.
LEMMA LexOfPairs ==
  ASSUME NEW a \in Int, NEW b \in Int, NEW c \in Int, NEW d \in Int
  PROVE  LexLess(<<a, b>>, <<c, d>>) <=> (a < c \/ (a = c /\ b < d))
<1> DEFINE s == <<a, b>>
           t == <<c, d>>
<1>1. s \in Seq(Int) /\ t \in Seq(Int) /\ Len(s) = 2 /\ Len(t) = 2
  OBVIOUS
<1>2. s[1] = a /\ s[2] = b /\ t[1] = c /\ t[2] = d
  OBVIOUS
<1> HIDE DEF s, t
<1>3. PartAt(s, t, 1) <=> a < c
  BY <1>1, <1>2 DEF PartAt
<1>4. PartAt(s, t, 2) <=> a = c /\ b < d
  <2>1. 1..(2 - 1) = {1} /\ 2 \in 1..2 /\ 2 - 1 <= 2 /\ ~(2 > 2)
    OBVIOUS
  <2> QED  BY <1>1, <1>2, <2>1 DEF PartAt
<1>5. \A i : PartAt(s, t, i) => i = 1 \/ i = 2
  BY <1>1 DEF PartAt
<1>6. LexLess(s, t) <=> \E i : PartAt(s, t, i)
  BY <1>1, LexParts
<1> QED  BY <1>3, <1>4, <1>5, <1>6 DEF s, t

\* The order of texts of five characters.
LEMMA LexOfKeys ==
  ASSUME NEW s \in Seq(Int), NEW t \in Seq(Int), Len(s) = 5, Len(t) = 5
  PROVE  LexLess(s, t) <=>
           \/ s[1] < t[1]
           \/ s[1] = t[1] /\ s[2] < t[2]
           \/ s[1] = t[1] /\ s[2] = t[2] /\ s[3] < t[3]
           \/ s[1] = t[1] /\ s[2] = t[2] /\ s[3] = t[3] /\ s[4] < t[4]
           \/ s[1] = t[1] /\ s[2] = t[2] /\ s[3] = t[3] /\ s[4] = t[4] /\ s[5] < t[5]
<1>1. \A i \in 1..5 : i - 1 <= Len(s) /\ i \in 1..Len(t) /\ ~(i > Len(s))
  OBVIOUS
<1>2. \A i \in 1..5 : PartAt(s, t, i) <=> s[i] < t[i] /\ \A j \in 1..(i - 1) : s[j] = t[j]
  BY <1>1 DEF PartAt
<1>3. PartAt(s, t, 1) <=> s[1] < t[1]
  BY <1>2
<1>4. PartAt(s, t, 2) <=> s[1] = t[1] /\ s[2] < t[2]
  <2>1. \A j : j \in 1..(2 - 1) <=> j = 1
    OBVIOUS
  <2> QED  BY <1>2, <2>1
<1>5. PartAt(s, t, 3) <=> s[1] = t[1] /\ s[2] = t[2] /\ s[3] < t[3]
  <2>1. \A j : j \in 1..(3 - 1) <=> j = 1 \/ j = 2
    OBVIOUS
  <2> QED  BY <1>2, <2>1
<1>6. PartAt(s, t, 4) <=> s[1] = t[1] /\ s[2] = t[2] /\ s[3] = t[3] /\ s[4] < t[4]
  <2>1. \A j : j \in 1..(4 - 1) <=> j = 1 \/ j = 2 \/ j = 3
    OBVIOUS
  <2> QED  BY <1>2, <2>1
<1>7. PartAt(s, t, 5)
        <=> s[1] = t[1] /\ s[2] = t[2] /\ s[3] = t[3] /\ s[4] = t[4] /\ s[5] < t[5]
  <2>1. \A j : j \in 1..(5 - 1) <=> j = 1 \/ j = 2 \/ j = 3 \/ j = 4
    OBVIOUS
  <2> QED  BY <1>2, <2>1
<1>8. \A i : PartAt(s, t, i) => i \in {1, 2, 3, 4, 5}
  BY DEF PartAt
<1>9. LexLess(s, t) <=> \E i : PartAt(s, t, i)
  BY LexParts
<1> QED  BY <1>3, <1>4, <1>5, <1>6, <1>7, <1>8, <1>9

\* Where versions fit, the text of a FormKey tells it from every other.
LEMMA KeyTexts ==
  ASSUME VersionsFit, NEW l \in FormKeys, NEW r \in FormKeys
  PROVE  /\ KeyText(l) \in Seq(Int) /\ KeyText(r) \in Seq(Int)
         /\ KeyText(l) = KeyText(r) => l = r
         /\ LessKey(l, r) <=> LexLess(KeyText(l), KeyText(r))
<1>1. /\ l = <<l[1], l[2], l[3], l[4]>> /\ r = <<r[1], r[2], r[3], r[4]>>
      /\ l[1] \in Int /\ l[2] \in Int /\ l[3] \in DOMAIN SemVer /\ l[4] \in Int
      /\ r[1] \in Int /\ r[2] \in Int /\ r[3] \in DOMAIN SemVer /\ r[4] \in Int
  BY DEF FormKeys
<1>2. l[3] \in Int /\ r[3] \in Int
  BY <1>1, SemVerAssumption DEF VersionsFit
<1>3. SemVer[l[3]] \in Int /\ SemVer[r[3]] \in Int /\ SemVer[l[3]] # NoSemVer /\ SemVer[r[3]] # NoSemVer
  BY <1>1, SemVerAssumption DEF VersionsFit
<1> DEFINE a == SemVer[l[3]]
           b == SemVer[r[3]]
           s == KeyText(l)
           t == KeyText(r)
<1>4. s \in Seq(Int) /\ t \in Seq(Int) /\ Len(s) = 5 /\ Len(t) = 5
  BY <1>1, <1>2, <1>3 DEF KeyText
<1>5. /\ s[1] = l[1] /\ s[2] = l[2] /\ s[3] = a /\ s[4] = l[3] /\ s[5] = l[4]
      /\ t[1] = r[1] /\ t[2] = r[2] /\ t[3] = b /\ t[4] = r[3] /\ t[5] = r[4]
  BY DEF KeyText
<1>6. s = t => l = r
  BY <1>1, <1>5
<1>7. LexLess(<<l[1], l[2]>>, <<r[1], r[2]>>) <=> (l[1] < r[1] \/ (l[1] = r[1] /\ l[2] < r[2]))
  BY <1>1, LexOfPairs
<1>8. LexLess(<<l[3], l[4]>>, <<r[3], r[4]>>) <=> (l[3] < r[3] \/ (l[3] = r[3] /\ l[4] < r[4]))
  BY <1>1, <1>2, LexOfPairs
<1>9. LexLess(s, t) <=>
        \/ l[1] < r[1]
        \/ l[1] = r[1] /\ l[2] < r[2]
        \/ l[1] = r[1] /\ l[2] = r[2] /\ a < b
        \/ l[1] = r[1] /\ l[2] = r[2] /\ a = b /\ l[3] < r[3]
        \/ l[1] = r[1] /\ l[2] = r[2] /\ a = b /\ l[3] = r[3] /\ l[4] < r[4]
  <2> HIDE DEF s, t
  <2> QED  BY <1>4, <1>5, LexOfKeys
<1>10. LessKey(l, r) <=> LexLess(s, t)
  <2>1. <<l[1], l[2]>> # <<r[1], r[2]>> <=> l[1] # r[1] \/ l[2] # r[2]
    OBVIOUS
  <2>2. CASE l[1] # r[1] \/ l[2] # r[2]
    <3>1. LessKey(l, r) <=> LexLess(<<l[1], l[2]>>, <<r[1], r[2]>>)
      BY <2>1, <2>2 DEF LessKey
    <3> HIDE DEF s, t
    <3> QED  BY <1>1, <1>7, <1>9, <2>2, <3>1
  <2>3. CASE l[1] = r[1] /\ l[2] = r[2] /\ a # b
    <3>1. LessKey(l, r) <=> a < b
      BY <1>3, <2>1, <2>3 DEF LessKey
    <3> HIDE DEF s, t
    <3> QED  BY <1>1, <1>3, <1>9, <2>3, <3>1
  <2>4. CASE l[1] = r[1] /\ l[2] = r[2] /\ a = b
    <3>1. LessKey(l, r) <=> LexLess(<<l[3], l[4]>>, <<r[3], r[4]>>)
      BY <1>3, <2>1, <2>4 DEF LessKey
    <3> HIDE DEF s, t
    <3> QED  BY <1>1, <1>3, <1>8, <1>9, <2>4, <3>1
  <2> QED  BY <2>2, <2>3, <2>4
<1> QED  BY <1>4, <1>6, <1>10

\* Where versions fit, LessKey is a strict order of the identities.
LEMMA KeyOrders ==
  ASSUME VersionsFit, NEW U, U \subseteq FormKeys
  PROVE  Orders({x \in U \X U : LessKey(x[1], x[2])}, U)
<1> DEFINE less == {x \in U \X U : LessKey(x[1], x[2])}
<1>1. \A a, b \in U : <<a, b>> \in less <=> LessKey(a, b)
  OBVIOUS
<1>2. \A a, b \in U : <<a, b>> \in less <=> LexLess(KeyText(a), KeyText(b))
  BY <1>1, KeyTexts
<1>3. \A a \in U : KeyText(a) \in Seq(Int)
  BY KeyTexts
<1> HIDE DEF less
<1>4. \A a \in U : <<a, a>> \notin less
  BY <1>2, <1>3, LexIrreflexive
<1>5. ASSUME NEW a \in U, NEW b \in U, NEW c \in U, <<a, b>> \in less, <<b, c>> \in less
      PROVE  <<a, c>> \in less
  BY <1>2, <1>3, <1>5, LexTransitive
<1>6. ASSUME NEW a \in U, NEW b \in U
      PROVE  a = b \/ <<a, b>> \in less \/ <<b, a>> \in less
  <2>1. \/ KeyText(a) = KeyText(b) \/ LexLess(KeyText(a), KeyText(b))
        \/ LexLess(KeyText(b), KeyText(a))
    BY <1>3, LexTotal
  <2> QED  BY <1>2, <2>1, KeyTexts
<1>7. Orders(less, U)
  BY <1>4, <1>5, <1>6 DEF Orders
<1> QED  BY <1>7 DEF less

-----------------------------------------------------------------------------
(* The orders in which a set can be visited.                                 *)

\* A visit meets every element once.
LEMMA VisitsAll ==
  ASSUME NEW S, IsFiniteSet(S), NEW v \in SetToSeqs(S)
  PROVE  /\ v \in Seq(S) /\ Len(v) = Cardinality(S) /\ Len(v) \in Nat
         /\ \A i, j \in 1..Len(v) : v[i] = v[j] => i = j
         /\ \A x \in S : \E i \in 1..Len(v) : v[i] = x
         /\ Elements(v) = S
<1> DEFINE n == Cardinality(S)
<1>1. n \in Nat
  BY FS_CardinalityType
<1>2. v \in [1..n -> S] /\ \A i, j \in 1..n : i # j => v[i] # v[j]
  BY DEF SetToSeqs
<1>3. v \in Seq(S) /\ Len(v) = n /\ DOMAIN v = 1..n
  BY <1>1, <1>2
<1>4. v \in Injection(1..n, S)
  BY <1>2 DEF Injection, IsInjective
<1>5. IsFiniteSet(1..n) /\ Cardinality(1..n) = n
  BY <1>1, FS_Interval
<1>6. v \in Surjection(1..n, S)
  BY <1>4, <1>5, FS_Injection
<1>7. \A x \in S : \E i \in 1..n : v[i] = x
  BY <1>6 DEF Surjection
<1> HIDE DEF n
<1>8. Elements(v) = S
  BY <1>2, <1>3, <1>7 DEF Elements
<1> QED  BY <1>1, <1>2, <1>3, <1>7, <1>8 DEF n

\* Whatever enumerates a finite set is a visit of it.
LEMMA IsVisit ==
  ASSUME NEW S, NEW v, NEW n \in Nat, v \in [1..n -> S],
         \A i, j \in 1..n : v[i] = v[j] => i = j, \A x \in S : \E i \in 1..n : v[i] = x
  PROVE  v \in SetToSeqs(S) /\ IsFiniteSet(S) /\ Cardinality(S) = n
<1>1. v \in Bijection(1..n, S)
  BY DEF Bijection, Injection, Surjection, IsInjective
<1>2. Cardinality(S) = n
  BY <1>1, FS_CountingElements DEF ExistsBijection
<1>3. IsFiniteSet(S)
  BY <1>1, FS_NatBijection DEF ExistsBijection
<1> QED  BY <1>2, <1>3 DEF SetToSeqs

\* Two visits rearrange one another.
LEMMA VisitsSame ==
  ASSUME NEW S, IsFiniteSet(S), NEW v \in SetToSeqs(S), NEW w \in SetToSeqs(S)
  PROVE  Same(v, w)
<1> DEFINE n == Len(v)
           r == [i \in 1..n |-> CHOOSE j \in 1..n : v[j] = w[i]]
<1>1. /\ n \in Nat /\ Len(w) = n
      /\ \A i \in 1..n : w[i] \in S
      /\ \A x \in S : \E i \in 1..n : v[i] = x
      /\ \A i, j \in 1..n : w[i] = w[j] => i = j
  BY VisitsAll
<1> HIDE DEF n
<1>2. \A i \in 1..n : r[i] \in 1..n /\ v[r[i]] = w[i]
  BY <1>1
<1> HIDE DEF r
<1>3. r \in [1..n -> 1..n]
  BY <1>2 DEF r
<1>4. Rearranges(r, v, w)
  BY <1>1, <1>2, <1>3 DEF Rearranges, n
<1> QED  BY <1>4 DEF Same

\* A finite set of numbers can be visited upwards.
LEMMA VisitedUpwards ==
  ASSUME NEW S, IsFiniteSet(S), S \subseteq Int
  PROVE  \E v \in SetToSeqs(S) : \A i, j \in DOMAIN v : i < j => v[i] < v[j]
<1> DEFINE n == Cardinality(S)
           less == {x \in S \X S : x[1] < x[2]}
<1>1. n \in Nat
  BY FS_CardinalityType
<1>2. PICK g : g \in Bijection(1..n, S)
  BY FS_CardinalityType DEF ExistsBijection
<1>3. /\ g \in [1..n -> S] /\ \A i, j \in 1..n : g[i] = g[j] => i = j
      /\ \A x \in S : \E i \in 1..n : g[i] = x
  BY <1>2 DEF Bijection, Injection, Surjection, IsInjective
<1>4. \A a, b \in S : <<a, b>> \in less <=> a < b
  OBVIOUS
<1> HIDE DEF less
<1>5. Orders(less, S)
  BY <1>4 DEF Orders
<1> HIDE DEF n
<1>6. g \in Seq(S) /\ Len(g) = n /\ DOMAIN g = 1..n
  BY <1>1, <1>3
<1> DEFINE s == SortBy(less, g)
<1>7. s \in Seq(S) /\ Ascending(less, s) /\ Same(g, s)
  BY <1>5, <1>6, Sorted1
<1> HIDE DEF s
<1>8. PICK r : Rearranges(r, g, s)
  BY <1>7 DEF Same
<1>9. Len(s) = n /\ s \in [1..n -> S] /\ DOMAIN s = 1..n
  BY <1>1, <1>6, <1>7, <1>8 DEF Rearranges
<1>10. \A i, j \in 1..n : s[i] = s[j] => i = j
  BY <1>3, <1>6, <1>8, <1>9 DEF Rearranges
<1>11. r \in [1..n -> 1..n] /\ \A i, j \in 1..n : r[i] = r[j] => i = j
  BY <1>6, <1>8, <1>9 DEF Rearranges
<1>15. \A k \in 1..n : \E i \in 1..n : r[i] = k
  BY <1>1, <1>11, PlacesFilled
<1>16. \A i \in 1..n : s[i] = g[r[i]]
  BY <1>8, <1>9 DEF Rearranges
<1>12. ASSUME NEW x \in S PROVE \E i \in 1..n : s[i] = x
  <2>1. PICK k \in 1..n : g[k] = x
    BY <1>3
  <2>2. PICK i \in 1..n : r[i] = k
    BY <1>15
  <2> QED  BY <1>16, <2>1, <2>2
<1>13. s \in SetToSeqs(S)
  BY <1>1, <1>9, <1>10, <1>12, IsVisit
<1>14. \A i, j \in 1..n : i < j => s[i] < s[j]
  <2> SUFFICES ASSUME NEW i \in 1..n, NEW j \in 1..n, i < j PROVE s[i] < s[j]
    OBVIOUS
  <2>1. s[i] \in S /\ s[j] \in S /\ s[i] # s[j]
    BY <1>9, <1>10
  <2>2. <<s[j], s[i]>> \notin less
    BY <1>7, <1>9 DEF Ascending
  <2>3. s[i] \in Int /\ s[j] \in Int /\ ~(s[j] < s[i])
    BY <1>4, <2>1, <2>2
  <2> QED  BY <2>1, <2>3
<1> QED  BY <1>9, <1>13, <1>14

\* The order of a visit does not show once it is sorted by an order.
LEMMA SortedOnce ==
  ASSUME NEW S, IsFiniteSet(S), NEW v \in SetToSeqs(S), NEW w \in SetToSeqs(S),
         NEW less, Orders(less, S)
  PROVE  SortBy(less, v) = SortBy(less, w)
BY VisitsAll, VisitsSame, SortSame

\* Keys of Forms, other texts and diagnostics are all sorted by orders.
LEMMA KeysSortOnce ==
  ASSUME VersionsFit, NEW S, IsFiniteSet(S), S \subseteq FormKeys,
         NEW a \in Sorted(LessKey, S), NEW b \in Sorted(LessKey, S)
  PROVE  a = b
<1>1. PICK v \in SetToSeqs(S) : a = SortSlice(LessKey, v)
  BY DEF Sorted
<1>2. PICK w \in SetToSeqs(S) : b = SortSlice(LessKey, w)
  BY DEF Sorted
<1>3. Elements(v) = S /\ Elements(w) = S
  BY VisitsAll
<1> QED  BY <1>1, <1>2, <1>3, KeyOrders, SortedOnce DEF SortSlice

\* Whatever order a map of texts is visited in, sorting gives one list.
LEMMA TextsSortOnce ==
  ASSUME NEW S, IsFiniteSet(S), S \subseteq Seq(Int),
         NEW a \in Sorted(LexLess, S), NEW b \in Sorted(LexLess, S)
  PROVE  a = b
<1>1. PICK v \in SetToSeqs(S) : a = SortSlice(LexLess, v)
  BY DEF Sorted
<1>2. PICK w \in SetToSeqs(S) : b = SortSlice(LexLess, w)
  BY DEF Sorted
<1>3. Elements(v) = S /\ Elements(w) = S
  BY VisitsAll
<1> QED  BY <1>1, <1>2, <1>3, LexOrders, SortedOnce DEF SortSlice

\* Whatever order diagnostics are met in, sorting gives one list.
LEMMA DiagnosticsSortOnce ==
  ASSUME NEW S, IsFiniteSet(S), S \subseteq Diagnostics,
         NEW v \in SetToSeqs(S), NEW w \in SetToSeqs(S)
  PROVE  SortSlice(DiagnosticLess, v) = SortSlice(DiagnosticLess, w)
<1>3. Elements(v) = S /\ Elements(w) = S
  BY VisitsAll
<1> QED  BY <1>3, DiagnosticOrders, SortedOnce DEF SortSlice

-----------------------------------------------------------------------------
(* Artifacts in another order.                                               *)

\* The recursion of a concatenation.
Joins(seqs, m, f) ==
  f = [i \in 1..m |-> IF i = 1 THEN seqs[i] ELSE f[i - 1] \o seqs[i]]

\* Texts joined are a text.
LEMMA JoinedText ==
  ASSUME NEW seqs \in Seq(Seq(Int))
  PROVE  FlattenSeq(seqs) \in Seq(Int)
<1> DEFINE n == Len(seqs)
           Unsolved == {m \in Nat : m \in 1..n /\ ~\E f : Joins(seqs, m, f) /\ f[m] \in Seq(Int)}
<1>0. n \in Nat /\ \A i \in 1..n : seqs[i] \in Seq(Int)
  OBVIOUS
<1>1. ASSUME NEW m \in Nat, m # 0, m + 1 \in 1..n, NEW f, Joins(seqs, m, f), f[m] \in Seq(Int)
      PROVE  \E g : Joins(seqs, m + 1, g) /\ g[m + 1] \in Seq(Int)
  <2> DEFINE g == [k \in 1..(m + 1) |-> IF k = m + 1 THEN f[m] \o seqs[m + 1] ELSE f[k]]
  <2>1. ASSUME NEW k \in 1..(m + 1)
        PROVE  g[k] = IF k = 1 THEN seqs[k] ELSE g[k - 1] \o seqs[k]
    <3>1. CASE k = m + 1
      <4>1. k # 1 /\ k - 1 = m /\ m \in 1..(m + 1) /\ m # m + 1
        BY <3>1, <1>1
      <4> QED  BY <3>1, <4>1
    <3>2. CASE k # m + 1
      <4>1. k \in 1..m
        BY <3>2
      <4>2. f[k] = IF k = 1 THEN seqs[k] ELSE f[k - 1] \o seqs[k]
        BY <1>1, <4>1 DEF Joins
      <4>3. k # 1 => k - 1 \in 1..(m + 1) /\ k - 1 # m + 1
        BY <4>1
      <4> QED  BY <3>2, <4>2, <4>3
    <3> QED  BY <3>1, <3>2
  <2>2. g = [k \in 1..(m + 1) |-> g[k]]
    OBVIOUS
  <2>3. g[m + 1] \in Seq(Int)
    BY <1>0, <1>1
  <2> HIDE DEF g
  <2>4. Joins(seqs, m + 1, g)
    BY <2>1, <2>2 DEF Joins
  <2> QED  BY <2>3, <2>4
<1>2. n # 0 => \E f : Joins(seqs, 1, f) /\ f[1] \in Seq(Int)
  <2> DEFINE g == [k \in 1..1 |-> seqs[k]]
  <2>1. \A k \in 1..1 : g[k] = IF k = 1 THEN seqs[k] ELSE g[k - 1] \o seqs[k]
    OBVIOUS
  <2>2. g = [k \in 1..1 |-> g[k]]
    OBVIOUS
  <2>3. n # 0 => g[1] \in Seq(Int)
    BY <1>0
  <2> HIDE DEF g
  <2>4. Joins(seqs, 1, g)
    BY <2>1, <2>2 DEF Joins
  <2> QED  BY <2>3, <2>4
<1> HIDE DEF n
<1>3. Unsolved = {}
  <2>1. SUFFICES ASSUME Unsolved # {} PROVE FALSE
    OBVIOUS
  <2>2. PICK m \in Unsolved : \A k \in Unsolved : m <= k
    <3>1. Unsolved \subseteq Nat
      OBVIOUS
    <3> HIDE DEF Unsolved
    <3> QED  BY <2>1, <3>1, LeastNatural
  <2>3. m \in Nat /\ m \in 1..n /\ m # 1
    BY <1>0, <1>2
  <2>4. m - 1 \in Nat /\ m - 1 # 0 /\ m - 1 \in 1..n /\ ~(m - 1 \in Unsolved) /\ (m - 1) + 1 = m
    <3>1. m - 1 \in Nat /\ ~(m <= m - 1) /\ m - 1 # 0 /\ m - 1 \in 1..n /\ (m - 1) + 1 = m
      BY <1>0, <2>3
    <3> HIDE DEF Unsolved
    <3> QED  BY <2>2, <3>1
  <2>5. PICK f : Joins(seqs, m - 1, f) /\ f[m - 1] \in Seq(Int)
    BY <2>4
  <2>6. \E g : Joins(seqs, (m - 1) + 1, g) /\ g[(m - 1) + 1] \in Seq(Int)
    BY <1>1, <2>3, <2>4, <2>5
  <2> QED  BY <2>3, <2>4, <2>6
<1>4. CASE n = 0
  BY <1>4 DEF FlattenSeq, n
<1>5. CASE n # 0
  <2> DEFINE h == CHOOSE h : Joins(seqs, n, h)
  <2>1. n \in 1..n
    BY <1>0, <1>5
  <2>2. PICK f : Joins(seqs, n, f) /\ f[n] \in Seq(Int)
    BY <1>0, <1>3, <2>1
  <2>3. Joins(seqs, n, h)
    BY <2>2
  <2>4. FlattenSeq(seqs) = h[n]
    BY <1>5 DEF FlattenSeq, Joins, n
  <2> HIDE DEF h
  <2>5. h[n] \in Seq(Int)
    <3> DEFINE Other == {m \in Nat : m \in 1..n /\ ~(h[m] \in Seq(Int))}
    <3>1. \A k \in 1..n : h[k] = IF k = 1 THEN seqs[k] ELSE h[k - 1] \o seqs[k]
      BY <2>3 DEF Joins
    <3>2. SUFFICES ASSUME Other # {} PROVE FALSE
      BY <1>0, <2>1
    <3>3. PICK m \in Other : \A k \in Other : m <= k
      <4>1. Other \subseteq Nat
        OBVIOUS
      <4> HIDE DEF Other
      <4> QED  BY <3>2, <4>1, LeastNatural
    <3>4. m \in 1..n /\ m # 1
      BY <1>0, <3>1 DEF n
    <3>5. m - 1 \in Nat /\ m - 1 \in 1..n /\ ~(m <= m - 1)
      BY <1>0, <3>4
    <3>6. h[m - 1] \in Seq(Int)
      <4>1. m - 1 \notin Other
        <5> HIDE DEF Other
        <5> QED  BY <3>3, <3>5
      <4> QED  BY <3>5, <4>1
    <3>7. seqs[m] \in Seq(Int) /\ h[m] = h[m - 1] \o seqs[m]
      BY <1>0, <3>1, <3>4
    <3>8. h[m] \in Seq(Int)
      BY <3>6, <3>7
    <3> QED  BY <3>8
  <2> QED  BY <2>4, <2>5
<1> QED  BY <1>4, <1>5

\* Where the artifacts of one identity are, visited upwards, and their origins.
Places(artifacts, key) == {i \in DOMAIN artifacts : artifacts[i].ref = key}
\* The places of a set, in ascending order.
Upwards(S) == CHOOSE s \in SetToSeqs(S) : \A i, j \in DOMAIN s : i < j => s[i] < s[j]
Origins(artifacts, key) ==
  [i \in DOMAIN Upwards(Places(artifacts, key)) |->
     Subject(artifacts[Upwards(Places(artifacts, key))[i]])]

\* DuplicateOrigins in terms of the places the artifact is supplied at.
LEMMA OriginsOf ==
  ASSUME NEW a, NEW key
  PROVE  DuplicateOrigins(a, key) = FlattenSeq(SortSlice(LexLess, Origins(a, key)))
BY DEF DuplicateOrigins, Origins, Upwards, Places

\* Those places are finitely many, and visited upwards.
LEMMA PlacesVisited ==
  ASSUME NEW a, IsList(a), NEW key
  PROVE  /\ IsFiniteSet(Places(a, key)) /\ Places(a, key) \subseteq 1..Len(a)
         /\ Upwards(Places(a, key)) \in SetToSeqs(Places(a, key))
<1> DEFINE S == Places(a, key)
<1>1. Len(a) \in Nat /\ S \subseteq 1..Len(a)
  BY DEF IsList, Places
<1>2. IsFiniteSet(1..Len(a))
  BY <1>1, FS_Interval
<1>3. IsFiniteSet(S) /\ S \subseteq Int
  BY <1>1, <1>2, FS_Subset
<1> HIDE DEF S
<1>4. \E v \in SetToSeqs(S) : \A i, j \in DOMAIN v : i < j => v[i] < v[j]
  BY <1>3, VisitedUpwards
<1>5. Upwards(S) \in SetToSeqs(S)
  BY <1>4 DEF Upwards
<1> QED  BY <1>1, <1>3, <1>5 DEF S

\* The origins of one identity are the same texts, whatever the order of the artifacts.
LEMMA OriginsSame ==
  ASSUME NEW a, NEW b, IsList(a), IsList(b), Same(a, b), NEW key,
         \A x \in Elements(a) : Subject(x) \in Seq(Int)
  PROVE  /\ Origins(a, key) \in Seq(Seq(Int)) /\ Origins(b, key) \in Seq(Seq(Int))
         /\ Same(Origins(a, key), Origins(b, key))
<1> DEFINE pa == Places(a, key)
           pb == Places(b, key)
           va == Upwards(pa)
           vb == Upwards(pb)
<1>1. PICK r : Rearranges(r, a, b)
  BY DEF Same
<1>2. /\ IsFiniteSet(pa) /\ IsFiniteSet(pb) /\ va \in SetToSeqs(pa) /\ vb \in SetToSeqs(pb)
  BY PlacesVisited
<1>3. /\ Len(a) \in Nat /\ Len(b) = Len(a) /\ DOMAIN a = 1..Len(a) /\ DOMAIN b = 1..Len(a)
      /\ r \in [1..Len(a) -> 1..Len(a)]
      /\ \A i, j \in 1..Len(a) : r[i] = r[j] => i = j
      /\ \A i \in 1..Len(a) : b[i] = a[r[i]]
  BY <1>1 DEF Rearranges, IsList
<1>4. /\ \A i \in pa : i \in 1..Len(a) /\ a[i].ref = key
      /\ \A i \in 1..Len(a) : a[i].ref = key => i \in pa
      /\ \A i \in pb : i \in 1..Len(a) /\ b[i].ref = key
      /\ \A i \in 1..Len(a) : b[i].ref = key => i \in pb
  BY <1>3 DEF Places
<1>5. Origins(a, key) = [i \in DOMAIN va |-> Subject(a[va[i]])]
  BY DEF Origins
<1>6. Origins(b, key) = [i \in DOMAIN vb |-> Subject(b[vb[i]])]
  BY DEF Origins
<1> HIDE DEF pa, pb, va, vb
<1> DEFINE na == Len(va)
           nb == Len(vb)
<1>7. /\ na \in Nat /\ DOMAIN va = 1..na /\ va \in [1..na -> pa]
      /\ \A x \in pa : \E i \in 1..na : va[i] = x
  BY <1>2, VisitsAll
<1>8. /\ nb \in Nat /\ DOMAIN vb = 1..nb /\ vb \in [1..nb -> pb]
      /\ \A i, j \in 1..nb : vb[i] = vb[j] => i = j
      /\ \A x \in pb : \E i \in 1..nb : vb[i] = x
  BY <1>2, VisitsAll
<1> HIDE DEF na, nb
<1> DEFINE w == [i \in 1..nb |-> r[vb[i]]]
<1>9. \A i \in 1..nb : w[i] = r[vb[i]] /\ vb[i] \in 1..Len(a) /\ w[i] \in 1..Len(a) /\ w[i] \in pa
  <2>1. \A i \in 1..nb : vb[i] \in pb /\ vb[i] \in 1..Len(a) /\ b[vb[i]].ref = key
    BY <1>4, <1>8
  <2>2. \A i \in 1..nb : r[vb[i]] \in 1..Len(a) /\ a[r[vb[i]]].ref = key
    BY <1>3, <2>1
  <2> QED  BY <1>4, <2>1, <2>2
<1>10. w \in [1..nb -> pa]
  BY <1>9
<1> HIDE DEF w
<1>11. \A i, j \in 1..nb : w[i] = w[j] => i = j
  BY <1>3, <1>8, <1>9
<1>12. ASSUME NEW x \in pa PROVE \E i \in 1..nb : w[i] = x
  <2>1. \A k \in 1..Len(a) : \E i \in 1..Len(a) : r[i] = k
    BY <1>3, PlacesFilled
  <2>2. PICK k \in 1..Len(a) : r[k] = x
    BY <1>4, <2>1
  <2>3. k \in pb
    BY <1>3, <1>4, <2>2
  <2>4. PICK i \in 1..nb : vb[i] = k
    BY <1>8, <2>3
  <2> QED  BY <1>9, <2>2, <2>4
<1>13. w \in SetToSeqs(pa)
  BY <1>8, <1>10, <1>11, <1>12, IsVisit
<1>14. PICK q : Rearranges(q, va, w)
  BY <1>2, <1>13, VisitsSame DEF Same
<1>15. Len(w) = nb
  BY <1>8, <1>10
<1>16. /\ na = nb /\ q \in [1..nb -> 1..na] /\ \A i, j \in 1..nb : q[i] = q[j] => i = j
       /\ \A i \in 1..nb : w[i] = va[q[i]]
  BY <1>14, <1>15 DEF Rearranges, na
<1>17. \A x \in 1..Len(a) : Subject(a[x]) \in Seq(Int)
  BY <1>3 DEF Elements
<1>18. \A i \in 1..na : Origins(a, key)[i] = Subject(a[va[i]]) /\ Origins(a, key)[i] \in Seq(Int)
  BY <1>4, <1>5, <1>7, <1>17
<1>19. \A i \in 1..nb : Origins(b, key)[i] = Subject(a[w[i]]) /\ Origins(b, key)[i] \in Seq(Int)
  <2>1. \A i \in 1..nb : Origins(b, key)[i] = Subject(b[vb[i]])
    BY <1>6, <1>8
  <2> QED  BY <1>3, <1>9, <1>17, <2>1
<1>20. Origins(a, key) \in Seq(Seq(Int)) /\ Len(Origins(a, key)) = na
  <2>1. Origins(a, key) \in [1..na -> Seq(Int)]
    BY <1>5, <1>7, <1>18
  <2> QED  BY <1>7, <2>1
<1>21. Origins(b, key) \in Seq(Seq(Int)) /\ Len(Origins(b, key)) = nb
  <2>1. Origins(b, key) \in [1..nb -> Seq(Int)]
    BY <1>6, <1>8, <1>19
  <2> QED  BY <1>8, <2>1
<1>22. Rearranges(q, Origins(a, key), Origins(b, key))
  <2>1. \A i \in 1..nb : Origins(b, key)[i] = Origins(a, key)[q[i]]
    BY <1>16, <1>18, <1>19
  <2> QED  BY <1>16, <1>20, <1>21, <2>1 DEF Rearranges
<1> QED  BY <1>20, <1>21, <1>22 DEF Same

\* They are sorted, so the diagnostic of a duplicate is the same text.
LEMMA DuplicateOriginsSame ==
  ASSUME NEW a, NEW b, IsList(a), IsList(b), Same(a, b), NEW key,
         \A x \in Elements(a) : Subject(x) \in Seq(Int)
  PROVE  /\ DuplicateOrigins(a, key) = DuplicateOrigins(b, key)
         /\ DuplicateOrigins(a, key) \in Seq(Int)
<1> DEFINE oa == Origins(a, key)
           ob == Origins(b, key)
           U == Elements(oa)
           less == {x \in U \X U : LexLess(x[1], x[2])}
<1>1. oa \in Seq(Seq(Int)) /\ ob \in Seq(Seq(Int)) /\ Same(oa, ob)
  BY OriginsSame
<1> HIDE DEF oa, ob
<1>2. IsList(oa) /\ IsList(ob)
  BY <1>1 DEF IsList, Elements
<1>3. Elements(oa) = Elements(ob) /\ U \subseteq Seq(Int)
  <2>1. Elements(oa) = Elements(ob)
    BY <1>1, <1>2, SameElements
  <2>2. U \subseteq Seq(Int)
    BY <1>1 DEF Elements
  <2> QED  BY <2>1, <2>2
<1>4. oa \in Seq(U) /\ ob \in Seq(U)
  BY <1>2, <1>3 DEF IsList
<1>5. Orders(less, U)
  BY <1>3, LexOrders
<1>6. SortSlice(LexLess, oa) = SortBy(less, oa) /\ SortSlice(LexLess, ob) = SortBy(less, ob)
  BY <1>3 DEF SortSlice
<1> HIDE DEF U, less
<1>7. SortBy(less, oa) = SortBy(less, ob) /\ SortBy(less, oa) \in Seq(U)
  BY <1>1, <1>4, <1>5, SortSame, Sorted1
<1>8. SortBy(less, oa) \in Seq(Seq(Int))
  BY <1>3, <1>7
<1> QED  BY <1>6, <1>7, <1>8, JoinedText, OriginsOf DEF oa, ob

\* What depends on the artifacts of a list only, and not on their order.
LEMMA IdentitiesSame ==
  ASSUME NEW a, NEW b, IsList(a), IsList(b), Same(a, b)
  PROVE  Refs(a) = Refs(b) /\ ByIdentity(a) = ByIdentity(b)
<1>1. Elements(a) = Elements(b)
  BY SameElements
<1>2. Refs(a) = {x.ref : x \in Elements(a)} /\ Refs(b) = {x.ref : x \in Elements(b)}
  BY DEF Refs, Elements
<1>3. Refs(a) = Refs(b)
  BY <1>1, <1>2
<1> QED  BY <1>1, <1>3 DEF ByIdentity

\* What is supplied once is supplied once in any order of the slice.
LEMMA SuppliedOnceKept ==
  ASSUME NEW a, NEW b, IsList(a), IsList(b), Same(a, b), NEW key, SuppliedOnce(a, key)
  PROVE  SuppliedOnce(b, key)
<1>1. PICK r : Rearranges(r, a, b)
  BY DEF Same
<1>2. /\ DOMAIN a = 1..Len(a) /\ DOMAIN b = 1..Len(b)
      /\ \A i \in 1..Len(b) : r[i] \in 1..Len(a) /\ b[i] = a[r[i]]
      /\ \A i, j \in 1..Len(b) : r[i] = r[j] => i = j
  BY <1>1 DEF Rearranges, IsList
<1> QED  BY <1>2 DEF SuppliedOnce

\* The diagnostics of duplicates do not depend on the order of the slice.
LEMMA DuplicatesSame ==
  ASSUME NEW a, NEW b, IsList(a), IsList(b), Same(a, b),
         \A x \in Elements(a) : Subject(x) \in Seq(Int)
  PROVE  Duplicates(a) = Duplicates(b)
<1>1. Len(a) \in Nat /\ Len(b) \in Nat
  BY DEF IsList
<1>2. Same(b, a)
  BY <1>1, SameSymmetric
<1>3. \A k : SuppliedOnce(a, k) <=> SuppliedOnce(b, k)
  BY <1>2, SuppliedOnceKept
<1>4. Refs(a) = Refs(b)
  BY IdentitiesSame
<1>5. \A k : DuplicateOrigins(a, k) = DuplicateOrigins(b, k)
  BY DuplicateOriginsSame
<1> QED  BY <1>3, <1>4, <1>5 DEF Duplicates

\* What the pins of one group name.
PinnedTo(pins, group) == {pins[i].ref : i \in PinsOf(pins, group)}

\* The pins of one group are as many in any order, and the same.
LEMMA PinsSame ==
  ASSUME NEW a, NEW b, IsList(a), IsList(b), Same(a, b), NEW group
  PROVE  /\ IsFiniteSet(PinsOf(a, group)) /\ IsFiniteSet(PinsOf(b, group))
         /\ Cardinality(PinsOf(a, group)) = Cardinality(PinsOf(b, group))
         /\ PinnedTo(a, group) = PinnedTo(b, group)
<1> DEFINE pa == PinsOf(a, group)
           pb == PinsOf(b, group)
<1>1. PICK r : Rearranges(r, a, b)
  BY DEF Same
<1>2. /\ Len(a) \in Nat /\ DOMAIN a = 1..Len(a) /\ DOMAIN b = 1..Len(a)
      /\ r \in [1..Len(a) -> 1..Len(a)]
      /\ \A i, j \in 1..Len(a) : r[i] = r[j] => i = j
      /\ \A i \in 1..Len(a) : b[i] = a[r[i]]
  BY <1>1 DEF Rearranges, IsList
<1>3. \A k \in 1..Len(a) : \E i \in 1..Len(a) : r[i] = k
  BY <1>2, PlacesFilled
<1>4. /\ \A i \in pa : i \in 1..Len(a) /\ a[i].group = group
      /\ \A i \in 1..Len(a) : a[i].group = group => i \in pa
      /\ \A i \in pb : i \in 1..Len(a) /\ b[i].group = group
      /\ \A i \in 1..Len(a) : b[i].group = group => i \in pb
  BY <1>2 DEF PinsOf
<1> HIDE DEF pa, pb
<1>5. IsFiniteSet(pa) /\ IsFiniteSet(pb)
  <2>1. IsFiniteSet(1..Len(a)) /\ pa \subseteq 1..Len(a) /\ pb \subseteq 1..Len(a)
    BY <1>2, <1>4, FS_Interval
  <2> QED  BY <2>1, FS_Subset
<1> DEFINE f == [i \in pb |-> r[i]]
<1>6. \A i \in pb : f[i] = r[i] /\ r[i] \in pa /\ b[i] = a[r[i]]
  BY <1>2, <1>4
<1>7. ASSUME NEW k \in pa PROVE \E i \in pb : r[i] = k
  <2>1. PICK i \in 1..Len(a) : r[i] = k
    BY <1>3, <1>4
  <2>2. i \in pb
    BY <1>2, <1>4, <2>1
  <2> QED  BY <2>1, <2>2
<1>8. f \in Bijection(pb, pa)
  <2>1. f \in [pb -> pa]
    BY <1>6
  <2>2. DOMAIN f = pb
    OBVIOUS
  <2> HIDE DEF f
  <2>3. \A i, j \in pb : f[i] = f[j] => i = j
    BY <1>2, <1>4, <1>6
  <2>4. \A k \in pa : \E i \in pb : f[i] = k
    BY <1>6, <1>7
  <2> QED  BY <2>1, <2>2, <2>3, <2>4 DEF Bijection, Injection, Surjection, IsInjective
<1>9. Cardinality(pa) = Cardinality(pb)
  BY <1>5, <1>8, FS_Bijection DEF ExistsBijection
<1>10. {a[i].ref : i \in pa} = {b[i].ref : i \in pb}
  BY <1>6, <1>7
<1> QED  BY <1>5, <1>9, <1>10 DEF pa, pb, PinnedTo

\* Nor do the groups that need a default.
LEMMA GroupsSame ==
  ASSUME NEW a, NEW b, IsList(a), IsList(b), Same(a, b), NEW fs
  PROVE  Groups(fs, a) = Groups(fs, b)
<1>1. Elements(a) = Elements(b)
  BY SameElements
<1>2. /\ {a[i].group : i \in DOMAIN a} = {x.group : x \in Elements(a)}
      /\ {b[i].group : i \in DOMAIN b} = {x.group : x \in Elements(b)}
  BY DEF Elements
<1> QED  BY <1>1, <1>2 DEF Groups

\* Nor does what is wrong with the pins of a group.
LEMMA DefaultFaultSame ==
  ASSUME NEW a, NEW b, IsList(a), IsList(b), Same(a, b), NEW fs, NEW group
  PROVE  DefaultFault(group, fs, a) = DefaultFault(group, fs, b)
<1> DEFINE pa == PinsOf(a, group)
           pb == PinsOf(b, group)
           refs == {a[i].ref : i \in pa}
<1>1. Cardinality(pa) = Cardinality(pb) /\ refs = {b[i].ref : i \in pb}
  <2>1. Cardinality(pa) = Cardinality(pb) /\ PinnedTo(a, group) = PinnedTo(b, group)
    BY PinsSame
  <2> QED  BY <2>1 DEF PinnedTo
<1>2. DefaultFault(group, fs, a) =
        IF pa = {} THEN {Diagnostic("missing_default", group, <<>>, <<>>)}
        ELSE IF Cardinality(pa) # 1 THEN {Diagnostic("ambiguous_default", group, <<>>, <<>>)}
        ELSE IF \E i \in pa : GroupKind(a[i].ref) # group
             THEN {Diagnostic("ambiguous_default", group, <<>>, <<>>)}
        ELSE IF \E i \in pa : a[i].ref \notin DOMAIN fs
             THEN {Diagnostic("unresolved_reference", group, <<>>, <<>>)}
        ELSE {}
  BY DEF DefaultFault
<1>3. DefaultFault(group, fs, b) =
        IF pb = {} THEN {Diagnostic("missing_default", group, <<>>, <<>>)}
        ELSE IF Cardinality(pb) # 1 THEN {Diagnostic("ambiguous_default", group, <<>>, <<>>)}
        ELSE IF \E i \in pb : GroupKind(b[i].ref) # group
             THEN {Diagnostic("ambiguous_default", group, <<>>, <<>>)}
        ELSE IF \E i \in pb : b[i].ref \notin DOMAIN fs
             THEN {Diagnostic("unresolved_reference", group, <<>>, <<>>)}
        ELSE {}
  BY DEF DefaultFault
<1> HIDE DEF pa, pb
<1>4. pa = {} <=> pb = {}
  BY <1>1
<1>5. /\ (\E i \in pa : GroupKind(a[i].ref) # group) <=> \E x \in refs : GroupKind(x) # group
      /\ (\E i \in pb : GroupKind(b[i].ref) # group) <=> \E x \in refs : GroupKind(x) # group
  BY <1>1
<1>6. /\ (\E i \in pa : a[i].ref \notin DOMAIN fs) <=> \E x \in refs : x \notin DOMAIN fs
      /\ (\E i \in pb : b[i].ref \notin DOMAIN fs) <=> \E x \in refs : x \notin DOMAIN fs
  BY <1>1
<1> HIDE DEF refs
<1> QED  BY <1>1, <1>2, <1>3, <1>4, <1>5, <1>6

\* Where no group is at fault, each has the one pin in any order.
LEMMA DefaultPinsSame ==
  ASSUME NEW a, NEW b, IsList(a), IsList(b), Same(a, b), NEW fs,
         \A g \in Groups(fs, a) : DefaultFault(g, fs, a) = {}
  PROVE  DefaultPins(fs, a) = DefaultPins(fs, b)
<1>1. Groups(fs, a) = Groups(fs, b)
  BY GroupsSame
<1>2. ASSUME NEW g \in Groups(fs, a)
      PROVE  a[CHOOSE i \in PinsOf(a, g) : TRUE].ref = b[CHOOSE i \in PinsOf(b, g) : TRUE].ref
  <2>1. Cardinality(PinsOf(a, g)) = 1
    BY DEF DefaultFault
  <2>2. /\ IsFiniteSet(PinsOf(a, g)) /\ IsFiniteSet(PinsOf(b, g)) /\ Cardinality(PinsOf(b, g)) = 1
        /\ PinnedTo(a, g) = PinnedTo(b, g)
    BY <2>1, PinsSame
  <2>3. PICK i : PinsOf(a, g) = {i}
    BY <2>1, <2>2, FS_Singleton
  <2>4. PICK j : PinsOf(b, g) = {j}
    BY <2>2, FS_Singleton
  <2>5. a[i].ref = b[j].ref
    BY <2>2, <2>3, <2>4 DEF PinnedTo
  <2>6. (CHOOSE x \in {i} : TRUE) = i /\ (CHOOSE x \in {j} : TRUE) = j
    OBVIOUS
  <2> QED  BY <2>3, <2>4, <2>5, <2>6
<1> QED  BY <1>1, <1>2 DEF DefaultPins

-----------------------------------------------------------------------------
(* What Compile answers, as a function of its input.                         *)

\* The same input with its slices in another order.
Rearranged(a, b) ==
  /\ a.hostAPI = b.hostAPI
  /\ \A part \in Parts : IsList(a[part]) /\ IsList(b[part]) /\ Same(a[part], b[part])

\* What the collecting stages make of an input.
FormsOf(it) == ByIdentity(it.packages)
InterfacesOf(it) == ByIdentity(it.interfaces)
BindingsOf(it) == ByIdentity(it.bindings)
DefaultsOf(it) == DefaultPins(FormsOf(it), it.pins)

\* What the first stage says of the host lane.
HostFaults(lane) ==
  IF lane \notin DOMAIN LaneOrder THEN InputFault("invalid_input")
  ELSE IF lane \notin SelectableLanes THEN InputFault("unsupported_host_api")
  ELSE {}

\* What the k-th stage finds wrong if those before it found nothing.
StageFaults(k, it) ==
  CASE k = 1 -> HostFaults(it.hostAPI)
    [] k = 2 -> UNION {CompileArtifact(p) : p \in Elements(it.packages)}
    [] k = 3 -> Duplicates(it.packages)
    [] k = 4 -> UNION {CompileContractArtifact(x) :
                         x \in Elements(it.interfaces) \cup Elements(it.bindings)}
    [] k = 5 -> Duplicates(it.interfaces) \cup Duplicates(it.bindings)
    [] k = 6 -> UNION {BindingFaults(BindingsOf(it)[b], InterfacesOf(it)) :
                         b \in DOMAIN BindingsOf(it)}
    [] k = 7 -> UNION {ReferenceFaults(FormsOf(it)[f], InterfacesOf(it), BindingsOf(it)) :
                         f \in DOMAIN FormsOf(it)}
    [] k = 8 -> UNION {LaneFaults(FormsOf(it)[f], it.hostAPI) : f \in DOMAIN FormsOf(it)}
    [] k = 9 -> UNION {TargetFaults(FormsOf(it)[f], FormsOf(it)) : f \in DOMAIN FormsOf(it)}
    [] k = 10 -> UNION {DefaultFault(g, FormsOf(it), it.pins) :
                          g \in Groups(FormsOf(it), it.pins)}

\* The Snapshot of an input with which nothing is wrong.
IsSnapshotOf(it, o) ==
  \E fs \in Sorted(LessKey, DOMAIN FormsOf(it)), is \in Sorted(LexLess, DOMAIN InterfacesOf(it)),
     bs \in Sorted(LexLess, DOMAIN BindingsOf(it)), ds \in Sorted(LexLess, DOMAIN DefaultsOf(it)) :
    o = [kind |-> "snapshot", hostAPI |-> it.hostAPI,
         forms |-> [i \in DOMAIN fs |-> <<fs[i], FormsOf(it)[fs[i]].pin>>],
         interfaces |-> is,
         bindings |-> [i \in DOMAIN bs |-> <<bs[i], BindingsOf(it)[bs[i]].target>>],
         defaults |-> [i \in DOMAIN ds |-> <<ds[i], DefaultsOf(it)[ds[i]]>>]]

\* The diagnostics of the k-th stage.
IsRefusalAt(k, it, o) ==
  /\ \A j \in 1..(k - 1) : StageFaults(j, it) = {}
  /\ StageFaults(k, it) # {}
  /\ \E visited \in SetToSeqs(StageFaults(k, it)) :
       o = [kind |-> "refused", diagnostics |-> SortSlice(DiagnosticLess, visited)]

\* What Compile may answer to an input.
Answers(it, o) ==
  \/ \E k \in 1..10 : IsRefusalAt(k, it, o)
  \/ (\A j \in 1..10 : StageFaults(j, it) = {}) /\ IsSnapshotOf(it, o)

\* The collected artifacts are the same for a rearranged input.
LEMMA GraphSame ==
  ASSUME NEW a, NEW b, Rearranged(a, b)
  PROVE  /\ FormsOf(a) = FormsOf(b) /\ InterfacesOf(a) = InterfacesOf(b)
         /\ BindingsOf(a) = BindingsOf(b)
         /\ Elements(a.packages) = Elements(b.packages)
         /\ Elements(a.interfaces) = Elements(b.interfaces)
         /\ Elements(a.bindings) = Elements(b.bindings)
         /\ Elements(a.pins) = Elements(b.pins)
BY IdentitiesSame, SameElements
DEF Rearranged, Parts, FormsOf, InterfacesOf, BindingsOf

\* The subjects of all artifacts are texts.
HasSubjects(it) ==
  \A x \in Elements(it.packages) \cup Elements(it.interfaces) \cup Elements(it.bindings) :
    Subject(x) \in Seq(Int)

\* No stage finds anything else because of the order.
LEMMA FaultsSame ==
  ASSUME NEW a, NEW b, Rearranged(a, b), HasSubjects(a), NEW k \in 1..10
  PROVE  StageFaults(k, a) = StageFaults(k, b)
<1>1. a.hostAPI = b.hostAPI
  BY DEF Rearranged
<1>2. /\ Duplicates(a.packages) = Duplicates(b.packages)
      /\ Duplicates(a.interfaces) = Duplicates(b.interfaces)
      /\ Duplicates(a.bindings) = Duplicates(b.bindings)
  BY DuplicatesSame DEF Rearranged, Parts, HasSubjects
<1>3. IsList(a.pins) /\ IsList(b.pins) /\ Same(a.pins, b.pins)
  BY DEF Rearranged, Parts
<1>4. /\ Groups(FormsOf(a), a.pins) = Groups(FormsOf(a), b.pins)
      /\ \A g : DefaultFault(g, FormsOf(a), a.pins) = DefaultFault(g, FormsOf(a), b.pins)
  BY <1>3, GroupsSame, DefaultFaultSame
<1>5. k = 1 \/ k = 2 \/ k = 3 \/ k = 4 \/ k = 5 \/ k = 6 \/ k = 7 \/ k = 8 \/ k = 9 \/ k = 10
  OBVIOUS
<1>6. CASE k \in {1, 2, 3}
  BY <1>1, <1>2, <1>6, GraphSame DEF StageFaults
<1>7. CASE k \in {4, 5}
  BY <1>1, <1>2, <1>7, GraphSame DEF StageFaults
<1>8. CASE k = 6
  BY <1>8, GraphSame DEF StageFaults
<1>9. CASE k = 7
  BY <1>9, GraphSame DEF StageFaults
<1>10. CASE k = 8
  BY <1>1, <1>10, GraphSame DEF StageFaults
<1>11. CASE k = 9
  BY <1>11, GraphSame DEF StageFaults
<1>12. CASE k = 10
  BY <1>4, <1>12, GraphSame DEF StageFaults
<1> QED  BY <1>5, <1>6, <1>7, <1>8, <1>9, <1>10, <1>11, <1>12

\* Nor is there another answer because of it.
LEMMA AnswersSame ==
  ASSUME NEW a, NEW b, Rearranged(a, b), HasSubjects(a), NEW o, Answers(a, o)
  PROVE  Answers(b, o)
<1>1. \A k \in 1..10 : StageFaults(k, a) = StageFaults(k, b)
  BY FaultsSame
<1>2. \A k \in 1..10 : \A j \in 1..(k - 1) : j \in 1..10
  OBVIOUS
<1>3. ASSUME NEW k \in 1..10, IsRefusalAt(k, a, o) PROVE IsRefusalAt(k, b, o)
  BY <1>1, <1>2, <1>3 DEF IsRefusalAt
<1>4. ASSUME \A j \in 1..10 : StageFaults(j, a) = {}, IsSnapshotOf(a, o)
      PROVE  IsSnapshotOf(b, o)
  <2>1. StageFaults(10, a) = UNION {DefaultFault(g, FormsOf(a), a.pins) :
                                      g \in Groups(FormsOf(a), a.pins)}
    BY DEF StageFaults
  <2>2. \A g \in Groups(FormsOf(a), a.pins) : DefaultFault(g, FormsOf(a), a.pins) = {}
    BY <1>4, <2>1
  <2>3. IsList(a.pins) /\ IsList(b.pins) /\ Same(a.pins, b.pins) /\ a.hostAPI = b.hostAPI
    BY DEF Rearranged, Parts
  <2>4. DefaultsOf(a) = DefaultsOf(b)
    BY <2>2, <2>3, GraphSame, DefaultPinsSame DEF DefaultsOf
  <2> QED  BY <1>4, <2>3, <2>4, GraphSame DEF IsSnapshotOf
<1> QED  BY <1>1, <1>3, <1>4 DEF Answers

-----------------------------------------------------------------------------
(* The diagnostics of every stage are finitely many, of texts.               *)

\* Finitely many diagnostics, which can therefore be sorted.
Fit(S) == IsFiniteSet(S) /\ S \subseteq Diagnostics

\* A function of finitely many things has finitely many values.
LEMMA ImageFinite ==
  ASSUME NEW S, IsFiniteSet(S), NEW f
  PROVE  IsFiniteSet({f[x] : x \in S})
<1> DEFINE T == {f[x] : x \in S}
           g == [x \in S |-> f[x]]
<1>1. g \in Surjection(S, T)
  BY DEF Surjection
<1> HIDE DEF T, g
<1>2. IsFiniteSet(T)
  BY <1>1, FS_Surjection
<1> QED  BY <1>2 DEF T

\* A list has finitely many places, elements and identities.
LEMMA ListFinite ==
  ASSUME NEW a, IsList(a)
  PROVE  IsFiniteSet(DOMAIN a) /\ IsFiniteSet(Elements(a)) /\ IsFiniteSet(Refs(a))
<1>1. Len(a) \in Nat /\ DOMAIN a = 1..Len(a)
  BY DEF IsList
<1>2. IsFiniteSet(DOMAIN a)
  BY <1>1, FS_Interval
<1>3. IsFiniteSet(Elements(a))
  BY <1>2, ImageFinite DEF Elements
<1> DEFINE f == [i \in DOMAIN a |-> a[i].ref]
<1>4. Refs(a) = {f[i] : i \in DOMAIN a}
  BY DEF Refs
<1> HIDE DEF f
<1> QED  BY <1>2, <1>3, <1>4, ImageFinite

\* One diagnostic for each of finitely many things.
LEMMA ImageFits ==
  ASSUME NEW S, IsFiniteSet(S), NEW f, \A x \in S : f[x] \in Diagnostics
  PROVE  Fit({f[x] : x \in S})
BY ImageFinite DEF Fit

\* A fit set for each of finitely many things.
LEMMA UnionFits ==
  ASSUME NEW S, IsFiniteSet(S), NEW f, \A x \in S : Fit(f[x])
  PROVE  Fit(UNION {f[x] : x \in S})
<1> DEFINE T == {f[x] : x \in S}
<1>1. IsFiniteSet(T)
  BY ImageFinite
<1>2. \A t \in T : IsFiniteSet(t) /\ t \subseteq Diagnostics
  BY DEF Fit
<1> HIDE DEF T
<1>3. IsFiniteSet(UNION T) /\ UNION T \subseteq Diagnostics
  BY <1>1, <1>2, FS_UNION
<1> QED  BY <1>3 DEF Fit, T

\* The ways diagnostics are put together.
LEMMA FitTogether ==
  /\ Fit({})
  /\ \A d \in Diagnostics : Fit({d})
  /\ \A S, T : Fit(S) /\ Fit(T) => Fit(S \cup T)
<1>1. Fit({})
  BY FS_EmptySet DEF Fit
<1>2. \A d \in Diagnostics : Fit({d})
  BY FS_Singleton DEF Fit
<1>3. ASSUME NEW S, NEW T, Fit(S), Fit(T) PROVE Fit(S \cup T)
  BY <1>3, FS_Union DEF Fit
<1> QED  BY <1>1, <1>2, <1>3

\* A known code with a subject, a pointer and a message of characters.
LEMMA IsDiagnostic ==
  ASSUME NEW code \in DOMAIN CodeRank, NEW subject \in Seq(Int), NEW pointer \in Seq(Int),
         NEW message \in Seq(Int)
  PROVE  Diagnostic(code, subject, pointer, message) \in Diagnostics
BY DEF Diagnostic, Diagnostics

\* The codes the stages report.
LEMMA Codes ==
  {"ambiguous_default", "digest_mismatch", "duplicate_identity", "invalid_artifact",
   "invalid_input", "missing_default", "unresolved_reference", "unsupported_host_api"}
    \subseteq DOMAIN CodeRank
BY DEF CodeRank

\* Identities and short pointers are texts.
LEMMA KeysAreTexts ==
  /\ FormKeys \subseteq Seq(Int) /\ ContractKeys \subseteq Seq(Int) /\ Int \X Int \subseteq Seq(Int)
  /\ <<>> \in Seq(Int)
  /\ \A a \in Int : <<a>> \in Seq(Int)
  /\ \A a, b \in Int : <<a, b>> \in Seq(Int)
  /\ \A a, b, c \in Int : <<a, b, c>> \in Seq(Int)
<1>1. FormKeys \subseteq Seq(Int)
  <2> SUFFICES ASSUME NEW k \in FormKeys PROVE k \in Seq(Int)
    OBVIOUS
  <2>1. /\ k = <<k[1], k[2], k[3], k[4]>>
        /\ k[1] \in Int /\ k[2] \in Int /\ k[3] \in Int /\ k[4] \in Int
    BY SemVerAssumption DEF FormKeys
  <2>2. \A a, b, c, d \in Int : <<a, b, c, d>> \in Seq(Int)
    OBVIOUS
  <2> QED  BY <2>1, <2>2
<1>2. ContractKeys \subseteq Seq(Int)
  <2> SUFFICES ASSUME NEW k \in ContractKeys PROVE k \in Seq(Int)
    OBVIOUS
  <2>1. k = <<k[1], k[2], k[3]>> /\ k[1] \in Int /\ k[2] \in Int /\ k[3] \in Int
    BY DEF ContractKeys
  <2>2. \A a, b, c \in Int : <<a, b, c>> \in Seq(Int)
    OBVIOUS
  <2> QED  BY <2>1, <2>2
<1>3. Int \X Int \subseteq Seq(Int)
  <2> SUFFICES ASSUME NEW k \in Int \X Int PROVE k \in Seq(Int)
    OBVIOUS
  <2>1. k = <<k[1], k[2]>> /\ k[1] \in Int /\ k[2] \in Int
    OBVIOUS
  <2>2. \A a, b \in Int : <<a, b>> \in Seq(Int)
    OBVIOUS
  <2> QED  BY <2>1, <2>2
<1> QED  BY <1>1, <1>2, <1>3

\* The shapes of the parts of an input.
IsPackage(p) ==
  /\ IsArtifact(p) /\ p.ref \in FormKeys
  /\ p.provides \in Seq(ContractKeys) /\ p.accepts \in Seq(ContractKeys)
  /\ IsDocument(p.schema)
\* The shapes of the artifacts of an input.
IsContract(a) == IsArtifact(a) /\ a.ref \in ContractKeys
IsBinding(b) ==
  IsContract(b) /\ b.target \in ContractKeys /\ b.operations \subseteq Int
    /\ IsFiniteSet(b.operations)

\* The subject of an artifact is a text.
LEMMA SubjectsAreTexts ==
  ASSUME NEW a, IsArtifact(a)
  PROVE  Subject(a) \in Seq(Int)
BY KeysAreTexts DEF IsArtifact, Subject

\* The shapes of the parts of an input.
LEMMA PartShapes ==
  ASSUME NEW in \in Inputs
  PROVE  /\ \A part \in Parts : IsList(in[part])
         /\ \A p \in Elements(in.packages) : IsPackage(p)
         /\ \A a \in Elements(in.interfaces) : IsContract(a)
         /\ \A b \in Elements(in.bindings) : IsBinding(b)
         /\ \A pin \in Elements(in.pins) : pin.group \in Int \X Int
         /\ HasSubjects(in)
<1>1. /\ \A part \in Parts : IsList(in[part])
      /\ \A p \in Elements(in.packages) : IsPackage(p)
      /\ \A a \in Elements(in.interfaces) : IsContract(a)
      /\ \A b \in Elements(in.bindings) : IsBinding(b)
      /\ \A pin \in Elements(in.pins) : pin.group \in Int \X Int
  BY InputsAssumption DEF InputShape, Parts, IsPackage, IsContract, IsBinding
<1>2. HasSubjects(in)
  BY <1>1, SubjectsAreTexts DEF HasSubjects, IsPackage, IsContract, IsBinding
<1> QED  BY <1>1, <1>2

\* The first failure of a list of checks.
LEMMA FirstFailureFits ==
  ASSUME NEW a, IsArtifact(a), NEW n \in Nat, NEW checks, DOMAIN checks = 1..n,
         \A i \in 1..n : checks[i].code \in DOMAIN CodeRank /\ checks[i].at \in Int
  PROVE  Fit(FirstFailure(a, checks))
<1> DEFINE failing == {i \in DOMAIN checks : ~checks[i].holds}
           first == CHOOSE i \in failing : \A j \in failing : i <= j
<1>1. CASE failing = {}
  BY <1>1, FitTogether DEF FirstFailure
<1>2. CASE failing # {}
  <2>1. \E i \in failing : \A j \in failing : i <= j
    <3>1. failing \subseteq Nat
      OBVIOUS
    <3> HIDE DEF failing
    <3> QED  BY <1>2, <3>1, LeastNatural
  <2>2. first \in failing
    BY <2>1
  <2>3. first \in 1..n
    BY <2>2
  <2>4. FirstFailure(a, checks) =
          {Diagnostic(checks[first].code, Subject(a), <<checks[first].at>>, <<>>)}
    BY <1>2 DEF FirstFailure
  <2> HIDE DEF first
  <2>5. Diagnostic(checks[first].code, Subject(a), <<checks[first].at>>, <<>>) \in Diagnostics
    BY <2>3, IsDiagnostic, SubjectsAreTexts, KeysAreTexts
  <2> QED  BY <2>4, <2>5, FitTogether
<1> QED  BY <1>1, <1>2

\* What compileArtifact and compileContractArtifact report.
LEMMA ArtifactFits ==
  ASSUME NEW p, IsArtifact(p)
  PROVE  Fit(CompileArtifact(p)) /\ Fit(CompileContractArtifact(p))
<1>1. Fit(CompileArtifact(p))
  <2> DEFINE c == <<Check(p.issued, "invalid_artifact", 1),
                    Check(p.pin # NoDigest, "invalid_artifact", 2),
                    Check(p.digest = p.pin, "digest_mismatch", 3),
                    Check(p.hasDefinition, "invalid_artifact", 4),
                    Check(p.revalidates, "invalid_artifact", 5),
                    Check(p.definitionRef = p.ref, "digest_mismatch", 6)>>
  <2>1. DOMAIN c = 1..6
    OBVIOUS
  <2>2. \A i \in 1..6 : c[i].code \in {"invalid_artifact", "digest_mismatch"} /\ c[i].at \in Int
    BY DEF Check
  <2>3. CompileArtifact(p) = FirstFailure(p, c)
    BY DEF CompileArtifact
  <2> HIDE DEF c
  <2> QED  BY <2>1, <2>2, <2>3, Codes, FirstFailureFits
<1>2. Fit(CompileContractArtifact(p))
  <2> DEFINE c == <<Check(p.pin # NoDigest, "invalid_artifact", 2),
                    Check(p.valid, "invalid_artifact", 7),
                    Check(p.digest = p.pin, "digest_mismatch", 7)>>
  <2>1. DOMAIN c = 1..3
    OBVIOUS
  <2>2. \A i \in 1..3 : c[i].code \in {"invalid_artifact", "digest_mismatch"} /\ c[i].at \in Int
    BY DEF Check
  <2>3. CompileContractArtifact(p) = FirstFailure(p, c)
    BY DEF CompileContractArtifact
  <2> HIDE DEF c
  <2> QED  BY <2>1, <2>2, <2>3, Codes, FirstFailureFits
<1> QED  BY <1>1, <1>2

\* What is reported of artifacts supplied twice.
LEMMA DuplicatesFit ==
  ASSUME NEW a, IsList(a), \A x \in Elements(a) : x.ref \in Seq(Int) /\ Subject(x) \in Seq(Int)
  PROVE  Fit(Duplicates(a))
<1> DEFINE twice == {k \in Refs(a) : ~SuppliedOnce(a, k)}
           f == [k \in twice |->
                   Diagnostic("duplicate_identity", k, <<>>, DuplicateOrigins(a, k))]
<1>1. IsFiniteSet(twice)
  BY ListFinite, FS_Subset
<1>2. \A k \in twice : k \in Seq(Int)
  BY DEF Refs, Elements
<1>3. Len(a) \in Nat
  BY DEF IsList
<1>4. \A k : DuplicateOrigins(a, k) \in Seq(Int)
  BY <1>3, SameReflexive, DuplicateOriginsSame
<1>5. \A k \in twice : f[k] \in Diagnostics
  BY <1>2, <1>4, Codes, KeysAreTexts, IsDiagnostic
<1>6. Duplicates(a) = {f[k] : k \in twice}
  BY DEF Duplicates
<1> HIDE DEF twice, f
<1> QED  BY <1>1, <1>5, <1>6, ImageFits

\* What is reported of a BindingContract.
LEMMA BindingFaultsFit ==
  ASSUME NEW b, IsBinding(b), NEW ifs
  PROVE  Fit(BindingFaults(b, ifs))
<1>1. b.ref \in Seq(Int) /\ b.target \in Seq(Int)
  BY KeysAreTexts DEF IsBinding, IsContract
<1>0. /\ <<1>> \in Seq(Int) /\ <<2>> \in Seq(Int)
      /\ "unresolved_reference" \in DOMAIN CodeRank /\ "invalid_artifact" \in DOMAIN CodeRank
  BY Codes
<1>2. CASE b.target \notin DOMAIN ifs
  <2>1. Diagnostic("unresolved_reference", b.ref, <<1>>, b.target) \in Diagnostics
    BY <1>0, <1>1, IsDiagnostic
  <2>2. BindingFaults(b, ifs) = {Diagnostic("unresolved_reference", b.ref, <<1>>, b.target)}
    BY <1>2 DEF BindingFaults
  <2> QED  BY <2>1, <2>2, FitTogether
<1>3. CASE b.target \in DOMAIN ifs
  <2> DEFINE S == b.operations \ ifs[b.target].operations
             f == [op \in S |-> Diagnostic("invalid_artifact", b.ref, <<2>>, <<op>> \o b.target)]
  <2>1. IsFiniteSet(S) /\ S \subseteq Int
    BY FS_Subset DEF IsBinding
  <2>2. \A op \in Int : <<op>> \in Seq(Int) /\ <<op>> \o b.target \in Seq(Int)
    BY <1>1, KeysAreTexts
  <2>3. \A op \in S : f[op] \in Diagnostics
    BY <1>0, <1>1, <2>1, <2>2, IsDiagnostic
  <2>4. BindingFaults(b, ifs) = {f[op] : op \in S}
    BY <1>3 DEF BindingFaults
  <2> HIDE DEF S, f
  <2>5. Fit({f[op] : op \in S})
    BY <2>1, <2>3, ImageFits
  <2> QED  BY <2>4, <2>5
<1> QED  BY <1>2, <1>3

\* An annotation of a document, at one of its nodes and in one of its contexts.
Notes(s) ==
  {[at |-> t[1], ref |-> s[t[1]].need, name |-> t[2]] : t \in {x \in Targets(s) : s[x[1]].need # <<>>}}

\* The walk finds nothing else, so what it finds is finite.
LEMMA WalkFindsNotes ==
  ASSUME NEW s, IsDocument(s)
  PROVE  \A x \in Calls(s) : Walk(s)[x] \subseteq Notes(s)
<1> DEFINE Other == {x \in Calls(s) : ~(Walk(s)[x] \subseteq Notes(s))}
           D == {Far(s, x) : x \in Other}
<1>1. SUFFICES ASSUME Other # {} PROVE FALSE
  OBVIOUS
<1>2. D \subseteq Nat /\ D # {}
  BY <1>1, FarNatural
<1>3. PICK x \in Other : \A y \in Other : Far(s, x) <= Far(s, y)
  <2>1. \E m \in D : \A k \in D : m <= k
    <3> HIDE DEF D
    <3> QED  BY <1>2, LeastNatural
  <2> QED  BY <2>1
<1>4. x \in Calls(s) /\ ~(Walk(s)[x] \subseteq Notes(s)) /\ Walk(s)[x] = Visit(s, Walk(s), x)
  BY WalkIsWalk
<1>5. ASSUME NEW y \in Below(s, x) \cup Beyond(s, x) PROVE Walk(s)[y] \subseteq Notes(s)
  <2>1. y \in Calls(s) /\ Far(s, y) < Far(s, x) /\ Far(s, y) \in Nat /\ Far(s, x) \in Nat
    BY <1>4, CallsNearer, FarNatural
  <2>2. y \notin Other
    BY <1>3, <2>1
  <2> QED  BY <2>1, <2>2
<1>6. Here(s, x) \subseteq Notes(s)
  <2>1. x[1] \in DOMAIN s /\ NameAt(s, x[1], x[2]) \in Names(s)
    BY <1>4, CallParts
  <2> DEFINE t == <<x[1], NameAt(s, x[1], x[2])>>
  <2>2. t \in Targets(s) /\ t[1] = x[1] /\ t[2] = NameAt(s, x[1], x[2])
    BY <2>1 DEF Targets
  <2> HIDE DEF t
  <2> QED  BY <2>2 DEF Here, Notes
<1>7. Walk(s)[x] \subseteq Notes(s)
  BY <1>4, <1>5, <1>6 DEF Visit
<1> QED  BY <1>4, <1>7

\* The walk of a document meets finitely many annotations.
LEMMA AnnotationsFinite ==
  ASSUME NEW s, IsDocument(s)
  PROVE  /\ IsFiniteSet(ContractAnnotations(s))
         /\ \A x \in ContractAnnotations(s) :
              x.at \in Int /\ x.ref \in ContractKeys /\ x.name \in Int
<1> DEFINE S == {x \in Targets(s) : s[x[1]].need # <<>>}
           f == [t \in S |-> [at |-> t[1], ref |-> s[t[1]].need, name |-> t[2]]]
<1>1. IsFiniteSet(S)
  BY TargetsFinite, FS_Subset
<1>2. Notes(s) = {f[t] : t \in S}
  BY DEF Notes
<1>3. \A t \in S : f[t].at \in Int /\ f[t].ref \in ContractKeys /\ f[t].name \in Int
  <2> SUFFICES ASSUME NEW t \in S PROVE t[1] \in Int /\ s[t[1]].need \in ContractKeys /\ t[2] \in Int
    OBVIOUS
  <2>1. t[1] \in DOMAIN s /\ t[2] \in Names(s) /\ s[t[1]].need # <<>>
    BY DEF Targets
  <2>2. DOMAIN s \subseteq Int
    BY DEF IsDocument, IsList
  <2>3. t[2] \in Int
    BY <2>1 DEF Names, IsDocument, NoName
  <2> QED  BY <2>1, <2>2, <2>3 DEF IsDocument
<1> HIDE DEF S, f
<1>4. IsFiniteSet(Notes(s))
  BY <1>1, <1>2, ImageFinite
<1>5. <<1, NoName, {}>> \in Calls(s)
  <2>1. 1 \in DOMAIN s
    BY DEF IsDocument, IsList
  <2> QED  BY <2>1 DEF Calls, Names
<1>6. ContractAnnotations(s) \subseteq Notes(s)
  BY <1>5, AnnotationsOfWalk, WalkFindsNotes
<1>7. IsFiniteSet(ContractAnnotations(s))
  BY <1>4, <1>6, FS_Subset
<1> QED  BY <1>2, <1>3, <1>6, <1>7

\* A sequence has finitely many places.
LEMMA SeqFinite ==
  ASSUME NEW U, NEW a \in Seq(U)
  PROVE  IsFiniteSet(DOMAIN a) /\ DOMAIN a \subseteq Int
<1>1. Len(a) \in Nat /\ DOMAIN a = 1..Len(a)
  OBVIOUS
<1> DEFINE n == Len(a)
<1> HIDE DEF n
<1>2. IsFiniteSet(1..n)
  BY <1>1, FS_Interval DEF n
<1> QED  BY <1>1, <1>2 DEF n

\* The kinds of fault of one Form.
LEMMA ProvidedFaultsFit ==
  ASSUME NEW p, IsPackage(p), NEW ifs
  PROVE  Fit(ProvidedFaults(p, ifs))
<1> DEFINE S == {j \in DOMAIN p.provides : p.provides[j] \notin DOMAIN ifs}
           f == [i \in S |-> UnresolvedInterface(p, <<3, i>>, p.provides[i])]
<1>1. IsFiniteSet(S) /\ S \subseteq Int
  <2>1. IsFiniteSet(DOMAIN p.provides) /\ DOMAIN p.provides \subseteq Int
    BY SeqFinite DEF IsPackage
  <2>2. S \subseteq DOMAIN p.provides
    OBVIOUS
  <2> HIDE DEF S
  <2> QED  BY <2>1, <2>2, FS_Subset
<1>2. \A i \in S : /\ p.ref \in Seq(Int) /\ p.provides[i] \in Seq(Int) /\ <<3, i>> \in Seq(Int)
                   /\ "unresolved_reference" \in DOMAIN CodeRank
  BY <1>1, KeysAreTexts, Codes DEF IsPackage
<1>3. \A i \in S : f[i] \in Diagnostics
  BY <1>2, IsDiagnostic DEF UnresolvedInterface
<1>4. ProvidedFaults(p, ifs) = {f[i] : i \in S}
  BY DEF ProvidedFaults
<1> HIDE DEF S, f
<1>5. Fit({f[i] : i \in S})
  BY <1>1, <1>3, ImageFits
<1> QED  BY <1>4, <1>5

\* What is reported of the bindings a Form accepts.
LEMMA AcceptedFaultsFit ==
  ASSUME NEW p, IsPackage(p), NEW bs
  PROVE  Fit(AcceptedFaults(p, bs))
<1> DEFINE absent == {i \in DOMAIN p.accepts : p.accepts[i] \notin DOMAIN bs}
           otherRole == {i \in DOMAIN p.accepts \ absent : bs[p.accepts[i]].role # p.role}
           f == [i \in absent |-> Diagnostic("unresolved_reference", p.ref, <<4, i>>, p.accepts[i])]
           g == [i \in otherRole |-> Diagnostic("invalid_artifact", p.ref, <<4, i>>, <<>>)]
<1>1. /\ IsFiniteSet(absent) /\ IsFiniteSet(otherRole)
      /\ absent \subseteq DOMAIN p.accepts /\ otherRole \subseteq DOMAIN p.accepts
      /\ DOMAIN p.accepts \subseteq Int
  <2>1. IsFiniteSet(DOMAIN p.accepts) /\ DOMAIN p.accepts \subseteq Int
    BY SeqFinite DEF IsPackage
  <2>3. absent \subseteq DOMAIN p.accepts /\ otherRole \subseteq DOMAIN p.accepts
    OBVIOUS
  <2> HIDE DEF absent, otherRole
  <2> QED  BY <2>1, <2>3, FS_Subset
<1>2. /\ p.ref \in Seq(Int) /\ <<>> \in Seq(Int)
      /\ "unresolved_reference" \in DOMAIN CodeRank /\ "invalid_artifact" \in DOMAIN CodeRank
      /\ \A i \in DOMAIN p.accepts : p.accepts[i] \in Seq(Int) /\ <<4, i>> \in Seq(Int)
  BY <1>1, KeysAreTexts, Codes DEF IsPackage
<1>3. (\A i \in absent : f[i] \in Diagnostics) /\ (\A i \in otherRole : g[i] \in Diagnostics)
  BY <1>1, <1>2, IsDiagnostic
<1>4. AcceptedFaults(p, bs) = {f[i] : i \in absent} \cup {g[i] : i \in otherRole}
  BY DEF AcceptedFaults
<1> HIDE DEF absent, otherRole, f, g
<1>5. Fit({f[i] : i \in absent})
  BY <1>1, <1>3, ImageFits
<1>6. Fit({g[i] : i \in otherRole})
  BY <1>1, <1>3, ImageFits
<1> QED  BY <1>4, <1>5, <1>6, FitTogether

\* What is reported of the interfaces a schema annotates.
LEMMA AnnotatedInterfaceFaultsFit ==
  ASSUME NEW p, IsPackage(p), NEW ifs, NEW bs
  PROVE  Fit(AnnotatedInterfaceFaults(p, ifs, bs))
<1> DEFINE all == ContractAnnotations(p.schema)
           absent == {x \in all : x.ref \notin DOMAIN ifs}
           bound(x) == {p.accepts[i] : i \in AcceptedByName(p, x.name)} \cap DOMAIN bs
           mismatched == {x \in all \ absent :
                            /\ x.name # NoName
                            /\ Cardinality(AcceptedByName(p, x.name)) = 1
                            /\ \E b \in bound(x) : bs[b].target # x.ref}
           f == [x \in absent |-> UnresolvedInterface(p, <<5, x.at>>, x.ref)]
           g == [x \in mismatched |->
                   Diagnostic("invalid_artifact", p.ref, <<5, x.at>>, <<x.name>> \o x.ref)]
<1>1. AnnotatedInterfaceFaults(p, ifs, bs) = {f[x] : x \in absent} \cup {g[x] : x \in mismatched}
  BY DEF AnnotatedInterfaceFaults
<1>2. absent \subseteq all /\ mismatched \subseteq all
  OBVIOUS
<1> HIDE DEF absent, mismatched
<1>3. IsDocument(p.schema)
  BY DEF IsPackage
<1>4. IsFiniteSet(all) /\ \A x \in all : x.at \in Int /\ x.ref \in ContractKeys /\ x.name \in Int
  BY <1>3, AnnotationsFinite
<1> HIDE DEF all
<1>5. IsFiniteSet(absent) /\ IsFiniteSet(mismatched)
  BY <1>2, <1>4, FS_Subset
<1>6. /\ p.ref \in Seq(Int)
      /\ "unresolved_reference" \in DOMAIN CodeRank /\ "invalid_artifact" \in DOMAIN CodeRank
  BY KeysAreTexts, Codes DEF IsPackage
<1>7. \A x \in all : x.ref \in Seq(Int) /\ <<5, x.at>> \in Seq(Int) /\ <<x.name>> \in Seq(Int)
  BY <1>4, KeysAreTexts
<1>8. \A x \in all : <<x.name>> \o x.ref \in Seq(Int)
  BY <1>7
<1>9. \A x \in absent : f[x] \in Diagnostics
  BY <1>2, <1>6, <1>7, IsDiagnostic DEF UnresolvedInterface
<1>10. \A x \in mismatched : g[x] \in Diagnostics
  BY <1>2, <1>6, <1>7, <1>8, IsDiagnostic
<1> HIDE DEF f, g
<1>11. Fit({f[x] : x \in absent})
  BY <1>5, <1>9, ImageFits
<1>12. Fit({g[x] : x \in mismatched})
  BY <1>5, <1>10, ImageFits
<1> QED  BY <1>1, <1>11, <1>12, FitTogether

\* What is reported of the bindings a schema annotates.
LEMMA AnnotatedBindingFaultsFit ==
  ASSUME NEW p, IsPackage(p)
  PROVE  Fit(AnnotatedBindingFaults(p))
<1> DEFINE S == {m \in DOMAIN p.schema :
                   /\ p.schema[m].bind # NoName
                   /\ Cardinality(AcceptedByName(p, p.schema[m].bind)) # 1}
           f == [n \in S |-> Diagnostic("unresolved_reference", p.ref, <<6, n>>, <<p.schema[n].bind>>)]
<1>1. AnnotatedBindingFaults(p) = {f[n] : n \in S}
  BY DEF AnnotatedBindingFaults
<1>2. S \subseteq DOMAIN p.schema
  OBVIOUS
<1> HIDE DEF S
<1>3. IsFiniteSet(S)
  BY <1>2, ListFinite, FS_Subset DEF IsPackage, IsDocument
<1>4. /\ p.ref \in Seq(Int) /\ "unresolved_reference" \in DOMAIN CodeRank
  BY KeysAreTexts, Codes DEF IsPackage
<1>5. \A n \in S : n \in Int /\ p.schema[n].bind \in Int
  BY <1>2 DEF IsPackage, IsDocument, IsList
<1>6. \A n \in S : <<6, n>> \in Seq(Int) /\ <<p.schema[n].bind>> \in Seq(Int)
  BY <1>5, KeysAreTexts
<1>7. \A n \in S : f[n] \in Diagnostics
  BY <1>4, <1>6, IsDiagnostic
<1> HIDE DEF f
<1>8. Fit({f[n] : n \in S})
  BY <1>3, <1>7, ImageFits
<1> QED  BY <1>1, <1>8

\* What is reported of the references of a Form.
LEMMA ReferenceFaultsFit ==
  ASSUME NEW p, IsPackage(p), NEW ifs, NEW bs
  PROVE  Fit(ReferenceFaults(p, ifs, bs))
BY ProvidedFaultsFit, AcceptedFaultsFit, AnnotatedInterfaceFaultsFit, AnnotatedBindingFaultsFit,
   FitTogether DEF ReferenceFaults

\* What is reported of the host lane of a Form.
LEMMA LaneFaultsFit ==
  ASSUME NEW p, IsPackage(p), NEW lane
  PROVE  Fit(LaneFaults(p, lane))
<1>1. p.ref \in Seq(Int) /\ "unsupported_host_api" \in DOMAIN CodeRank
      /\ <<8>> \in Seq(Int) /\ <<>> \in Seq(Int)
  BY KeysAreTexts, Codes DEF IsPackage
<1>2. Diagnostic("unsupported_host_api", p.ref, <<8>>, <<>>) \in Diagnostics
  BY <1>1, IsDiagnostic
<1> QED  BY <1>2, FitTogether DEF LaneFaults

\* What is reported of the targets of a Form.
LEMMA TargetFaultsFit ==
  ASSUME NEW p, IsPackage(p), NEW fs
  PROVE  Fit(TargetFaults(p, fs))
<1> DEFINE unresolved(ts) == {i \in DOMAIN ts : ts[i] \notin DOMAIN fs}
           at(n) == {Diagnostic("unresolved_reference", p.ref, <<7, n, i>>, p.schema[n].targets[i]) :
                       i \in unresolved(p.schema[n].targets)}
           g == [n \in DOMAIN p.schema |-> at(n)]
<1>1. TargetFaults(p, fs) = UNION {g[n] : n \in DOMAIN p.schema}
  <2>1. TargetFaults(p, fs) = UNION {at(n) : n \in DOMAIN p.schema}
    BY DEF TargetFaults
  <2> HIDE DEF at
  <2> QED  BY <2>1
<1>2. IsFiniteSet(DOMAIN p.schema) /\ DOMAIN p.schema \subseteq Int
  BY ListFinite DEF IsPackage, IsDocument, IsList
<1>3. ASSUME NEW n \in DOMAIN p.schema PROVE Fit(g[n])
  <2> DEFINE ts == p.schema[n].targets
             S == unresolved(ts)
             f == [i \in S |-> Diagnostic("unresolved_reference", p.ref, <<7, n, i>>, ts[i])]
  <2>1. ts \in Seq(FormKeys)
    BY DEF IsPackage, IsDocument
  <2>2. IsFiniteSet(DOMAIN ts) /\ DOMAIN ts \subseteq Int
    BY <2>1, SeqFinite
  <2>3. S \subseteq DOMAIN ts
    OBVIOUS
  <2>4. g[n] = {f[i] : i \in S}
    OBVIOUS
  <2> HIDE DEF S
  <2>5. IsFiniteSet(S)
    BY <2>2, <2>3, FS_Subset
  <2>6. p.ref \in Seq(Int) /\ "unresolved_reference" \in DOMAIN CodeRank
    BY KeysAreTexts, Codes DEF IsPackage
  <2>7. \A i \in S : ts[i] \in Seq(Int) /\ i \in Int
    BY <2>1, <2>2, <2>3, KeysAreTexts
  <2>8. \A i \in S : <<7, n, i>> \in Seq(Int)
    BY <1>2, <2>7, KeysAreTexts
  <2>9. \A i \in S : f[i] \in Diagnostics
    BY <2>6, <2>7, <2>8, IsDiagnostic
  <2> HIDE DEF f, g
  <2>10. Fit({f[i] : i \in S})
    BY <2>5, <2>9, ImageFits
  <2> QED  BY <2>4, <2>10
<1> HIDE DEF g
<1>4. Fit(UNION {g[n] : n \in DOMAIN p.schema})
  BY <1>2, <1>3, UnionFits
<1> QED  BY <1>1, <1>4

\* What is reported of the default of a group.
LEMMA DefaultFaultFits ==
  ASSUME NEW group \in Int \X Int, NEW fs, NEW pins
  PROVE  Fit(DefaultFault(group, fs, pins))
<1>1. group \in Seq(Int) /\ <<>> \in Seq(Int)
  BY KeysAreTexts
<1>2. \A code \in {"missing_default", "ambiguous_default", "unresolved_reference"} :
        Diagnostic(code, group, <<>>, <<>>) \in Diagnostics
  BY <1>1, Codes, IsDiagnostic
<1>3. \A code \in {"missing_default", "ambiguous_default", "unresolved_reference"} :
        Fit({Diagnostic(code, group, <<>>, <<>>)})
  BY <1>2, FitTogether
<1> QED  BY <1>3, FitTogether DEF DefaultFault

\* What is reported of the host lane of the input.
LEMMA HostFaultsFit ==
  ASSUME NEW lane
  PROVE  Fit(HostFaults(lane))
<1>1. <<>> \in Seq(Int) /\ <<9>> \in Seq(Int)
  BY KeysAreTexts
<1>2. \A code \in {"invalid_input", "unsupported_host_api"} :
        Diagnostic(code, <<>>, <<9>>, <<>>) \in Diagnostics
  BY <1>1, Codes, IsDiagnostic
<1>3. \A code \in {"invalid_input", "unsupported_host_api"} : Fit(InputFault(code))
  BY <1>2, FitTogether DEF InputFault
<1> QED  BY <1>3, FitTogether DEF HostFaults

\* The groups of an input, and all that it identifies.
LEMMA GroupsFinite ==
  ASSUME NEW in \in Inputs
  PROVE  IsFiniteSet(Groups(FormsOf(in), in.pins)) /\ Groups(FormsOf(in), in.pins) \subseteq Int \X Int
<1> DEFINE K == DOMAIN FormsOf(in)
           P == DOMAIN in.pins
           f == [k \in K |-> GroupKind(k)]
           g == [i \in P |-> in.pins[i].group]
<1>1. K = Refs(in.packages)
  BY DEF FormsOf, ByIdentity
<1>2. IsList(in.packages) /\ IsList(in.pins)
  BY PartShapes DEF Parts
<1>3. IsFiniteSet(K) /\ IsFiniteSet(P)
  BY <1>1, <1>2, ListFinite
<1>4. \A k \in K : k \in FormKeys
  BY <1>1, PartShapes DEF Refs, Elements, IsPackage
<1>5. \A k \in K : f[k] \in Int \X Int
  BY <1>4 DEF FormKeys, GroupKind
<1>6. \A i \in P : g[i] \in Int \X Int
  BY PartShapes DEF Elements
<1>7. Groups(FormsOf(in), in.pins) = {f[k] : k \in K} \cup {g[i] : i \in P}
  BY DEF Groups
<1> HIDE DEF K, P, f, g
<1>8. IsFiniteSet({f[k] : k \in K}) /\ IsFiniteSet({g[i] : i \in P})
  BY <1>3, ImageFinite
<1>9. IsFiniteSet({f[k] : k \in K} \cup {g[i] : i \in P})
  BY <1>8, FS_Union
<1> QED  BY <1>5, <1>6, <1>7, <1>9

\* The collected artifacts are finitely many, with known identities.
LEMMA GraphKeys ==
  ASSUME NEW in \in Inputs
  PROVE  /\ IsFiniteSet(DOMAIN FormsOf(in)) /\ DOMAIN FormsOf(in) \subseteq FormKeys
         /\ IsFiniteSet(DOMAIN InterfacesOf(in)) /\ DOMAIN InterfacesOf(in) \subseteq Seq(Int)
         /\ IsFiniteSet(DOMAIN BindingsOf(in)) /\ DOMAIN BindingsOf(in) \subseteq Seq(Int)
         /\ IsFiniteSet(DOMAIN DefaultsOf(in)) /\ DOMAIN DefaultsOf(in) \subseteq Seq(Int)
<1>1. /\ DOMAIN FormsOf(in) = Refs(in.packages)
      /\ DOMAIN InterfacesOf(in) = Refs(in.interfaces)
      /\ DOMAIN BindingsOf(in) = Refs(in.bindings)
      /\ DOMAIN DefaultsOf(in) = Groups(FormsOf(in), in.pins)
  BY DEF FormsOf, InterfacesOf, BindingsOf, DefaultsOf, DefaultPins, ByIdentity
<1>2. IsList(in.packages) /\ IsList(in.interfaces) /\ IsList(in.bindings)
  BY PartShapes DEF Parts
<1>3. Refs(in.packages) \subseteq FormKeys
  BY PartShapes DEF Refs, Elements, IsPackage
<1>4. Refs(in.interfaces) \subseteq ContractKeys
  BY PartShapes DEF Refs, Elements, IsContract
<1>5. Refs(in.bindings) \subseteq ContractKeys
  BY PartShapes DEF Refs, Elements, IsBinding, IsContract
<1>6. /\ IsFiniteSet(Refs(in.packages)) /\ IsFiniteSet(Refs(in.interfaces))
      /\ IsFiniteSet(Refs(in.bindings))
  BY <1>2, ListFinite
<1>7. ContractKeys \subseteq Seq(Int) /\ Int \X Int \subseteq Seq(Int)
  BY KeysAreTexts
<1> QED  BY <1>1, <1>3, <1>4, <1>5, <1>6, <1>7, GroupsFinite

\* Every stage reports finitely many diagnostics, of texts.
LEMMA StageFaultsFit ==
  ASSUME NEW in \in Inputs, NEW k \in 1..10
  PROVE  Fit(StageFaults(k, in))
<1> DEFINE fs == FormsOf(in)
           ifs == InterfacesOf(in)
           bs == BindingsOf(in)
<1>1. /\ IsList(in.packages) /\ IsList(in.interfaces) /\ IsList(in.bindings) /\ IsList(in.pins)
  BY PartShapes DEF Parts
<1>2. /\ IsFiniteSet(Elements(in.packages)) /\ IsFiniteSet(DOMAIN fs)
      /\ \A f \in DOMAIN fs : IsPackage(fs[f])
  <2>1. DOMAIN fs = Refs(in.packages) /\ \A f \in DOMAIN fs : fs[f] \in Elements(in.packages)
    BY IdentityKept DEF FormsOf, ByIdentity
  <2> QED  BY <1>1, <2>1, ListFinite, PartShapes
<1>3. IsFiniteSet(DOMAIN bs) /\ \A b \in DOMAIN bs : IsBinding(bs[b])
  <2>1. DOMAIN bs = Refs(in.bindings) /\ \A b \in DOMAIN bs : bs[b] \in Elements(in.bindings)
    BY IdentityKept DEF BindingsOf, ByIdentity
  <2> QED  BY <1>1, <2>1, ListFinite, PartShapes
<1>4. ASSUME k = 1 PROVE Fit(StageFaults(k, in))
  BY <1>4, HostFaultsFit DEF StageFaults
<1>5. ASSUME k = 2 PROVE Fit(StageFaults(k, in))
  <2> DEFINE S == Elements(in.packages)
             f == [p \in S |-> CompileArtifact(p)]
  <2>1. StageFaults(2, in) = UNION {f[p] : p \in S}
    BY DEF StageFaults
  <2>2. \A p \in S : Fit(f[p])
    BY PartShapes, ArtifactFits DEF IsPackage
  <2>3. IsFiniteSet(S)
    BY <1>2
  <2> HIDE DEF S, f
  <2>4. Fit(UNION {f[p] : p \in S})
    BY <2>2, <2>3, UnionFits
  <2> QED  BY <1>5, <2>1, <2>4
<1>6. /\ Fit(Duplicates(in.packages)) /\ Fit(Duplicates(in.interfaces))
      /\ Fit(Duplicates(in.bindings))
  <2>1. \A x \in Elements(in.packages) : x.ref \in Seq(Int) /\ Subject(x) \in Seq(Int)
    BY PartShapes, SubjectsAreTexts, KeysAreTexts DEF IsPackage
  <2>2. \A x \in Elements(in.interfaces) \cup Elements(in.bindings) :
          x.ref \in Seq(Int) /\ Subject(x) \in Seq(Int)
    BY PartShapes, SubjectsAreTexts, KeysAreTexts DEF IsBinding, IsContract
  <2> QED  BY <1>1, <2>1, <2>2, DuplicatesFit
<1>7. ASSUME k \in {3, 5} PROVE Fit(StageFaults(k, in))
  BY <1>6, <1>7, FitTogether DEF StageFaults
<1>8. ASSUME k = 4 PROVE Fit(StageFaults(k, in))
  <2> DEFINE S == Elements(in.interfaces) \cup Elements(in.bindings)
             f == [x \in S |-> CompileContractArtifact(x)]
  <2>1. StageFaults(4, in) = UNION {f[x] : x \in S}
    <3>1. StageFaults(4, in) = UNION {CompileContractArtifact(x) : x \in S}
      BY DEF StageFaults
    <3> HIDE DEF S
    <3> QED  BY <3>1
  <2>2. \A x \in S : Fit(f[x])
    BY PartShapes, ArtifactFits DEF IsBinding, IsContract
  <2>3. IsFiniteSet(S)
    BY <1>1, ListFinite, FS_Union
  <2> HIDE DEF S, f
  <2>4. Fit(UNION {f[x] : x \in S})
    BY <2>2, <2>3, UnionFits
  <2> QED  BY <1>8, <2>1, <2>4
<1>9. ASSUME k = 6 PROVE Fit(StageFaults(k, in))
  <2> DEFINE S == DOMAIN bs
             f == [b \in S |-> BindingFaults(bs[b], ifs)]
  <2>1. StageFaults(6, in) = UNION {f[b] : b \in S}
    BY DEF StageFaults
  <2>2. \A b \in S : Fit(f[b])
    BY <1>3, BindingFaultsFit
  <2>3. IsFiniteSet(S)
    BY <1>3
  <2> HIDE DEF S, f
  <2>4. Fit(UNION {f[b] : b \in S})
    BY <2>2, <2>3, UnionFits
  <2> QED  BY <1>9, <2>1, <2>4
<1>10. ASSUME k = 7 PROVE Fit(StageFaults(k, in))
  <2> DEFINE S == DOMAIN fs
             f == [x \in S |-> ReferenceFaults(fs[x], ifs, bs)]
  <2>1. StageFaults(7, in) = UNION {f[x] : x \in S}
    BY DEF StageFaults
  <2>2. \A x \in S : Fit(f[x])
    BY <1>2, ReferenceFaultsFit
  <2>3. IsFiniteSet(S)
    BY <1>2
  <2> HIDE DEF S, f
  <2>4. Fit(UNION {f[x] : x \in S})
    BY <2>2, <2>3, UnionFits
  <2> QED  BY <1>10, <2>1, <2>4
<1>11. ASSUME k = 8 PROVE Fit(StageFaults(k, in))
  <2> DEFINE S == DOMAIN fs
             f == [x \in S |-> LaneFaults(fs[x], in.hostAPI)]
  <2>1. StageFaults(8, in) = UNION {f[x] : x \in S}
    BY DEF StageFaults
  <2>2. \A x \in S : Fit(f[x])
    BY <1>2, LaneFaultsFit
  <2>3. IsFiniteSet(S)
    BY <1>2
  <2> HIDE DEF S, f
  <2>4. Fit(UNION {f[x] : x \in S})
    BY <2>2, <2>3, UnionFits
  <2> QED  BY <1>11, <2>1, <2>4
<1>12. ASSUME k = 9 PROVE Fit(StageFaults(k, in))
  <2> DEFINE S == DOMAIN fs
             f == [x \in S |-> TargetFaults(fs[x], fs)]
  <2>1. StageFaults(9, in) = UNION {f[x] : x \in S}
    BY DEF StageFaults
  <2>2. \A x \in S : Fit(f[x])
    BY <1>2, TargetFaultsFit
  <2>3. IsFiniteSet(S)
    BY <1>2
  <2> HIDE DEF S, f
  <2>4. Fit(UNION {f[x] : x \in S})
    BY <2>2, <2>3, UnionFits
  <2> QED  BY <1>12, <2>1, <2>4
<1>13. ASSUME k = 10 PROVE Fit(StageFaults(k, in))
  <2> DEFINE S == Groups(fs, in.pins)
             f == [g \in S |-> DefaultFault(g, fs, in.pins)]
  <2>1. StageFaults(10, in) = UNION {f[g] : g \in S}
    BY DEF StageFaults
  <2>2. IsFiniteSet(S) /\ S \subseteq Int \X Int
    BY GroupsFinite
  <2>3. \A g \in S : Fit(f[g])
    BY <2>2, DefaultFaultFits
  <2> HIDE DEF S, f
  <2>4. Fit(UNION {f[g] : g \in S})
    BY <2>2, <2>3, UnionFits
  <2> QED  BY <1>13, <2>1, <2>4
<1>14. k = 1 \/ k = 2 \/ k \in {3, 5} \/ k = 4 \/ k = 6 \/ k = 7 \/ k = 8 \/ k = 9 \/ k = 10
  OBVIOUS
<1> QED
  BY <1>4, <1>5, <1>7, <1>8, <1>9, <1>10, <1>11, <1>12, <1>13, <1>14

\* Compile has one answer to an input.
LEMMA AnswersOnce ==
  ASSUME VersionsFit, NEW in \in Inputs, NEW o, Answers(in, o), NEW p, Answers(in, p)
  PROVE  o = p
<1>1. ASSUME NEW k \in 1..10, IsRefusalAt(k, in, o), NEW l \in 1..10, IsRefusalAt(l, in, p)
      PROVE  o = p
  <2>1. k = l
    <3>1. ~(k < l) /\ ~(l < k)
      BY <1>1 DEF IsRefusalAt
    <3> QED  BY <3>1
  <2>2. PICK v \in SetToSeqs(StageFaults(k, in)) :
          o = [kind |-> "refused", diagnostics |-> SortSlice(DiagnosticLess, v)]
    BY <1>1 DEF IsRefusalAt
  <2>3. PICK w \in SetToSeqs(StageFaults(k, in)) :
          p = [kind |-> "refused", diagnostics |-> SortSlice(DiagnosticLess, w)]
    BY <1>1, <2>1 DEF IsRefusalAt
  <2>4. SortSlice(DiagnosticLess, v) = SortSlice(DiagnosticLess, w)
    BY StageFaultsFit, DiagnosticsSortOnce DEF Fit
  <2> QED  BY <2>2, <2>3, <2>4
<1>2. ASSUME IsSnapshotOf(in, o), IsSnapshotOf(in, p)
      PROVE  o = p
  <2>1. /\ IsFiniteSet(DOMAIN FormsOf(in)) /\ DOMAIN FormsOf(in) \subseteq FormKeys
        /\ IsFiniteSet(DOMAIN InterfacesOf(in)) /\ DOMAIN InterfacesOf(in) \subseteq Seq(Int)
        /\ IsFiniteSet(DOMAIN BindingsOf(in)) /\ DOMAIN BindingsOf(in) \subseteq Seq(Int)
        /\ IsFiniteSet(DOMAIN DefaultsOf(in)) /\ DOMAIN DefaultsOf(in) \subseteq Seq(Int)
    BY GraphKeys
  <2>2. \A x, y \in Sorted(LessKey, DOMAIN FormsOf(in)) : x = y
    BY <2>1, KeysSortOnce
  <2>3. \A x, y \in Sorted(LexLess, DOMAIN InterfacesOf(in)) : x = y
    BY <2>1, TextsSortOnce
  <2>4. \A x, y \in Sorted(LexLess, DOMAIN BindingsOf(in)) : x = y
    BY <2>1, TextsSortOnce
  <2>5. \A x, y \in Sorted(LexLess, DOMAIN DefaultsOf(in)) : x = y
    BY <2>1, TextsSortOnce
  <2> DEFINE Out(fs, is, bs, ds) ==
        [kind |-> "snapshot", hostAPI |-> in.hostAPI,
         forms |-> [i \in DOMAIN fs |-> <<fs[i], FormsOf(in)[fs[i]].pin>>],
         interfaces |-> is,
         bindings |-> [i \in DOMAIN bs |-> <<bs[i], BindingsOf(in)[bs[i]].target>>],
         defaults |-> [i \in DOMAIN ds |-> <<ds[i], DefaultsOf(in)[ds[i]]>>]]
  <2>6. PICK fs \in Sorted(LessKey, DOMAIN FormsOf(in)), is \in Sorted(LexLess, DOMAIN InterfacesOf(in)),
             bs \in Sorted(LexLess, DOMAIN BindingsOf(in)), ds \in Sorted(LexLess, DOMAIN DefaultsOf(in)) :
          o = Out(fs, is, bs, ds)
    BY <1>2 DEF IsSnapshotOf
  <2>7. PICK ft \in Sorted(LessKey, DOMAIN FormsOf(in)), it \in Sorted(LexLess, DOMAIN InterfacesOf(in)),
             bt \in Sorted(LexLess, DOMAIN BindingsOf(in)), dt \in Sorted(LexLess, DOMAIN DefaultsOf(in)) :
          p = Out(ft, it, bt, dt)
    BY <1>2 DEF IsSnapshotOf
  <2>8. fs = ft /\ is = it /\ bs = bt /\ ds = dt
    BY <2>2, <2>3, <2>4, <2>5
  <2> HIDE DEF Out
  <2> QED  BY <2>6, <2>7, <2>8
<1>3. ASSUME NEW k \in 1..10, NEW x, IsRefusalAt(k, in, x)
      PROVE  ~\A j \in 1..10 : StageFaults(j, in) = {}
  BY <1>3 DEF IsRefusalAt
<1> QED  BY <1>1, <1>2, <1>3 DEF Answers

-----------------------------------------------------------------------------
(* Every Compile of an input answers the same.                              *)

\* The order in which the stages are reached.
StageRank ==
  [host |-> 1, packages |-> 2, forms |-> 3, contracts |-> 4, collect |-> 5, projections |-> 6,
   references |-> 7, lanes |-> 8, targets |-> 9, defaults |-> 10, digest |-> 11]

\* No stage before this one found anything, and what is collected is the input's.
Progress ==
  stage # "done" =>
    /\ stage \in DOMAIN StageRank
    /\ \A j \in 1..(StageRank[stage] - 1) : StageFaults(j, input) = {}
    /\ StageRank[stage] > 3 => forms = FormsOf(input)
    /\ StageRank[stage] > 5 => interfaces = InterfacesOf(input) /\ bindings = BindingsOf(input)
    /\ StageRank[stage] > 10 => defaults = DefaultsOf(input)

\* Every Compile had the same artifacts, and answered what those are answered.
AnswersInv ==
  \E in \in Inputs : Rearranged(input, in) /\ \A o \in outcomes : Answers(in, o)

\* Progress and the answers given so far.
OrderInv == Progress /\ AnswersInv

\* A compile starts with an input as it was given.
LEMMA InitOrder == Init => OrderInv
<1> SUFFICES ASSUME Init PROVE OrderInv
  OBVIOUS
<1>1. stage = "host" /\ input \in Inputs /\ outcomes = {}
  BY DEF Init
<1>2. StageRank["host"] = 1 /\ 1..(StageRank["host"] - 1) = {} /\ "host" \in DOMAIN StageRank
  BY DEF StageRank
<1>3. Progress
  BY <1>1, <1>2 DEF Progress
<1>4. \A part \in Parts : IsList(input[part]) /\ Same(input[part], input[part])
  BY <1>1, PartShapes, SameReflexive DEF IsList
<1>5. AnswersInv
  BY <1>1, <1>4 DEF AnswersInv, Rearranged
<1> QED  BY <1>3, <1>5 DEF OrderInv

\* An answer to the input as it is now is one to the input as it was first.
LEMMA OneMoreAnswer ==
  ASSUME OrderInv, NEW o, Answers(input, o), input' = input, outcomes' = outcomes \cup {o}
  PROVE  AnswersInv'
<1>1. PICK in \in Inputs : Rearranged(input, in) /\ \A x \in outcomes : Answers(in, x)
  BY DEF OrderInv, AnswersInv
<1>2. HasSubjects(input)
  BY <1>1, PartShapes, GraphSame DEF HasSubjects
<1>3. Answers(in, o)
  BY <1>1, <1>2, AnswersSame
<1> QED  BY <1>1, <1>3 DEF AnswersInv

\* A stage that fails.
LEMMA RefusedOrder ==
  ASSUME OrderInv, stage \in DOMAIN StageRank, StageFaults(StageRank[stage], input) # {},
         StageRank[stage] \in 1..10, Refuse(StageFaults(StageRank[stage], input))
  PROVE  OrderInv'
<1> DEFINE k == StageRank[stage]
<1>1. PICK visited \in SetToSeqs(StageFaults(k, input)) :
        Return([kind |-> "refused", diagnostics |-> SortSlice(DiagnosticLess, visited)])
  BY DEF Refuse
<1> DEFINE o == [kind |-> "refused", diagnostics |-> SortSlice(DiagnosticLess, visited)]
<1>2. stage' = "done" /\ input' = input /\ outcomes' = outcomes \cup {o}
  BY <1>1 DEF Return
<1>3. IsRefusalAt(k, input, o)
  <2>1. stage # "done"
    BY DEF StageRank
  <2> QED  BY <2>1 DEF IsRefusalAt, OrderInv, Progress
<1> HIDE DEF o
<1>4. Answers(input, o)
  BY <1>3 DEF Answers
<1> QED  BY <1>2, <1>4, OneMoreAnswer DEF OrderInv, Progress

\* A stage that passes, and what it collects.
LEMMA PassedOrder ==
  ASSUME OrderInv, stage \in DOMAIN StageRank, NEW next \in DOMAIN StageRank,
         StageRank[next] = StageRank[stage] + 1, StageFaults(StageRank[stage], input) = {},
         Pass(next),
         StageRank[next] > 3 => forms' = FormsOf(input),
         StageRank[next] > 5 => interfaces' = InterfacesOf(input) /\ bindings' = BindingsOf(input),
         StageRank[next] > 10 => defaults' = DefaultsOf(input)
  PROVE  OrderInv'
<1>1. stage' = next /\ input' = input /\ outcomes' = outcomes
  BY DEF Pass
<1>2. stage # "done"
  BY DEF StageRank
<1>3. StageRank[stage] \in Int
  BY DEF StageRank
<1>4. \A j \in 1..(StageRank[next] - 1) : StageFaults(j, input) = {}
  BY <1>2, <1>3 DEF OrderInv, Progress
<1>5. Progress'
  BY <1>1, <1>4 DEF Progress
<1>6. AnswersInv'
  BY <1>1 DEF OrderInv, AnswersInv
<1> QED  BY <1>5, <1>6 DEF OrderInv

\* A stage that only checks collects nothing.
LEMMA CheckedOrder ==
  ASSUME OrderInv, stage \in DOMAIN StageRank, NEW next \in DOMAIN StageRank,
         StageRank[next] = StageRank[stage] + 1, StageFaults(StageRank[stage], input) = {},
         StageRank[stage] \notin {3, 5, 10}, Pass(next), UNCHANGED closed
  PROVE  OrderInv'
<1>1. StageRank[stage] \in Int /\ stage # "done"
  BY DEF StageRank
<1>2. /\ StageRank[next] > 3 => StageRank[stage] > 3
      /\ StageRank[next] > 5 => StageRank[stage] > 5
      /\ StageRank[next] > 10 => StageRank[stage] > 10
  BY <1>1
<1> QED  BY <1>1, <1>2, PassedOrder DEF OrderInv, Progress, closed

\* A list in another order is the same.
LEMMA ReorderedSame ==
  ASSUME NEW list, IsList(list), NEW order \in SetToSeqs(DOMAIN list)
  PROVE  Same([i \in DOMAIN order |-> list[order[i]]], list)
<1> DEFINE other == [i \in DOMAIN order |-> list[order[i]]]
<1>1. DOMAIN list = 1..Len(list) /\ Len(list) \in Nat
  BY DEF IsList
<1>2. IsFiniteSet(DOMAIN list) /\ Cardinality(DOMAIN list) = Len(list)
  <2> DEFINE n == Len(list)
  <2>1. n \in Nat
    BY <1>1
  <2> HIDE DEF n
  <2>2. IsFiniteSet(1..n) /\ Cardinality(1..n) = n
    BY <2>1, FS_Interval
  <2> QED  BY <1>1, <2>2 DEF n
<1>3. /\ DOMAIN order = 1..Len(list) /\ order \in [1..Len(list) -> 1..Len(list)]
      /\ \A i, j \in 1..Len(list) : order[i] = order[j] => i = j
  BY <1>1, <1>2 DEF SetToSeqs
<1>4. Len(other) = Len(list) /\ \A i \in 1..Len(list) : other[i] = list[order[i]]
  BY <1>1, <1>3
<1> HIDE DEF other
<1>5. Same(list, other)
  BY <1>3, <1>4 DEF Same, Rearranges
<1>6. Same(other, list)
  BY <1>1, <1>4, <1>5, SameSymmetric
<1> QED  BY <1>6 DEF other

\* What the stages look at is what the input identifies.
LEMMA Collected ==
  ASSUME Progress, stage \in DOMAIN StageRank
  PROVE  /\ StageRank[stage] > 3 => forms = FormsOf(input)
         /\ StageRank[stage] > 5 => interfaces = InterfacesOf(input) /\ bindings = BindingsOf(input)
         /\ StageRank[stage] > 10 => defaults = DefaultsOf(input)
         /\ stage # "done"
BY DEF Progress, StageRank

\* Every stage, and a repeated Compile, keeps the invariant.
LEMMA StepOrder == TypeInv /\ OrderInv /\ [Next]_vars => OrderInv'
<1> SUFFICES ASSUME TypeInv, OrderInv, [Next]_vars PROVE OrderInv'
  OBVIOUS
<1>0. Progress /\ AnswersInv
  BY DEF OrderInv
<1> USE DEF StageRank
<1>1. CASE CheckHostAPI
  <2>1. stage = "host" /\ StageRank[stage] = 1 /\ StageRank["packages"] = 2
    BY <1>1 DEF CheckHostAPI
  <2>2. StageFaults(1, input) = HostFaults(input.hostAPI)
    BY DEF StageFaults
  <2>3. CASE HostFaults(input.hostAPI) = {}
    <3>1. Pass("packages") /\ UNCHANGED closed
      BY <1>1, <2>3 DEF CheckHostAPI, HostFaults, InputFault
    <3> QED  BY <2>1, <2>2, <2>3, <3>1, CheckedOrder
  <2>4. CASE HostFaults(input.hostAPI) # {}
    <3>1. Refuse(HostFaults(input.hostAPI))
      BY <1>1, <2>4 DEF CheckHostAPI, HostFaults
    <3> QED  BY <2>1, <2>2, <2>4, <3>1, RefusedOrder
  <2> QED  BY <2>3, <2>4
<1>2. CASE CompilePackages
  <2>1. stage = "packages" /\ StageRank[stage] = 2 /\ StageRank["forms"] = 3
    BY <1>2 DEF CompilePackages
  <2>2. StageFaults(2, input) = UNION {CompileArtifact(p) : p \in Elements(input.packages)}
    BY DEF StageFaults
  <2>3. IF StageFaults(2, input) # {} THEN Refuse(StageFaults(2, input))
        ELSE Pass("forms") /\ UNCHANGED closed
    BY <1>2, <2>2 DEF CompilePackages
  <2> QED  BY <2>1, <2>3, CheckedOrder, RefusedOrder
<1>3. CASE CollectForms
  <2>1. stage = "forms" /\ StageRank[stage] = 3 /\ StageRank["contracts"] = 4
    BY <1>3 DEF CollectForms
  <2>2. StageFaults(3, input) = Duplicates(input.packages)
    BY DEF StageFaults
  <2>3. IF StageFaults(3, input) # {} THEN Refuse(StageFaults(3, input))
        ELSE Pass("contracts") /\ forms' = FormsOf(input)
    BY <1>3, <2>2 DEF CollectForms, FormsOf
  <2> QED  BY <2>1, <2>3, PassedOrder, RefusedOrder
<1>4. CASE CompileContractArtifacts
  <2>1. stage = "contracts" /\ StageRank[stage] = 4 /\ StageRank["collect"] = 5
    BY <1>4 DEF CompileContractArtifacts
  <2>2. StageFaults(4, input) = UNION {CompileContractArtifact(x) :
                                  x \in Elements(input.interfaces) \cup Elements(input.bindings)}
    BY DEF StageFaults
  <2>3. IF StageFaults(4, input) # {} THEN Refuse(StageFaults(4, input))
        ELSE Pass("collect") /\ UNCHANGED closed
    BY <1>4, <2>2 DEF CompileContractArtifacts
  <2> QED  BY <2>1, <2>3, CheckedOrder, RefusedOrder
<1>5. CASE CollectContracts
  <2>1. stage = "collect" /\ StageRank[stage] = 5 /\ StageRank["projections"] = 6
    BY <1>5 DEF CollectContracts
  <2>2. StageFaults(5, input) = Duplicates(input.interfaces) \cup Duplicates(input.bindings)
    BY DEF StageFaults
  <2>3. IF StageFaults(5, input) # {} THEN Refuse(StageFaults(5, input))
        ELSE /\ Pass("projections") /\ forms' = forms
             /\ interfaces' = InterfacesOf(input) /\ bindings' = BindingsOf(input)
    BY <1>5, <2>2 DEF CollectContracts, InterfacesOf, BindingsOf
  <2>4. forms = FormsOf(input)
    BY <1>0, <2>1, Collected
  <2> QED  BY <2>1, <2>3, <2>4, PassedOrder, RefusedOrder
<1>6. CASE CloseBindings
  <2>1. stage = "projections" /\ StageRank[stage] = 6 /\ StageRank["references"] = 7
    BY <1>6 DEF CloseBindings
  <2>2. StageFaults(6, input) = UNION {BindingFaults(bindings[b], interfaces) : b \in DOMAIN bindings}
    BY <1>0, <2>1, Collected DEF StageFaults
  <2>3. IF StageFaults(6, input) # {} THEN Refuse(StageFaults(6, input))
        ELSE Pass("references") /\ UNCHANGED closed
    BY <1>6, <2>2 DEF CloseBindings
  <2> QED  BY <2>1, <2>3, CheckedOrder, RefusedOrder
<1>7. CASE CloseContractReferences
  <2>1. stage = "references" /\ StageRank[stage] = 7 /\ StageRank["lanes"] = 8
    BY <1>7 DEF CloseContractReferences
  <2>2. StageFaults(7, input) =
          UNION {ReferenceFaults(forms[k], interfaces, bindings) : k \in DOMAIN forms}
    BY <1>0, <2>1, Collected DEF StageFaults
  <2>3. IF StageFaults(7, input) # {} THEN Refuse(StageFaults(7, input))
        ELSE Pass("lanes") /\ UNCHANGED closed
    BY <1>7, <2>2 DEF CloseContractReferences
  <2> QED  BY <2>1, <2>3, CheckedOrder, RefusedOrder
<1>8. CASE CheckLanes
  <2>1. stage = "lanes" /\ StageRank[stage] = 8 /\ StageRank["targets"] = 9
    BY <1>8 DEF CheckLanes
  <2>2. StageFaults(8, input) = UNION {LaneFaults(forms[k], input.hostAPI) : k \in DOMAIN forms}
    BY <1>0, <2>1, Collected DEF StageFaults
  <2>3. IF StageFaults(8, input) # {} THEN Refuse(StageFaults(8, input))
        ELSE Pass("targets") /\ UNCHANGED closed
    BY <1>8, <2>2 DEF CheckLanes
  <2> QED  BY <2>1, <2>3, CheckedOrder, RefusedOrder
<1>9. CASE CloseTargets
  <2>1. stage = "targets" /\ StageRank[stage] = 9 /\ StageRank["defaults"] = 10
    BY <1>9 DEF CloseTargets
  <2>2. StageFaults(9, input) = UNION {TargetFaults(forms[k], forms) : k \in DOMAIN forms}
    BY <1>0, <2>1, Collected DEF StageFaults
  <2>3. IF StageFaults(9, input) # {} THEN Refuse(StageFaults(9, input))
        ELSE Pass("defaults") /\ UNCHANGED closed
    BY <1>9, <2>2 DEF CloseTargets
  <2> QED  BY <2>1, <2>3, CheckedOrder, RefusedOrder
<1>10. CASE CompileDefaults
  <2>1. stage = "defaults" /\ StageRank[stage] = 10 /\ StageRank["digest"] = 11
    BY <1>10 DEF CompileDefaults
  <2>2. forms = FormsOf(input) /\ interfaces = InterfacesOf(input) /\ bindings = BindingsOf(input)
    BY <1>0, <2>1, Collected
  <2>3. StageFaults(10, input) =
          UNION {DefaultFault(g, forms, input.pins) : g \in Groups(forms, input.pins)}
    BY <2>2 DEF StageFaults
  <2>4. IF StageFaults(10, input) # {} THEN Refuse(StageFaults(10, input))
        ELSE Pass("digest") /\ defaults' = DefaultsOf(input) /\ UNCHANGED <<forms, interfaces, bindings>>
    BY <1>10, <2>2, <2>3 DEF CompileDefaults, DefaultsOf
  <2> QED  BY <2>1, <2>2, <2>4, PassedOrder, RefusedOrder
<1>11. CASE Issue
  <2>1. stage = "digest" /\ StageRank[stage] = 11
    BY <1>11 DEF Issue
  <2>2. /\ forms = FormsOf(input) /\ interfaces = InterfacesOf(input)
        /\ bindings = BindingsOf(input) /\ defaults = DefaultsOf(input)
    BY <1>0, <2>1, Collected
  <2>3. \A j \in 1..10 : StageFaults(j, input) = {}
    BY <1>0, <2>1 DEF Progress
  <2>4. PICK o : Return(o) /\ IsSnapshotOf(input, o)
    BY <1>11, <2>2 DEF Issue, IsSnapshotOf, sortedInterfaceKeys, sortedBindingKeys
  <2>5. stage' = "done" /\ input' = input /\ outcomes' = outcomes \cup {o}
    BY <2>4 DEF Return
  <2>6. Answers(input, o)
    BY <2>3, <2>4 DEF Answers
  <2> QED  BY <2>5, <2>6, OneMoreAnswer DEF OrderInv, Progress
<1>12. CASE Recompile
  <2>1. stage' = "host" /\ outcomes' = outcomes
    BY <1>12 DEF Recompile
  <2>2. PICK in \in Inputs : Rearranged(input, in) /\ \A o \in outcomes : Answers(in, o)
    BY <1>0 DEF AnswersInv
  <2>3. PICK ps \in SetToSeqs(DOMAIN input.packages), is \in SetToSeqs(DOMAIN input.interfaces),
             bs \in SetToSeqs(DOMAIN input.bindings), ds \in SetToSeqs(DOMAIN input.pins) :
          input' = [input EXCEPT !.packages = [i \in DOMAIN ps |-> @[ps[i]]],
                                 !.interfaces = [i \in DOMAIN is |-> @[is[i]]],
                                 !.bindings = [i \in DOMAIN bs |-> @[bs[i]]],
                                 !.pins = [i \in DOMAIN ds |-> @[ds[i]]]]
    BY <1>12 DEF Recompile
  <2>4. DOMAIN input = {"hostAPI", "packages", "interfaces", "bindings", "pins"}
    BY DEF TypeInv, IsInput
  <2>5. /\ input'.hostAPI = input.hostAPI
        /\ input'.packages = [i \in DOMAIN ps |-> input.packages[ps[i]]]
        /\ input'.interfaces = [i \in DOMAIN is |-> input.interfaces[is[i]]]
        /\ input'.bindings = [i \in DOMAIN bs |-> input.bindings[bs[i]]]
        /\ input'.pins = [i \in DOMAIN ds |-> input.pins[ds[i]]]
    BY <2>3, <2>4
  <2>6. \A part \in Parts : IsList(input[part]) /\ IsList(in[part]) /\ Same(input[part], in[part])
    BY <2>2 DEF Rearranged
  <2>7. ASSUME NEW part \in Parts, NEW order \in SetToSeqs(DOMAIN input[part]),
               input'[part] = [i \in DOMAIN order |-> input[part][order[i]]]
        PROVE  IsList(input'[part]) /\ Same(input'[part], in[part])
    <3>1. IsList(input'[part])
      BY <2>6, <2>7, Reordered
    <3>2. Same(input'[part], input[part])
      BY <2>6, <2>7, ReorderedSame
    <3> QED  BY <2>6, <3>1, <3>2, SameTransitive
  <2>8. \A part \in Parts : IsList(input'[part]) /\ Same(input'[part], in[part])
    BY <2>5, <2>7 DEF Parts
  <2>9. Rearranged(input', in)
    BY <2>2, <2>5, <2>6, <2>8 DEF Rearranged
  <2>10. AnswersInv'
    BY <2>1, <2>2, <2>9 DEF AnswersInv
  <2>11. Progress'
    <3>1. StageRank["host"] = 1 /\ 1..(StageRank["host"] - 1) = {} /\ "host" \in DOMAIN StageRank
      OBVIOUS
    <3> QED  BY <2>1, <3>1 DEF Progress
  <2> QED  BY <2>10, <2>11 DEF OrderInv
<1>13. CASE UNCHANGED vars
  BY <1>13 DEF vars, OrderInv, Progress, AnswersInv
<1> QED
  BY <1>1, <1>2, <1>3, <1>4, <1>5, <1>6, <1>7, <1>8, <1>9, <1>10, <1>11, <1>12, <1>13 DEF Next

\* Where all version numbers fit, a Compile is a function of its artifacts: however
\* the caller orders its slices and Go visits its maps, every Compile of an input gives
\* the same diagnostics or the same digest.
THEOREM OrderIndependentAlways ==
  ASSUME VersionsFit
  PROVE  Spec => []OrderIndependent
<1>1. OrderInv => OrderIndependent
  <2> SUFFICES ASSUME OrderInv PROVE OrderIndependent
    OBVIOUS
  <2>1. PICK in \in Inputs : \A o \in outcomes : Answers(in, o)
    BY DEF OrderInv, AnswersInv
  <2>2. \A o, p \in outcomes : o = p
    BY <2>1, AnswersOnce
  <2>3. CASE outcomes = {}
    BY <2>3, FS_EmptySet DEF OrderIndependent
  <2>4. CASE outcomes # {}
    <3>1. PICK o : outcomes = {o}
      BY <2>2, <2>4
    <3> QED  BY <3>1, FS_Singleton DEF OrderIndependent
  <2> QED  BY <2>3, <2>4
<1>2. Spec => []TypeInv
  BY InitTypes, StepTypes, PTL DEF Spec
<1>3. Spec => []OrderInv
  BY <1>2, InitOrder, StepOrder, PTL DEF Spec
<1> QED  BY <1>1, <1>3, PTL
=============================================================================

