# Takoform in TLA+

Models, model-checking runs and machine-checked proofs for the Go packages and
the site deployment of this repository. The subject is what the code has to get
right across several processes: a client that loses responses and calls again,
Hosts that replay recorded answers, publishers that are not honest, uploads that
share blobs, waits under three deadlines, a directory that changes while it is
verified, two operators who publish at once; and the algorithms whose memo, order
or stages a unit test hardly reaches. Paths below are relative to `src/`.

## 1. The system and its components

No Host is implemented in this repository. It holds the *client* of the Host
API, the *verifier* of packages and revocations, a *compiler* of form snapshots,
with command-line tools and conformance runners around them, and the site.

| Component | Source | State it keeps | Operations |
|---|---|---|---|
| Resource lifecycle client | `hostclient/{resources,hostclient,errors,types}.go` | none of its own: the caller keeps uid and generation; keys are derived | Apply, Import, Delete, Observe, Get, Prepare, Validate |
| Operations | `hostclient/operations.go` | none; an `OperationID` the caller may persist | Await, Get, Cancel, result extraction |
| Artifact upload | `hostclient/artifacts.go` | an upload session at the Host, inside one call | Upload, Abandon, HeadBlob, GetManifest |
| Discovery | `hostclient/hostclient.go` | `apiBase`, `Discovery` of a `Client`, unsynchronized | Discover, requireReady |
| Support profiles | `hostclient/support.go` | none | List/Get, validation |
| Revocation checkpoints | `formpackage/schema.go`, `trust/revocation.go`, `cmd/takoform-trust` | a pin (persisted by the caller), a capability (in memory) | Validate, Advance, Verify, CheckNotRevoked |
| Package verification | `formpackage/verify*.go`, `secure_open_*.go` | a directory another process may change, a private copy of an `fs.FS` | VerifyDirectory, VerifyFS |
| Schemas, policy, identity | `formpackage/{schema,policy,publication_identity,conformance}.go` | three memos inside one call | closure proof, work estimates, document validation |
| Canonical JSON | `formpackage/{canonical,ijson}.go` | none | canonical bytes, digests |
| Snapshot compiler | `snapshot/*.go` | maps inside one call | Compile and its stages |
| Publisher trust | `trust/{verify,policy}.go` | none | Sigstore bundle, policy |
| Site deployment | `scripts/site-deploy.mjs` | a provider's history and public aliases | production, preview, cutover verification |
| Runners, tools, other scripts | `genericconformance`, `conformance/v2`, `cmd`, `scripts` | files | drivers, flag parsing, builds |

How they interact. A caller (a Terraform provider, typically) uses the client
over HTTP; the Host looks every keyed mutation up by its `Idempotency-Key`
before it resolves the resource, then checks fences, and answers directly or
with an Operation the client polls. A Host operator verifies packages and
revocation checkpoints with `formpackage` and `trust`, storing the pin it is
given. Verification proves each inline schema portable before it lets fixtures
be validated. The snapshot compiler turns verified packages into what a Host
serves. The site publishes the normative sources and schemas all of them name.

What is hard: requests that arrive after their caller has left; a retry after a
lost response; replayed answers that outlive what they report; an Operation
that commits, fails or expires while the client waits; deadlines that compete; a
publisher that shows different chains to different Hosts; a crash between
verification and persistence; blobs collected between two steps of an upload;
files replaced between a listing and a read; verdicts that must not depend on
the order in which Go visits a map; a publication raced by another one.
`PROJECT.json` lists each of these under `hazards`, at its line, with the
properties that cover it.

What makes each component correct:

* lifecycle: what the client reports is true of the incarnation the caller
  named (gone, created, untouched), and nothing takes effect twice;
* operations: a wait ends, not before its deadline, and returns what was there;
* upload: success means this manifest was committed; a failure is the Host's;
* revocation: a pinned denial is never contradicted, a fork never healed, and a
  Host is never stuck behind its own pin;
* package verification: a verified report is one closed package, whole and, for
  an `fs.FS`, of one moment;
* closure proof: its verdict is that of a definition without memo or order, and
  a proved schema admits no property nothing declares;
* snapshot: closed, and a function of the set of inputs, not of their order;
* site: a success was served, over the predecessor it was proved against.

## 2. Modules

| Module | Models | Proofs |
|---|---|---|
| `ResourceLifecycle` | one resource name, several clients, network, Host | `ResourceLifecycleProofs` |
| `OperationAwait` | one wait under a clock | `OperationAwaitProofs` |
| `ArtifactUpload` | uploads and abandons, several clients, network, Host with garbage collection | `ArtifactUploadProofs` |
| `RevocationLog` | abstract: a log of denials per Host that only grows | |
| `RevocationChain` | documents, pins, capabilities, crashes, a publisher | `RevocationChainProofs` |
| `PackageVerify` | the verifier of one package and a process that edits its directory | `PackageVerifyProofs` |
| `SchemaProof` | the closure proof and the two work estimates, call by call | `SchemaProofProofs` |
| `SnapshotCompile` | the stages of Compile over whole inputs | `SnapshotCompileProofs` |
| `SiteDeploy` | runs of the deploy command, worktrees, provider, aliases | `SiteDeployProofs` |
| `MC*` | the instances TLC checks | |

### ResourceLifecycle

State: at the Host, the incarnation holding the name (`live`: uid, generation,
spec), the next uid, the idempotency `records`, the Operations (`ops`, named by
the call that was accepted); in the network, the set of requests in flight
(`net`: unordered, each delivered once, at any time or never) and the response
on its way to each client (`inbox`); per client, the `call` it is in and the
representation it `held` last. `effects` is history.

One action per step of the code: `StartCall` (argument checks, key derivation),
`PrepareResource` / `PrepareRefused` / `PrepareFails` (EnsureFormAvailable and the
prepare), `SendRequest` and the four ways an attempt of `Client.do` ends without
a result (`TransportError`, `BodyUnreadable`, `RetryableError`, `Refused`), the
success paths (`DirectResult`, `OperationAccepted`, `PollDone`) and their
failures (`UnverifiableResult`, `PollFailed`, `PollRefused`, `PollAbandoned`,
`RetryCancelled`). What a failed wait makes of the call is `EndWait`: apply and
import wrap it (`acceptedMutation`), a delete and an observe return it as it is, so
that a refused poll, which is not tried again, leaves a delete with a structured
error and an Operation that may still be pending.
A call that gave up leaves its request in `net`: the Host may still perform it.
`GetResource` is the unkeyed read through which a caller obtains fences. A caller
names a fence only as it read it off a verified representation, as
`DeleteResource`'s comment argues; the code would also accept a create that names
a uid, which no caller holds one for.

Idempotency keys are the tuples the code digests (`incarnationKey`,
`hostclient.go:546`), with the principal by which the Host scopes them. A digest
is its argument. `prepareDigest` is the spec, uid and generation it binds.

The Host is external and assumed to behave as the client's comments, its test
fixture `incarnationHost`, `spec/host-api/v1.md` and decision 0011 describe:

* the key is looked up first; a recorded answer is replayed; the same key with
  another request is refused; only successes are recorded;
* a record is retired with the incarnation it reports (`RetireRecords`), the
  record of a delete or of a failed commit by nothing. A Host may also expire
  records by age; the runs and theorems assume it keeps them while requests for
  their key are in flight or will be made, without which no client could retry
  a delete safely;
* every fence is checked before anything is mutated, a structured error to the
  mutating request (retryable or not, `deadline_exceeded` included) means nothing
  was, and a failed Operation committed nothing;
* the read of an Operation is refused as `operation_not_found` or as unavailable,
  never as `resource_not_found` (`spec/host-api/v1.md:262`), which is why the bare
  comparison of codes at `resources.go:595` takes no poll for the resource's absence;
* a prepare on an existing resource requires the generation; `expectedUid` is
  compared; a commit repeats the checks against the incarnation it was accepted
  for; a terminal Operation's record may expire.

### OperationAwait

One call of `AwaitOperation` (entry "resume") or of `awaitOperation` on the
Operation of a 202 (entry "accepted"), with a clock. `PollEnd` is the choice of
deadline (`operations.go:491-500`), `Delays` the wait of `waitForPoll` with its
jitter, `NextWindow` the doubling capped at `pollMaxDelay`. `pollCtx` ends
waiting and reads alike (`DeadlinePasses`). Times are small numbers standing for
250 ms, 15 s and 10 min; what matters is their order, and the instances put the
context's end before and after the fallback, and hints on both sides of the cap.

### ArtifactUpload

`UploadArtifact` is the start with a nonce per call, one PUT per missing blob
and the commit keyed by session and manifest; `AbandonUpload` is a call too.
Every keyed step shares the attempts of `Client.do`; a PUT is not retried. The
order in which missing blobs are sent is the Host's list, any order here. The
Host may answer a start with a session that is open already, even one of another
manifest (`Verdict`'s comparison is there for that), and collects manifests with
their sessions and blobs no committed manifest needs, at any moment.

### RevocationLog and RevocationChain

`published` is every document a publisher ever signed, and every one can be
offered to every Host at any time: mirrors, rollback and reordering are a choice
of `d` in `VerifyRevocationCheckpoint`. A digest is the index of a document; no
two documents are equal, and a document can name only an older one, which is
what collision resistance gives. `ValidCheckpoint`, `Starts`, `Extends` and
`NewPin` are the checks of `ValidateRevocationCheckpoint` and
`AdvanceRevocationCheckpoint` in their two profiles. The verification yields a
capability in memory; the pin is stored by the caller in a later step
(`PersistPin`), and a crash may come between. Nothing makes the caller store it
before it asks about packages: `check-not-revoked` verifies and asks in one process
and prints no pin when a package is revoked (`cmd/takoform-trust/main.go:113-139`).
So only pins bind, and `PinnedDenialHolds` speaks of what a pinned checkpoint lists,
asked at any moment. Every verification is given the pin the Host has stored
(`--previous-pin` may be left out, and then nothing ties the answer to an earlier
one); a Host is one sequential process that keeps the capability verified last.
`AppendOnlyLog` is the refinement: the pins implement `RevocationLog`.

### PackageVerify

The file system is explicit: two directories of which one is at the package's
path, files with a content, a mode and a modification time, entries that come
and go. Another process rewrites (in place, in two halves), replaces, unlinks,
creates, changes modes and swaps the directory, a bounded number of times, at any
point between the system calls of the verifier. The verifier opens the root,
lists, fences (`RootStable`, `SameStableMetadata`), reads each file in two parts
with its lstat, open, fstat and second lstat, and then makes the checks of index,
payloads, Definition, fixtures and content policy, in the code's order of errors.
`VerifyFS` takes the inventory, stages a private copy, verifies that, takes the
inventory again and removes the copy, and any step may fail. A content is its own
digest; decoding, schemas and policies are attributes of a content (`Doc`).
`Beside` is what the other directory holds at the start. The walk goes by the
package's path and not by the directory held, so it may list another directory
that has the path for a moment: `call.listed` remembers which one it was, and
`RootAsListed` claims that nothing else is in the root only for the walk that
listed that root (what is listed is there in either case).

### SchemaProof

Three depth-first passes over the nodes of a schema: the portable closure proof
(`validatePortableSchemaStructure`), the structural work estimate and the work
estimate of a fixture. A call is a frame of `stack`; a step enters a node, takes
the next edge or returns, and what Go keeps in a map is visited in any order.
`memo` is the code's memo of each pass with the key the code uses (`MemoKey`),
`Survives`, `Absorb` and `Malformed` the conditions under which a remembered node
is taken, a child's result joined and a node refused. Budgets (`MaxDepth`,
`MaxOps`, `MaxWork`) are the code's limits. A schema and a fixture are finite
(`SchemasAssumption`, `FixturesAssumption`): both are decoded from a file the
package bounds. What a pass should decide is stated apart from the walk, as
functions over levels (`longest`, `evaluations`, `fixtureEvaluations`) that
expand every repetition and remember nothing.

### SnapshotCompile

One action per stage of `Compile`: host version, packages, Forms, contracts,
collection of annotations, Binding projections, references, host lanes, targets,
default pins, digest. A stage that finds faults answers with its diagnostics, all
of them, sorted. `LessKey` is `lessKey`, with the precedence of versions as a
constant (`SemVer`); `sort.Slice` is an insertion sort on a sequence in any order
(what Go does for short slices, and all that matters is where a comparison that is
no order shows). `Recompile` gives the same artifacts again in another order.
What a check finds is a function of what it is given (`ReferenceFaults` and its
like), so that theorems can speak of it apart from the state. `InputShape` says
what the parts of an input are: a schema is a document whose nodes are numbered
downwards, and only a `$ref` leads back up.

### SiteDeploy

Each run of `site-deploy.mjs` is a process: gate and build of its worktree, read
of the provider's list and of the public bytes, proof of the candidate (edition,
schemas, predecessor), the second look at list and worktree, the upload, the
readback of the immutable URL and of every alias until they match or attempts or
the deadline run out, the last look at the list, and the choice of a rollback
candidate when it fails. Worktrees change under `Disturbed` runs; the provider
promotes, rolls back, and its aliases follow late and one by one.

## 3. Runs

| Run | Asks | Bounds |
|---|---|---|
| `lifecycle_retry` | deletes, imports and re-creations against replayed, retried and late requests | 2 clients, 2 attempts, 4 calls, 2 incarnations, generation 1 |
| `lifecycle_operations` | mutations that are Operations, reads of them refused, updates, observes | 1 client, 2 attempts, 4 calls, 2 incarnations, 2 generations, 2 specs |
| `chain_forks` | a publisher without scruples, two Hosts, both profiles | 4 documents, sequences to 2, 4 entries |
| `await_operation` | deadlines, hints, terminal answers, termination | clock to 9, after every deadline |
| `upload` | uploads with shared blobs, abandons, collection | 2 clients, 2 calls, 2 sessions, 2 attempts |
| `snapshot` | every stage, on inputs good and bad, compiled twice | up to 3 packages, 2 contracts of each kind, 4 schema nodes |
| `schema_proof` | every tree of three nodes with references, and chosen schemas at the limits | depth 3, 10 operations, 12 evaluations |
| `package_verify` | some forty packages, two of them edited at any moment | 2 directories, 2 edits, 3 listed files, small size limits |
| `site_deploy` | two operators, one in a disturbed worktree | 2 attempts, 3 deployments, 3 worktree states |

and three that TLC refutes (section 5): `lifecycle_seen_success`,
`await_deadline`, `snapshot_order`.

Why the bounds are enough to be interesting. A stale replay needs two
incarnations of the name and three calls (create, delete, re-create); the fourth
leaves room for a lost response and its retry. Generation 1 in `lifecycle_retry`
is the hard case: the re-created resource has the very generation the old fence
names. `lifecycle_operations` keeps one client, since its requests left behind by
calls that gave up, its pending Operations and its reads already interleave. A
fork needs two Hosts and two documents with one predecessor; healing it a document
more. In `upload`, a stale commit needs an upload, a collection and another
upload. In `package_verify`, one edit can swap what was listed, the second can
swap it back; the limits are met and passed by contents of size 1 to 4. In
`schema_proof`, a node shared by two parents at different depths, a cycle, a
budget exactly met and one passed all fit in three nodes or in the chosen
schemas. `snapshot` has versions that text and precedence order differently, two
of one precedence, duplicates, mispinned artifacts, nested and cyclic annotations.
`site_deploy` needs a deployment to replace, one of each operator's, and two
attempts so that an alias that moved on is seen. Bounds on calls, documents, edits
and deployments make these systems stop, hence `CHECK_DEADLOCK FALSE`; in
`lifecycle_operations` and `lifecycle_retry` a `GetResource` is always possible and
deadlock is checked.

Symmetry is used over clients (one principal), specs, and the Hosts of
`chain_forks`, in runs of safety properties; no property and no initial state tells
them apart. (`lifecycle_retry` also checks an action property and `chain_forks` a
refinement without liveness, both of each step by itself.)

Each property has a mutant of the code's definition that its run refutes: the key
before the uid was added to it, a key without fence or session, an upload start
without nonce, a retry after a lost response, any refusal taken for not-found, a
record never retired, a wire without `expectedUid`, a chain that may be restarted,
one whose older entries are not compared, a pin that keeps old entries, a fallback
deadline that always or never applies, a capped hint, a comparison without the
digest, a stage that skips its Bindings, contract annotations in another order, a
memo that forgets depth or role, a cycle taken for a proved node, a fence without
time or with mode and size alone, a capability returned before clean-up, a
rollback candidate that is merely found in the list, one matching alias taken for
all of them.

The type invariants of `ResourceLifecycle`, `RevocationChain`, `OperationAwait`,
`ArtifactUpload` and `SiteDeploy` are proved and not run as well.

Fairness. Two runs have a liveness property. In `OperationAwait` the client's
steps are taken when they stay enabled (`WF`: a goroutine that can run does), and
time passes (`SF` of `Tick`, which is blocked while the client has something to do
at this instant). The Host owes nothing: it may never answer. A wait on a
persisted id without any deadline in the context may hang in its first read, and
`AwaitEnds` excludes it (see `DeadlineBoundsCall` below). A Host that always
answers at once makes the jitter 0 conceivable for ever; strong fairness of the
clock excludes that, as real polling does. In `SiteDeploy` the only thing assumed
is that the deadline of a readback elapses (`FairSpec`: `WF` of `DeadlineElapses`,
the timer of `withReadbackDeadline`); reads may never be answered. That covers the
two waits for the readback and no other read: those of the provider's list have no
deadline of their own. `--verify-cutover` reads without that deadline and is not
claimed to end.

## 4. What is proved

For every value of the constants, by TLAPS.

`ResourceLifecycleProofs`:

* `TypeCorrect`: `TypeOK`. `TypeInv` adds that the call numbers by which an
  Operation is read exist.
* `RefusalsAreClean`: `RefusedMeansNoEffect`, of every structured error but a
  refusal to answer the read of an accepted Operation, which says nothing of it.
  `CleanInv` says call numbers are fresh, that at most one request of a call is in
  flight, that as long as one is, or the client has read an error, the call has
  neither an Operation nor an effect, and that a failed Operation has no effect.
  The property alone is not inductive: it speaks of the return, and the reason is
  what was true at every attempt before it.
* `DeleteSuccessIsTrue`, `NotFoundIsTrue`: `DeleteSuccessMeansGone` and
  `NotFoundMeansGone`. `GoneInv` carries the truth of an answer along its way:
  a recorded, in-flight or Operation answer that says "deleted" or "not found"
  under a key speaks of the incarnation that key names (`RecordTruth`,
  `OperationTruth`, `ClientTruth`), a request carries the key of the call it is
  of (`OwnKey`), and an incarnation that is gone never returns (`UidsIssued`).
  The uid in the key is what makes this inductive.

The second part of the module proves the other properties. Two lemmas sum up what
any step of a client (`ClientFrame`) and of the Host (`HostFrame`) may do, and each
invariant is kept by the sums:

* `KeyNamesOneRequestAlways`, `UpdateTouchesOnlyNamedAlways`, from `KeyedInv`:
  everything that travels is in the key, so a record, an Operation or a request
  under a key is the request the key stands for.
* `DeleteEffectOnceAlways`, `RetriedDeleteReplaysAlways`, from `OnceInv`: a delete
  has no body, so the same delete has the same key; one that was accepted or
  performed leaves a record, which reports no incarnation and hence is never
  retired; it has one Operation, pending only until the effect.
* `CreateReturnsNoGhostAlways`, assuming `RetireRecords`, from `FreshInv`: what
  holds the name is never an incarnation that was dead when a call was made, and
  a record that is replayed still names what holds it.

`RevocationChainProofs`:

* `ChainTypeCorrect`, from `ChainInv`: documents were valid when signed and name
  older ones; a pin is that of a document; a capability is the pin's or that of a
  document the pin accepts.
* `AppendOnly`: `RevocationChain` implements `RevocationLog`.
* `FailsClosed`: `PinnedDenialHolds`, whenever the question is asked, from the
  invariant that whatever a checkpoint a Host ever pinned lists is in the log behind
  its pin, and that a capability lists all of that log.
* `ReservedNeverPinned`: `NoReservedVersion`.
* `NeverStuck`: `NeverWedged`, a well-formed successor of the document a Host has
  pinned is accepted by the pin.
* `ForksNeverJoin`: `HistoriesAgree`, from the invariant that each document in a
  history names the one before it.

`OperationAwaitProofs`: `AwaitTypeCorrect`, `NeverCutShortAlways`,
`HintHonouredAlways` and `TerminalIsReturned`, whatever the deadlines, hints and
delays. `AwaitInv` says how `pollEnd` relates to the deadline the documentation
promises (it is never earlier, since the clock that starts it is not), and that
a timer fires no earlier than the hint asked.

`ArtifactUploadProofs`: `SuccessMeansCommittedAlways`, `AskedOnlyForAbsentAlways`
and `MissingOnlyAfterLossAlways`, for any number of clients, blobs, manifests,
sessions and retries. `UploadInv` states what a call may conclude of a session
(`Trusts`): what is settled in it was committed in the call's lifetime, what is
missing was absent in it, and what is not missing is stored unless something was
lost. It has to hold of answers on their way (`InboxOK`) and of recorded starts
(`RecordOK`), where the nonce in the key makes a record of this call and no other;
a step of the Host keeps it because histories only grow (`Frame`, `TrustKept`).

`SnapshotCompileProofs`, for every input of the shape `InputShape` describes:

* `CompileTypeCorrect`: `TypeOK`; a repeated Compile is given the same artifacts.
* `SnapshotsAreClosed`: `GraphClosed`, from `StagesInv`: what each stage that let
  the input pass has established, which no later stage disturbs.
* `RequirementsBoundAlways`: `RequirementsBound`, whatever the schemas, cyclic
  `$ref`s included. That the recursion of `contractAnnotationsWithBinding` ends is
  part of the proof: a document numbers its nodes downwards and no `$ref` is
  visited twice, so every call is nearer to the deepest there could be (`Far`,
  `CallsNearer`), and the function of all calls exists (`WalkExists`). The calls
  made from the root meet every node in every context it can be reached in
  (`MetClosed`, `ReachableMet`), although a call stops at a `$ref` being visited:
  the call that visits it has met what it leads to (`VisitingWasCalled`).
* `OrderIndependentAlways`: `OrderIndependent`, if every version number fits in 64
  bits (`VersionsFit`); the run `snapshot_order` shows that it fails otherwise.
  What Compile answers is written as a function of its input (`StageFaults`,
  `Answers`), and `OrderInv` says that every answer given so far is that function's.
  A rearranged input has the same faults and the same Snapshot (`FaultsSame`,
  `AnswersSame`). The faults of a stage are finitely many (`StageFaultsFit`), and a
  list sorted by a strict total order is the same whatever order it was met in
  (`SortSame`); texts, diagnostics and identities are so ordered (`LexOrders`,
  `DiagnosticOrders`, `KeyOrders`), the last only because of `VersionsFit`. Go's sort is
  modelled by an insertion sort, which for a strict total order has the same result.

`SchemaProofProofs`:

* `TypeInvariant`: `TypeOK`. `WalkInv` adds what makes a walk a path: each frame
  is a call the frame below it makes, what is on the stack is `visiting` in the
  memo and nothing else is until the walk fails, and the edges a frame has left
  to follow are edges of its own call.
* `ProofCertifies`: `Certified`. `ProofInv` says of each proved node that all it
  reaches is proved or on the stack (`Settled`), and that what it claims to admit,
  evaluate and require agrees with what its children claimed. A cycle would give
  a node a depth greater than its own, which is why one is never proved.
* `EstimatesNeverFail`: the two estimates never answer "cyclic schema reference"
  (`schema.go:1709`, `schema.go:1838`). What they descend into has a depth the
  proof recorded, and along the stack these fall (`EstimateInv`); the edges the
  estimates follow are among those the proof followed (`StructureWithinProof`,
  `InstanceWithinStructure`).
* `ProofCloses`: `NoStrayProperty`. A proved schema admits an undeclared name
  nowhere below it. The argument is an induction over the levels of admission,
  carried out as a least counterexample: of those at which a proved node takes the
  name in, take the least.
* `VerdictDecidedAlways`, `FixtureDecidedAlways`: `VerdictDecided` and
  `FixtureDecided`. Whatever order a map is visited in and whatever the memos
  remember, a pass decides what the recursive definitions `Portable`,
  `Evaluations` and `FixtureEvaluations` say. The argument has five parts, one
  conjunct of `AllKnown` each (`DepthInv`, `SpentInv`, `WorkInv`, `DecidedInv`) but
  for the first:
  * the definitions mean what they say: a recursion over levels has a solution
    (`Iterated`), and a finite set has a largest element (`MaxOf`) and a sum
    (`SumRaised`, `SumWith`);
  * the depth kept for a proved node is the longest path below it (`DepthInv`), so a
    call refused for its depth, or met again while in progress, lies on a path the
    schema really has (`TooDeep`, `CycleDeep`), and a finished walk has found none;
  * the operations counted are a sum over the nodes met, each having paid for
    itself, for its literal once it is proved and for the references it has
    followed (`SpentInv`); nodes met are reachable, so an exhausted budget exceeds
    what the definition allows (`Overspent`), and a finished proof has paid it all;
  * what the memo of an estimate holds is the node's count of evaluations, repeated
    ones included, cut at the limit (`WorkInv`, `Exact`); a frame has counted all
    its edges but those it has left or waits for. `MaxDepth` + 1 levels of the
    recursion are enough because proved depths fall along edges (`Stable`);
  * so each step that rejects has found a reason in the definition
    (`RejectedNotPortable`), and each step that passes has excluded them all
    (`PortableProved`, `DecidedStep`).

`PackageVerifyProofs`: `VerifyTypeCorrect` (`TypeOK`), `RootAsListedAlways`,
`ReadsAreCurrentAlways`, `CapabilityAfterCleanupAlways`, `FilesCoexistedAlways` and
`ReportClosedAlways`, for any package, any edits and any number of them.

* `FenceInv` rests on one fact of the file system: a change gives a file, or a
  directory whose entries change, a time nothing had before (`Fenced`). So a time
  equal to the one remembered says that nothing changed since (`RootUnedited`,
  `FileUnedited`), and the identities compared say it is the same file or
  directory. A fence that does not compare times (the mutants) has no such
  invariant, and a file system whose times are coarser than its edits voids it.
* `CoexistInv` adds where each file of the directory comes from, and that no two
  contents a path ever had share a time: what was read of a path is what the path
  held at one moment, the same for all of them.
* `ClosedInv` says that an accepted package was accepted as it was read. Its index
  lists each file in the order of the paths' ranks, hence once, so the sum of the
  sizes over the places of the list is the sum over the files; that the two sums
  agree is an induction over the places (`SumsExist`, `SumsAdd`, `SumsEqual`).

`SiteDeployProofs`: `ExactPredecessorAlways`, `OneSuccessorAlways`,
`SuccessWasServedAlways` and `CandidateQualifiedAlways`, for any number of runs,
worktrees and deployments. The invariant says that the list only grows and its
records never change, so what a run found between two of its looks stays true of
those places, and that the last look, after the upload, finds the predecessor that
was proved.

The assumptions are those the modules name on their constants, `VersionsFit` for
`OrderIndependentAlways` alone, and the behaviour of Host, provider and publisher
listed above, which the modules' actions state.

Only model-checked are the liveness properties `AwaitEnds` and `ReadbackEnds`,
which need `ENABLED` and are out of the prover's reach. An induction over data
cannot be stated once for any operator, the library's theorems taking an
operator as a parameter; where a proof needs one over a given function (the walk
over a schema, the sums over a list) it takes a least counterexample instead
(`LeastNatural`).


## 5. Where the repository disagrees with itself

Each of the first three is a run that TLC refutes; `PROJECT.json` quotes the lines.

* `lifecycle_seen_success`: a success status whose body cannot be read is a plain
  error, although `errors.go:20` says it is an `AcceptedError`.
* `await_deadline`: the deadline of `AwaitOperation` does not bound its first read.
* `snapshot_order`: with a version number beyond 64 bits, which the schema's pattern
  admits, `lessKey` is no order, and the digest depends on the order of a map.

Observed, and not turned into runs:

* lifecycle: an update repeated after a lost response is refused at its own second
  prepare (`resources.go:302-305`) and does not replay, as `hostclient.go:528-530`
  says; `ObserveResource` compares the generation and never `metadata.uid`
  (`resources.go:516`, against 458-459); a create repeated after its Operation
  failed is answered with the failed Operation, since the key is deterministic
  (`hostclient.go:546`, against `spec/host-api/v1.md:264-266`);
  `hostclient.go:541-544` says a retirement rule "this lane has not stated", which
  v1.md:151 and decision 0011 state; `errors.go:26` says an error before acceptance
  means nothing was mutated, which no client can know of a lost response; a delete
  whose poll is refused returns that refusal bare, while its Operation may be
  pending (`resources.go:593-598`, `operations.go:510-515`; `errors.go:26` speaks of
  the `AcceptedError` of a PUT or POST, which a delete never returns); the uid
  of a delete is not on the wire, so a delete of a stale incarnation whose
  replacement has the same generation removes the replacement (documented with the
  fence);
* upload: `UploadArtifact` returns no uploadId on failure, so its caller has
  nothing to abandon;
* revocation: a Host left with only the pin of checkpoint n cannot verify
  checkpoint n again after a restart; a package reported revoked by a document whose
  pin was not stored may be clear by an older or a forked one
  (`cmd/takoform-trust/main.go:113-139`);
* discovery: `Discover` writes `c.Discovery` and `apiBase` without a lock, and a
  second one that fails leaves a `Client` without `apiBase` (`hostclient.go:167`);
  no caller in the repository discovers twice or shares the `Client` before;
* support: `GetFormSupport` never checks the kind of the profile it is given;
* packages: a negative fixture counts as failing with `schema_validation_failed`
  whatever made it fail (`verify.go:285`); a file added to a subdirectory after the
  walk is not noticed by `VerifyDirectory` (`RootAsListed` says so: it speaks of
  what is outside subdirectories); nor is one in the root that was swapped away
  while the walk listed another directory at the path, the handle being fenced but
  not walked (`verify.go:389`; the comment of `VerifyDirectory` asks for an
  immutable directory and calls the fences defense in depth);
* snapshot: `Materialize` (`snapshot.go:697-735`) follows neither `$ref` nor
  `allOf` for defaults, although its comment says recursively;
* site: after an upload whose output has no URL, or a list that cannot be read
  again, the candidate found before the upload is still reported, although the
  comment near `site-deploy.mjs:1660` says it is not automatically qualified (the
  reasons `CandidateQualified` is claimed for exclude these); the source state is
  read once before the gate, so a checkout during the gate publishes bytes under
  another commit's label (header, lines 13-15); after a provider's rollback or a
  bad live deployment routine publication is refused until the provider is
  repaired, while the messages say to repair forward; an executed
  `--initial-cutover` is dead code since `V2_SPEC_DOCUMENTS` is not empty; between
  the last list (1569) and the upload (1594) two operators may race, which only the
  look afterwards detects (`OneSuccessor`: then not both succeed).

## 6. Not modelled, and what is next

Left out for good: signatures and policies (cryptography), canonical JSON, names
and embedded schemas (layout of bytes), texts of diagnostics, the argument
patterns of the client, the builds and file checks of the other scripts, the
website. Discovery and support profiles are comparisons of documents read once;
every caller discovers before it shares its `Client`, so their interleavings are
not states the programs here reach. The readers of a Snapshot keep no state. Two
hazards in `PROJECT.json` (`resources.go:304`, `resources.go:516`) are
observations of the list above and have no property that holds; a third, the
width of a `Retry-After` (`errors.go:225`), is not modelled.

Next, in this order:

1. `CancelOperation` as a keyed call and the caller's resumption of a recorded
   `OperationID` (`IsOperationNotFound`, `OperationResultResource`), over
   `ResourceLifecycle`.
2. The v2 conformance probe, which makes calls of a protocol in order.

## 7. Running it

    tlc -config LifecycleRetry.cfg MCResourceLifecycle
    tlapm ArtifactUploadProofs.tla

`PROJECT.json` names the module and configuration of every run.
