----------------------------- MODULE SiteDeploy -----------------------------
(***************************************************************************)
(* Publication of the site (scripts/site-deploy.mjs): runs of the deploy   *)
(* command by several operators, against a provider whose history they     *)
(* share and whose public aliases follow it late, each run in a worktree   *)
(* that may change under it.  "production" publishes, "preview" uploads to *)
(* a branch no alias follows, "verify" (--verify-cutover) only reads.  A   *)
(* run without --execute and --status change nothing and are left out; an  *)
(* executed --initial-cutover is refused outright since V2_SPEC_DOCUMENTS  *)
(* is not empty.                                                           *)
(*                                                                         *)
(* A deployment is the place in the provider's list its immutable URL has; *)
(* its bytes never change.  The bytes of a site are a record of the parts  *)
(* the command compares:                                                   *)
(*   pages    the pages, with the redirects and the routes that must not   *)
(*            exist                                                        *)
(*   sources  the normative sources of Host API v2                         *)
(*   schemas  the schemas at their immutable identities                    *)
(***************************************************************************)
EXTENDS Integers, Sequences, FiniteSets

CONSTANTS
  Runs,            \* invocations of the command
  Trees,           \* what a worktree may hold
  CommitOf,        \* tree -> its HEAD, a number that grows along main
  Clean,           \* the trees without local changes
  LedgerOf,        \* tree -> the schemas its ledger names
  BuildOf,         \* tree -> the bytes "build:site" makes of it
  Original,        \* the sources of the original edition (INITIAL_V2_RAW_SOURCE_DIGESTS)
  First,           \* the bytes of the deployment that is public at first
  MaxAttempts,     \* PRODUCTION_READBACK_MAX_ATTEMPTS
  ModesOf,         \* bound: run -> "production", "preview", "verify", or some of them
  Disturbed,       \* bound: the runs whose worktree someone else works in
  MaxDeployments   \* bound: the deployments of the project

ASSUME DeployAssumption ==
  /\ MaxAttempts \in Nat \ {0} /\ MaxDeployments \in Nat \ {0}
  /\ ModesOf \in [Runs -> SUBSET {"production", "preview", "verify"}]

VARIABLES
  tree,        \* run -> what its worktree holds
  dist,        \* run -> what the dist directory of its worktree holds
  publicMain,  \* the public ref "main"
  history,     \* the deployments, oldest first
  promoted,    \* the production deployment the provider has chosen to serve
  alias,       \* public origin -> the deployment it serves
  run,         \* run -> its state
  served       \* history: run -> what the origins served of its build in this attempt

world == <<tree, dist, publicMain>>
provider == <<history, promoted, alias>>
vars == <<tree, dist, publicMain, history, promoted, alias, run, served>>

Origins == {"apex", "www", "forms"}
None == 0  \* no deployment
NoBytes == [pages |-> "", sources |-> "", schemas |-> ""]

\* What is read of the public origins after the upload, in order.
AliasReads(mode) ==
  IF mode = "verify" THEN <<<<"apex", "pages">>, <<"www", "pages">>, <<"forms", "schemas">>>>
  ELSE <<<<"apex", "pages">>, <<"apex", "sources">>, <<"www", "pages">>, <<"www", "sources">>,
         <<"forms", "schemas">>>>

-----------------------------------------------------------------------------
(* The provider's list of production deployments.                            *)

\* deploymentRecord: production, branch main, its last stage a success.
Successful == {d \in DOMAIN history : history[d].production /\ history[d].ok}

\* findCurrentRollbackCandidate: the first in the list, newest first.
Current == IF Successful = {} THEN None ELSE CHOOSE d \in Successful : \A e \in Successful : e <= d

\* findRollbackCandidate: the first one after d in that list.
Predecessor(d) ==
  LET older == {e \in Successful : e < d}
  IN IF d \notin Successful \/ older = {} THEN None
     ELSE CHOOSE e \in older : \A f \in older : f <= e

\* readV2Projection.
Projection(bytes) == [pages |-> bytes.pages, sources |-> bytes.sources]

\* safeV2RollbackCandidate: the deployment, if it still serves what was public and
\* the schemas.
Qualified(r, d) ==
  /\ d # None
  /\ Projection(history[d].bytes) = run[r].prior
  /\ history[d].bytes.schemas = run[r].expected.schemas

Served(origin, part) == history[alias[origin]].bytes[part]

-----------------------------------------------------------------------------
(* A run.  pc is the next thing it does, or how it ended: "refused" before   *)
(* the upload, "unknown" when the upload failed, "failed" after it, "done".  *)

NoRun ==
  [pc |-> "start", mode |-> "production", ledger |-> "", predecessor |-> None, prior |-> Projection(NoBytes),
   seen |-> {}, expected |-> NoBytes, url |-> None, candidate |-> None, attempt |-> 0,
   place |-> 1, ok |-> TRUE, reason |-> ""]

PreUpload ==
  {"start", "list", "prior", "build", "digest", "confirm", "relist", "upload"}
AfterUpload == {"immutable", "recover", "history", "aliases"}
Ended == {"refused", "unknown", "failed", "done"}

\* The run ends after its upload, with its report: what it keeps is what a rollback
\* candidate was proved by.
Fail(r, candidate, reason) ==
  run' = [run EXCEPT ![r] =
    IF candidate = None THEN [NoRun EXCEPT !.pc = "failed"]
    ELSE [NoRun EXCEPT !.pc = "failed", !.candidate = candidate, !.reason = reason,
                       !.url = run[r].url, !.prior = run[r].prior, !.expected = run[r].expected]]

\* Any command, read or deadline before the upload may fail, and a check that does
\* not hold leads here: nothing was sent.
Refuse(r) ==
  /\ run[r].pc \in PreUpload
  /\ run' = [run EXCEPT ![r] = [NoRun EXCEPT !.pc = "refused"]]
  /\ UNCHANGED <<world, provider>>

\* readSourceState, the schema ledger and assertProductionSource.
Start(r, mode) ==
  /\ run[r].pc = "start"
  /\ mode # "preview" => tree[r] \in Clean /\ CommitOf[tree[r]] = publicMain
  /\ run' = [run EXCEPT ![r].pc = IF mode = "preview" THEN "build" ELSE "list",
                        ![r].mode = mode,
                        ![r].ledger = LedgerOf[tree[r]]]
  /\ UNCHANGED <<world, provider>>

\* The list before anything else: there must be a deployment to go back to.
ListBefore(r) ==
  /\ run[r].pc = "list" /\ run[r].mode = "production"
  /\ Current # None
  /\ run' = [run EXCEPT ![r].pc = "prior", ![r].predecessor = Current,
                        ![r].candidate = Current]
  /\ UNCHANGED <<world, provider>>

\* requireKnownProductionDeploymentUrl, of the URL on the command line.
ListKnown(r, d) ==
  /\ run[r].pc = "list" /\ run[r].mode = "verify"
  /\ d \in Successful
  /\ run' = [run EXCEPT ![r].pc = "build", ![r].url = d]
  /\ UNCHANGED <<world, provider>>

\* requirePriorV2Projection reads one public alias and then the other.
ReadPrior(r, origin) ==
  /\ run[r].pc \in {"prior", "confirm"}
  /\ origin = IF run[r].seen = {} THEN "apex" ELSE "www"
  /\ origin \notin {found[1] : found \in run[r].seen}
  /\ run' = [run EXCEPT ![r].seen =
               @ \cup {<<origin, Projection(history[alias[origin]].bytes)>>}]
  /\ UNCHANGED <<world, provider>>

\* Both aliases and the newest deployment agree, and it serves the schemas.
PriorAgrees(r) ==
  /\ Cardinality(run[r].seen) = 2
  /\ {found[2] : found \in run[r].seen} = {Projection(history[run[r].predecessor].bytes)}
  /\ history[run[r].predecessor].bytes.schemas = run[r].ledger

AcceptPrior(r) ==
  /\ run[r].pc = "prior" /\ PriorAgrees(r)
  /\ run' = [run EXCEPT ![r].pc = "build", ![r].seen = {},
                        ![r].prior = Projection(history[run[r].predecessor].bytes)]
  /\ UNCHANGED <<world, provider>>

\* The gate, whose last command builds the site.
Build(r) ==
  /\ run[r].pc = "build"
  /\ dist' = [dist EXCEPT ![r] = BuildOf[tree[r]]]
  /\ run' = [run EXCEPT ![r].pc = "digest"]
  /\ UNCHANGED <<tree, publicMain, provider>>

\* Mutated form: any prior edition may be replaced.
AnyEdition(r) == TRUE

\* The edition that is public is the one being published, or the original.
EditionKept(r) == run[r].prior.sources \in {dist[r].sources, Original}

\* localPageDigests, localSchemaDigests: what the command will compare with.
Digest(r) ==
  /\ run[r].pc = "digest"
  /\ dist[r].schemas = run[r].ledger
  /\ run[r].mode = "production" => EditionKept(r)
  /\ run' = [run EXCEPT ![r].expected = dist[r],
                        ![r].pc = CASE run[r].mode = "production" -> "confirm"
                                    [] run[r].mode = "preview" -> "upload"
                                    [] run[r].mode = "verify" -> "immutable"]
  /\ UNCHANGED <<world, provider>>

\* The same projection, read again after the gate.
ConfirmPrior(r) ==
  /\ run[r].pc = "confirm" /\ PriorAgrees(r)
  /\ run[r].prior = Projection(history[run[r].predecessor].bytes)
  /\ run' = [run EXCEPT ![r].pc = "relist", ![r].seen = {}]
  /\ UNCHANGED <<world, provider>>

\* The list immediately before the upload, and the candidate once more.
Relist(r) ==
  /\ run[r].pc = "relist"
  /\ Current = run[r].predecessor /\ Qualified(r, run[r].candidate)
  /\ run' = [run EXCEPT ![r].pc = "upload"]
  /\ UNCHANGED <<world, provider>>

\* What the provider does of "wrangler pages deploy": it stores what dist holds by
\* now and, once that succeeded, serves it if it is production's.
Deploy(r, ok) ==
  /\ Len(history) < MaxDeployments
  /\ history' = Append(history, [bytes |-> dist[r], production |-> run[r].mode = "production",
                                 ok |-> ok])
  /\ promoted' = IF ok /\ run[r].mode = "production" THEN Len(history) + 1 ELSE promoted
  /\ UNCHANGED <<world, alias>>

\* The upload is acknowledged, with its immutable URL or with an output in which
\* there is none or more than one.
Upload(r, printed) ==
  /\ run[r].pc = "upload"
  /\ Deploy(r, TRUE)
  /\ IF printed THEN run' = [run EXCEPT ![r].pc = "immutable", ![r].url = Len(history) + 1]
     ELSE Fail(r, run[r].candidate, "no URL")

\* "the upload failed; the target may or may not have changed".
UploadFails(r) ==
  /\ run[r].pc = "upload"
  /\ (\E ok \in BOOLEAN : Deploy(r, ok)) \/ UNCHANGED <<world, provider>>
  /\ run' = [run EXCEPT ![r] = [NoRun EXCEPT !.pc = "unknown"]]

\* verifyFullDeployment of the immutable URL; its bytes never change.
ImmutableMatches(r) ==
  LET bytes == history[run[r].url].bytes
  IN /\ bytes.pages = run[r].expected.pages
     /\ bytes.schemas = run[r].expected.schemas
     /\ run[r].mode # "verify" => bytes.sources = run[r].expected.sources

ReadImmutable(r) ==
  /\ run[r].pc = "immutable" /\ ImmutableMatches(r)
  /\ run' = [run EXCEPT ![r].pc = CASE run[r].mode = "production" -> "history"
                                    [] run[r].mode = "preview" -> "done"
                                    [] run[r].mode = "verify" -> "aliases",
                        ![r].attempt = IF run[r].mode = "verify" THEN MaxAttempts ELSE 0]
  /\ UNCHANGED <<world, provider>>

\* A read of it fails, its bytes differ, or the deadline elapses.
ImmutableFails(r) ==
  /\ run[r].pc = "immutable"
  /\ IF run[r].mode = "production" THEN run' = [run EXCEPT ![r].pc = "recover"]
     ELSE Fail(r, None, "immutable readback")
  /\ UNCHANGED <<world, provider>>

\* Mutated form: whatever comes before the upload in the list is offered.
PredecessorFound(r) == Predecessor(run[r].url) # None

\* The refreshed list has the upload, and right before it the deployment the run
\* proved, which still qualifies.
PredecessorKept(r) ==
  /\ Predecessor(run[r].url) = run[r].predecessor
  /\ Qualified(r, run[r].predecessor)

\* After a failed readback: the best a fresh list can offer.
Recover(r) ==
  /\ run[r].pc = "recover"
  /\ \E candidate \in {None} \cup {d \in {Predecessor(run[r].url)} : PredecessorKept(r)} :
       Fail(r, candidate, "immutable readback")
  /\ UNCHANGED <<world, provider>>

ListAfter(r) ==
  /\ run[r].pc = "history" /\ PredecessorKept(r)
  /\ run' = [run EXCEPT ![r].pc = "aliases", ![r].attempt = 1,
                        ![r].candidate = Predecessor(run[r].url)]
  /\ UNCHANGED <<world, provider>>

\* The list has something else before the upload, or it could not be read or does
\* not have the upload: then the candidate stays what it was.
HistoryFails(r, read) ==
  /\ run[r].pc = "history"
  /\ IF read THEN Fail(r, None, "history") ELSE Fail(r, run[r].candidate, "no history")
  /\ UNCHANGED <<world, provider>>

\* A read of an alias, which may fail; the first that does ends its origin.
ReadAlias(r) ==
  /\ run[r].pc = "aliases"
  /\ LET reads == AliasReads(run[r].mode)
         read == reads[run[r].place]
         next == {i \in DOMAIN reads : i > run[r].place /\ reads[i][1] # read[1]}
     IN /\ run[r].place <= Len(reads)
        /\ \/ /\ Served(read[1], read[2]) = run[r].expected[read[2]]
              /\ run' = [run EXCEPT ![r].place = @ + 1]
           \/ run' = [run EXCEPT ![r].ok = FALSE,
                                 ![r].place = IF next = {} THEN Len(reads) + 1
                                              ELSE CHOOSE i \in next : \A j \in next : i <= j]
  /\ UNCHANGED <<world, provider>>

\* Mutated form: the last attempt counts whatever it read.
LastMatches(r) == run[r].ok \/ run[r].attempt = MaxAttempts

\* No origin failed in this attempt.
AllMatch(r) == run[r].ok

AttemptOver(r) == run[r].pc = "aliases" /\ run[r].place > Len(AliasReads(run[r].mode))

Converged(r) ==
  /\ AttemptOver(r) /\ AllMatch(r)
  /\ run' = [run EXCEPT ![r].pc = "done"]
  /\ UNCHANGED <<world, provider>>

NextAttempt(r) ==
  /\ AttemptOver(r) /\ ~AllMatch(r) /\ run[r].attempt < MaxAttempts
  /\ run' = [run EXCEPT ![r].attempt = @ + 1, ![r].place = 1, ![r].ok = TRUE]
  /\ UNCHANGED <<world, provider>>

NotConverged(r) ==
  /\ Fail(r, run[r].candidate, "readback")
  /\ UNCHANGED <<world, provider>>

AttemptsExhausted(r) ==
  AttemptOver(r) /\ ~AllMatch(r) /\ run[r].attempt = MaxAttempts /\ NotConverged(r)

\* Mutated form: the aliases are polled without a deadline.
ImmutableDeadline(r) == run[r].mode # "verify" /\ ImmutableFails(r)

\* withReadbackDeadline, which --verify-cutover does without.
DeadlineElapses(r) ==
  /\ run[r].mode # "verify"
  /\ ImmutableFails(r) \/ (run[r].pc = "aliases" /\ NotConverged(r))

RunStep(r) ==
  \/ Refuse(r) \/ (\E mode \in ModesOf[r] : Start(r, mode))
  \/ ListBefore(r) \/ (\E d \in DOMAIN history : ListKnown(r, d))
  \/ (\E origin \in Origins : ReadPrior(r, origin)) \/ AcceptPrior(r)
  \/ Build(r) \/ Digest(r) \/ ConfirmPrior(r) \/ Relist(r)
  \/ (\E printed \in BOOLEAN : Upload(r, printed)) \/ UploadFails(r)
  \/ ReadImmutable(r) \/ ImmutableFails(r) \/ Recover(r)
  \/ ListAfter(r) \/ (\E read \in BOOLEAN : HistoryFails(r, read))
  \/ ReadAlias(r) \/ Converged(r) \/ NextAttempt(r) \/ AttemptsExhausted(r) \/ DeadlineElapses(r)

-----------------------------------------------------------------------------
(* Everyone else.                                                            *)

\* Someone works in the worktree of a run, each time at the last moment at which it
\* makes a difference: a checkout or an edit during the gate, and a build of anything
\* before the upload.
Checkout(r) ==
  /\ r \in Disturbed /\ run[r].pc = "build"
  /\ \E t \in Trees : tree' = [tree EXCEPT ![r] = t]
  /\ UNCHANGED <<dist, publicMain, provider, run>>

Rebuild(r) ==
  /\ r \in Disturbed /\ run[r].pc = "upload"
  /\ \E t \in Trees : dist' = [dist EXCEPT ![r] = BuildOf[t]]
  /\ UNCHANGED <<tree, publicMain, provider, run>>

\* Only a run that starts looks at it.
AdvanceMain ==
  /\ \E r \in Runs : run[r].pc = "start"
  /\ \E t \in Clean : CommitOf[t] > publicMain /\ publicMain' = CommitOf[t]
  /\ UNCHANGED <<tree, dist, provider, run>>

\* Only these runs read the aliases.
Reading == \E r \in Runs : run[r].pc \in {"prior", "confirm", "aliases"}

\* "Pages custom domains can continue serving their previous deployment briefly".
\* Bound: they change while someone reads them.
Propagate(origin) ==
  /\ Reading
  /\ alias' = [alias EXCEPT ![origin] = promoted]
  /\ UNCHANGED <<world, history, promoted, run>>

\* "Pages itself can promote an unqualified prior deployment."  Bound: only an older
\* one than it serves, while a run prepares its upload.
Promote ==
  /\ \E r \in Runs : run[r].pc \in {"prior", "confirm"}
  /\ \E d \in Successful : d < promoted /\ promoted' = d
  /\ UNCHANGED <<world, history, alias, run>>

Elsewhere ==
  \/ \E r \in Runs : Checkout(r) \/ Rebuild(r)
  \/ AdvanceMain \/ Promote \/ \E origin \in Origins : Propagate(origin)

\* The parts of what run r expects that the origins serve.
Serving(r) ==
  {read \in {AliasReads(run[r].mode)[i] : i \in DOMAIN AliasReads(run[r].mode)} :
     Served(read[1], read[2]) = run[r].expected[read[2]]}

Observe ==
  served' = [r \in Runs |->
    IF run'[r].pc \notin {"aliases", "done"} THEN {}
    ELSE IF run'[r].pc = "done" THEN served[r]
    ELSE (IF run'[r].attempt = run[r].attempt THEN served[r] ELSE {}) \cup Serving(r)']

Init ==
  /\ tree \in [Runs -> Clean]
  /\ dist = [r \in Runs |-> NoBytes]
  /\ publicMain = CommitOf[CHOOSE t \in Clean : \A u \in Clean : CommitOf[t] <= CommitOf[u]]
  /\ history = <<[bytes |-> First, production |-> TRUE, ok |-> TRUE]>>
  /\ promoted = 1
  /\ alias = [o \in Origins |-> 1]
  /\ run = [r \in Runs |-> NoRun]
  /\ served = [r \in Runs |-> {}]

Next == ((\E r \in Runs : RunStep(r)) \/ Elsewhere) /\ Observe

Spec == Init /\ [][Next]_vars

\* A timer that has been set fires; nothing is owed by the provider or the network.
FairSpec == Spec /\ \A r \in Runs : WF_vars(DeadlineElapses(r) /\ Observe)

-----------------------------------------------------------------------------
(* Properties.                                                               *)

TypeOK ==
  /\ promoted \in Successful /\ \A o \in Origins : alias[o] \in Successful
  /\ \A r \in Runs :
       /\ run[r].pc \in PreUpload \cup AfterUpload \cup Ended
       /\ {run[r].predecessor, run[r].url, run[r].candidate} \subseteq {None} \cup DOMAIN history
       /\ run[r].attempt \in 0..MaxAttempts

\* A run that reports success published the very bytes it proved, and every public
\* origin has served each of them since the upload, although aliases follow late,
\* one by one, and others publish meanwhile.
SuccessWasServed ==
  \A r \in Runs : run[r].pc = "done" =>
    /\ ImmutableMatches(r)
    /\ run[r].mode # "preview" =>
         \A read \in {AliasReads(run[r].mode)[i] : i \in DOMAIN AliasReads(run[r].mode)} :
           read \in served[r]

\* What a successful publication replaced, in the provider's own list, is the
\* deployment it was proved against: what it showed before the gate, with the same
\* schemas, and an edition that may be replaced.
ExactPredecessor ==
  \A r \in Runs : run[r].pc = "done" /\ run[r].mode = "production" =>
    LET before == Predecessor(run[r].url)
    IN /\ before # None /\ before = run[r].predecessor
       /\ Projection(history[before].bytes) = run[r].prior
       /\ history[before].bytes.schemas = history[run[r].url].bytes.schemas
       /\ history[before].bytes.sources \in {history[run[r].url].bytes.sources, Original}

\* Two runs that both succeed published one after the other: nothing either of them
\* proved was overtaken by the other.
OneSuccessor ==
  \A r, s \in Runs :
    /\ r # s /\ run[r].mode = "production" /\ run[s].mode = "production"
    /\ run[r].pc = "done" /\ run[s].pc = "done"
    => run[r].predecessor # run[s].predecessor

\* A rollback candidate offered after the list was read again is the deployment
\* right before the upload, with the bytes that were public and the same schemas.
CandidateQualified ==
  \A r \in Runs :
    /\ run[r].pc = "failed" /\ run[r].candidate # None
    /\ run[r].reason \in {"immutable readback", "readback"}
    => /\ run[r].candidate = Predecessor(run[r].url)
       /\ Qualified(r, run[r].candidate)

\* After the upload a run does not wait for ever on what it reads.
ReadbackEnds ==
  \A r \in Runs :
    run[r].mode # "verify" /\ run[r].pc \in {"immutable", "aliases"}
      ~> run[r].pc \notin {"immutable", "aliases"}
=============================================================================
