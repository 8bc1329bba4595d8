-------------------------- MODULE SiteDeployProofs --------------------------
(***************************************************************************)
(* What a published site replaced, for any number of operators, worktrees  *)
(* and deployments.  The argument: the provider's list only grows and a    *)
(* deployment's bytes never change, so what a run read of a deployment, or *)
(* found before its own, stays true whatever the others do afterwards.     *)
(***************************************************************************)
EXTENDS SiteDeploy, WellFoundedInduction, TLAPS

Worktrees == Trees \cup Clean
Sites == {First, NoBytes} \cup {BuildOf[t] : t \in Worktrees}
Deployments == [bytes : Sites, production : BOOLEAN, ok : BOOLEAN]
Priors == {Projection(b) : b \in Sites}

Reasons == {"", "no URL", "immutable readback", "history", "no history", "readback"}

RunStates ==
  [pc : PreUpload \cup AfterUpload \cup Ended,
   mode : {"production", "preview", "verify"},
   ledger : {""} \cup {LedgerOf[t] : t \in Worktrees},
   predecessor : Nat, prior : Priors, seen : SUBSET (Origins \X Priors),
   expected : Sites, url : Nat, candidate : Nat, attempt : 0..MaxAttempts,
   place : Nat, ok : BOOLEAN, reason : Reasons]

\* Successful, Predecessor and Qualified, of a history h and the state x of a run.
SuccessfulOf(h) == {d \in DOMAIN h : h[d].production /\ h[d].ok}
OlderOf(h, d) == {e \in SuccessfulOf(h) : e < d}
PredecessorOf(h, d) ==
  IF d \notin SuccessfulOf(h) \/ OlderOf(h, d) = {} THEN None
  ELSE CHOOSE e \in OlderOf(h, d) : \A f \in OlderOf(h, d) : f <= e
QualifiedOf(h, x, d) ==
  /\ d # None
  /\ Projection(h[d].bytes) = x.prior
  /\ h[d].bytes.schemas = x.expected.schemas

Published == AfterUpload \cup {"done"}

References(h, x) ==
  x.predecessor \in 0..Len(h) /\ x.url \in 0..Len(h) /\ x.candidate \in 0..Len(h)
CandidateFromList(x) == x.pc = "start" \/ x.mode # "production" => x.candidate = None
StagesOfProduction(x) ==
  x.pc \in {"prior", "confirm", "relist", "recover", "history"} => x.mode = "production"
HasUrl(x) == x.mode # "verify" /\ x.pc \in Published => x.url # None
EditionProved(x) ==
  x.mode = "production" /\ x.pc \in Published \cup {"confirm", "relist", "upload"}
  => x.prior.sources \in {x.expected.sources, Original}
BytesProved(h, x) ==
  x.mode = "production" /\ x.pc \in {"history", "aliases", "done"}
  => /\ h[x.url].bytes.sources = x.expected.sources
     /\ h[x.url].bytes.schemas = x.expected.schemas
PredecessorProved(h, x) ==
  x.mode = "production" /\ x.pc \in {"aliases", "done"}
  => /\ PredecessorOf(h, x.url) = x.predecessor
     /\ QualifiedOf(h, x, x.predecessor)
     /\ x.candidate = x.predecessor
CandidateProved(h, x) ==
  /\ x.pc = "failed" /\ x.candidate # None
  /\ x.reason \in {"immutable readback", "readback"}
  => /\ x.candidate = PredecessorOf(h, x.url)
     /\ QualifiedOf(h, x, x.candidate)

RunInv(h, x) ==
  /\ References(h, x) /\ CandidateFromList(x) /\ StagesOfProduction(x) /\ HasUrl(x)
  /\ EditionProved(x) /\ BytesProved(h, x) /\ PredecessorProved(h, x) /\ CandidateProved(h, x)

\* A deployment is one run's.
Owns(x) == x.mode # "verify" /\ x.pc \in Published
UrlsDiffer ==
  \A r, s \in Runs : r # s /\ Owns(run[r]) /\ Owns(run[s]) => run[r].url # run[s].url

Types ==
  /\ tree \in [Runs -> Worktrees]
  /\ dist \in [Runs -> Sites]
  /\ history \in Seq(Deployments)
  /\ promoted \in SuccessfulOf(history)
  /\ alias \in [Origins -> SuccessfulOf(history)]
  /\ run \in [Runs -> RunStates]

DeployInv == Types /\ (\A r \in Runs : RunInv(history, run[r])) /\ UrlsDiffer

-----------------------------------------------------------------------------
(* Least and greatest elements.                                              *)

\* A set of natural numbers that is not empty has a least element.
LEMMA LeastExists ==
  ASSUME NEW S, S \subseteq Nat, S # {}
  PROVE \E m \in S : \A k \in S : m <= k
<1>1. PICK m \in S : \A k \in S : ~(<<k, m>> \in OpToRel(<, Nat))
  BY NatLessThanWellFounded, WFMin
<1>2. \A k \in S : ~(k < m)
  BY <1>1 DEF OpToRel
<1>3. \A k \in S : k \in Nat
  OBVIOUS
<1>4. \A k \in S : m <= k
  BY <1>2, <1>3
<1> QED
  BY <1>4

\* One with a bound has a greatest.
LEMMA GreatestExists ==
  ASSUME NEW n \in Nat, NEW S, S \subseteq 1..n, S # {}
  PROVE \E m \in S : \A k \in S : k <= m
<1> DEFINE T == {n - k : k \in S}
<1>1. \A k \in S : k \in 1..n /\ n - k \in Nat
  OBVIOUS
<1>2. T \subseteq Nat /\ T # {}
  BY <1>1
<1>3. PICK t \in T : \A u \in T : t <= u
  BY <1>2, LeastExists
<1>4. PICK m \in S : t = n - m
  BY <1>3
<1>5. \A k \in S : n - m <= n - k
  BY <1>3, <1>4
<1>6. \A k \in S : k <= m
  BY <1>1, <1>5
<1> QED
  BY <1>6

\* What findRollbackCandidate returns, unless it returns none: the newest of the
\* successful deployments before d.
LEMMA PredecessorIsNewest ==
  ASSUME NEW h \in Seq(Deployments), NEW d \in Nat, PredecessorOf(h, d) # None
  PROVE /\ d \in SuccessfulOf(h)
        /\ PredecessorOf(h, d) \in OlderOf(h, d)
        /\ \A e \in OlderOf(h, d) : e <= PredecessorOf(h, d)
<1>1. d \in SuccessfulOf(h) /\ OlderOf(h, d) # {}
  BY DEF PredecessorOf
<1>2. OlderOf(h, d) \subseteq 1..Len(h) /\ Len(h) \in Nat
  BY DEF OlderOf, SuccessfulOf
<1>3. \E e \in OlderOf(h, d) : \A f \in OlderOf(h, d) : f <= e
  BY <1>1, <1>2, GreatestExists
<1>4. PredecessorOf(h, d) = CHOOSE e \in OlderOf(h, d) : \A f \in OlderOf(h, d) : f <= e
  BY <1>1 DEF PredecessorOf
<1> QED
  BY <1>1, <1>3, <1>4

-----------------------------------------------------------------------------
(* The list only grows.                                                      *)

\* A deployment more changes nothing that was read of the others.
LEMMA AppendKeeps ==
  ASSUME NEW h \in Seq(Deployments), NEW new \in Deployments, NEW d \in 0..Len(h)
  PROVE /\ d # None => Append(h, new)[d] = h[d]
        /\ d \in SuccessfulOf(Append(h, new)) <=> d \in SuccessfulOf(h)
        /\ PredecessorOf(Append(h, new), d) = PredecessorOf(h, d)
<1> DEFINE g == Append(h, new)
<1>1. g \in Seq(Deployments) /\ Len(g) = Len(h) + 1 /\ \A e \in 1..Len(h) : g[e] = h[e]
  OBVIOUS
<1>2. DOMAIN h = 1..Len(h) /\ DOMAIN g = 1..(Len(h) + 1) /\ Len(h) \in Nat
  BY <1>1
<1>3. \A e \in 0..Len(h) : e \in SuccessfulOf(g) <=> e \in SuccessfulOf(h)
  BY <1>1, <1>2 DEF SuccessfulOf
<1>4. \A e \in OlderOf(g, d) : e \in 0..Len(h)
  BY <1>2 DEF OlderOf, SuccessfulOf
<1>5. \A e \in OlderOf(h, d) : e \in 0..Len(h)
  BY <1>2 DEF OlderOf, SuccessfulOf
<1>6. OlderOf(g, d) = OlderOf(h, d)
  BY <1>3, <1>4, <1>5 DEF OlderOf
<1>7. PredecessorOf(g, d) = PredecessorOf(h, d)
  BY <1>3, <1>6 DEF PredecessorOf
<1>8. d # None => g[d] = h[d]
  BY <1>1 DEF None
<1> QED
  BY <1>3, <1>7, <1>8

\* Nor anything a run has proved.
LEMMA AppendKeepsRun ==
  ASSUME NEW h \in Seq(Deployments), NEW new \in Deployments, NEW x \in RunStates,
         RunInv(h, x)
  PROVE RunInv(Append(h, new), x)
<1> DEFINE g == Append(h, new)
<1>1. Len(g) = Len(h) + 1 /\ Len(h) \in Nat
  OBVIOUS
<1>2. /\ x.predecessor \in 0..Len(h) /\ x.url \in 0..Len(h) /\ x.candidate \in 0..Len(h)
  BY DEF RunInv, References
<1>3. References(g, x)
  BY <1>1, <1>2 DEF References
<1>4. PredecessorOf(g, x.url) = PredecessorOf(h, x.url)
  BY <1>2, AppendKeeps
<1>5. \A d \in {x.predecessor, x.candidate} : QualifiedOf(h, x, d) => QualifiedOf(g, x, d)
  <2> SUFFICES ASSUME NEW d \in {x.predecessor, x.candidate}, QualifiedOf(h, x, d)
               PROVE QualifiedOf(g, x, d)
    OBVIOUS
  <2>1. d \in 0..Len(h) /\ d # None
    BY <1>2 DEF QualifiedOf
  <2>2. g[d] = h[d]
    BY <2>1, AppendKeeps
  <2> QED
    BY <2>2 DEF QualifiedOf
<1>6. BytesProved(g, x)
  <2> SUFFICES ASSUME x.mode = "production", x.pc \in {"history", "aliases", "done"}
               PROVE /\ g[x.url].bytes.sources = x.expected.sources
                     /\ g[x.url].bytes.schemas = x.expected.schemas
    BY DEF BytesProved
  <2>1. x.url # None
    BY DEF RunInv, HasUrl, Published, AfterUpload
  <2>2. g[x.url] = h[x.url]
    BY <1>2, <2>1, AppendKeeps
  <2> QED
    BY <2>2 DEF RunInv, BytesProved
<1>7. PredecessorProved(g, x)
  BY <1>4, <1>5 DEF RunInv, PredecessorProved
<1>8. CandidateProved(g, x)
  BY <1>4, <1>5 DEF RunInv, CandidateProved
<1> QED
  BY <1>3, <1>6, <1>7, <1>8 DEF RunInv

\* The newest deployment is in the list.
LEMMA CurrentInList ==
  ASSUME history \in Seq(Deployments)
  PROVE Current \in 0..Len(history)
<1>1. Len(history) \in Nat /\ Successful \subseteq 1..Len(history)
  BY DEF Successful
<1>2. CASE Successful = {}
  BY <1>1, <1>2 DEF Current, None
<1>3. CASE Successful # {}
  <2>1. \E d \in Successful : \A e \in Successful : e <= d
    BY <1>1, <1>3, GreatestExists
  <2>2. Current \in Successful
    BY <1>3, <2>1 DEF Current
  <2> QED
    BY <1>1, <2>2
<1> QED
  BY <1>2, <1>3

\* The operators of the specification are those of its history.
LEMMA ListOperators ==
  /\ Successful = SuccessfulOf(history)
  /\ \A d : Predecessor(d) = PredecessorOf(history, d)
  /\ \A r, d : Qualified(r, d) <=> QualifiedOf(history, run[r], d)
BY DEF Successful, SuccessfulOf, Predecessor, PredecessorOf, OlderOf, Qualified, QualifiedOf

-----------------------------------------------------------------------------
(* A step of a run.                                                          *)

\* A step of one run that leaves the provider alone keeps the invariant when that
\* run's new state does.
LEMMA QuietRunStep ==
  ASSUME DeployInv, NEW r \in Runs, UNCHANGED <<tree, provider>>, dist' \in [Runs -> Sites],
         run' \in [Runs -> RunStates], \A s \in Runs \ {r} : run'[s] = run[s],
         RunInv(history, run'[r]),
         Owns(run'[r]) => Owns(run[r]) /\ run'[r].url = run[r].url
  PROVE DeployInv'
<1>1. Types'
  BY DEF DeployInv, Types, provider
<1>2. ASSUME NEW s \in Runs PROVE RunInv(history, run[s])'
  <2>1. history' = history
    BY DEF provider
  <2>2. RunInv(history, run'[s])
    BY DEF DeployInv
  <2> QED
    BY <2>1, <2>2
<1>3. UrlsDiffer'
  <2> SUFFICES ASSUME NEW s \in Runs, NEW t \in Runs, s # t, Owns(run'[s]), Owns(run'[t])
               PROVE run'[s].url # run'[t].url
    BY DEF UrlsDiffer
  <2>1. \A u \in {s, t} : Owns(run[u]) /\ run'[u].url = run[u].url
    OBVIOUS
  <2> QED
    BY <2>1 DEF DeployInv, UrlsDiffer
<1> QED
  BY <1>1, <1>2, <1>3 DEF DeployInv

\* What the invariant says of the run that moves.
LEMMA RunFacts ==
  ASSUME DeployInv, NEW r \in Runs
  PROVE /\ run[r] \in RunStates /\ RunInv(history, run[r])
        /\ run \in [Runs -> RunStates]
        /\ history \in Seq(Deployments) /\ DOMAIN history = 1..Len(history) /\ Len(history) \in Nat
        /\ tree \in [Runs -> Worktrees] /\ dist \in [Runs -> Sites]
        /\ \A d \in DOMAIN history : history[d].bytes \in Sites
<1>1. \A d \in DOMAIN history : history[d] \in Deployments
  BY DEF DeployInv, Types
<1> QED
  BY <1>1 DEF DeployInv, Types, Deployments

\* How the states of a run that keep nothing of it are typed.
LEMMA NoRunTyped == NoRun \in RunStates
<1>1. NoRun.pc \in PreUpload /\ NoRun.mode \in {"production"}
  BY DEF NoRun, PreUpload
<1>2. NoBytes \in Sites /\ Projection(NoBytes) \in Priors
  BY DEF Sites, Priors
<1>3. 0 \in 0..MaxAttempts /\ None \in Nat
  BY DeployAssumption DEF None
<1> QED
  BY <1>2, <1>3 DEF NoRun, RunStates, Reasons, PreUpload, None

\* What Fail makes of a run in state x.
ReportOf(x, candidate, reason) ==
  IF candidate = None THEN [NoRun EXCEPT !.pc = "failed"]
  ELSE [NoRun EXCEPT !.pc = "failed", !.candidate = candidate, !.reason = reason,
                     !.url = x.url, !.prior = x.prior, !.expected = x.expected]

\* A report is the state of a run.
LEMMA ReportTyped ==
  ASSUME NEW x \in RunStates, NEW candidate \in Nat, NEW reason \in Reasons,
         NEW y, y = ReportOf(x, candidate, reason)
  PROVE /\ y \in RunStates
        /\ y.pc = "failed" /\ y.mode = "production" /\ y.predecessor = None
        /\ y.candidate = candidate
        /\ candidate # None =>
             /\ y.url = x.url /\ y.prior = x.prior /\ y.expected = x.expected
             /\ y.reason = reason
        /\ candidate = None => y.url = None
<1>1. /\ x.url \in Nat /\ x.prior \in Priors /\ x.expected \in Sites
  BY DEF RunStates
<1>2. "failed" \in Ended
  BY DEF Ended
<1>3. NoRun.candidate = None /\ NoRun.url = None /\ NoRun.predecessor = None /\ NoRun.mode = "production"
  BY DEF NoRun
<1> QED
  BY <1>1, <1>2, <1>3, NoRunTyped DEF ReportOf, RunStates

\* No deployment is a place in every list.
LEMMA Places ==
  ASSUME NEW h \in Seq(Deployments)
  PROVE None \in 0..Len(h) /\ None \in Nat /\ \A c \in 0..Len(h) : c \in Nat
BY DEF None

\* A step that sets the state of one run.
LEMMA MoveStep ==
  ASSUME DeployInv, NEW r \in Runs, UNCHANGED <<world, provider>>,
         NEW y \in RunStates, run' = [run EXCEPT ![r] = y], RunInv(history, y),
         Owns(y) => Owns(run[r]) /\ y.url = run[r].url
  PROVE DeployInv'
<1>1. run' \in [Runs -> RunStates] /\ run'[r] = y /\ \A s \in Runs \ {r} : run'[s] = run[s]
  BY RunFacts
<1>2. dist' \in [Runs -> Sites] /\ UNCHANGED <<tree, provider>>
  BY DEF DeployInv, Types, world
<1> QED
  BY <1>1, <1>2, QuietRunStep

\* The end of a run, whatever it reports.
LEMMA FailStep ==
  ASSUME DeployInv, NEW r \in Runs, UNCHANGED <<world, provider>>,
         NEW y \in RunStates, run' = [run EXCEPT ![r] = y],
         y.pc = "failed", y.mode = "production", References(history, y),
         CandidateProved(history, y)
  PROVE DeployInv'
<1>1. run' \in [Runs -> RunStates] /\ run'[r] = y /\ \A s \in Runs \ {r} : run'[s] = run[s]
  BY RunFacts
<1>2. RunInv(history, y) /\ ~Owns(y)
  BY DEF RunInv, CandidateFromList, StagesOfProduction, HasUrl, EditionProved, BytesProved, PredecessorProved,
         Published, AfterUpload, Owns
<1>3. dist' \in [Runs -> Sites] /\ UNCHANGED <<tree, provider>>
  BY DEF DeployInv, Types, world
<1> QED
  BY <1>1, <1>2, <1>3, QuietRunStep

\* A report without a candidate.
LEMMA PlainReport ==
  ASSUME DeployInv, NEW r \in Runs, UNCHANGED <<world, provider>>,
         NEW reason \in Reasons, Fail(r, None, reason)
  PROVE DeployInv'
<1>1. PICK y : y = ReportOf(run[r], None, reason)
  OBVIOUS
<1>2. y \in RunStates /\ y.pc = "failed" /\ y.mode = "production" /\ y.predecessor = None
      /\ y.candidate = None /\ y.url = None
  BY <1>1, RunFacts, Places, ReportTyped
<1>3. run' = [run EXCEPT ![r] = y]
  BY <1>1 DEF Fail, ReportOf
<1>4. References(history, y) /\ CandidateProved(history, y)
  BY <1>2, RunFacts, Places DEF References, CandidateProved
<1> QED
  BY <1>2, <1>3, <1>4, FailStep

\* Nothing was sent.
LEMMA RefuseStep ==
  ASSUME DeployInv, NEW r \in Runs, Refuse(r)
  PROVE DeployInv'
<1> DEFINE y == [NoRun EXCEPT !.pc = "refused"]
<1>1. /\ y \in RunStates /\ y.pc = "refused" /\ y.mode = "production" /\ y.predecessor = None
      /\ y.candidate = None /\ y.url = None
  BY NoRunTyped DEF RunStates, NoRun, Ended
<1>2. run' = [run EXCEPT ![r] = y] /\ UNCHANGED <<world, provider>>
  BY DEF Refuse
<1> HIDE DEF y
<1>3. RunInv(history, y) /\ ~Owns(y)
  BY <1>1, RunFacts, Places
     DEF RunInv, References, CandidateFromList, StagesOfProduction, HasUrl, EditionProved, BytesProved,
         PredecessorProved, CandidateProved, Published, AfterUpload, Owns
<1> QED
  BY <1>1, <1>2, <1>3, MoveStep

\* The start, in any mode.
LEMMA StartStep ==
  ASSUME DeployInv, NEW r \in Runs, NEW mode \in ModesOf[r], Start(r, mode)
  PROVE DeployInv'
<1> DEFINE pc == IF mode = "preview" THEN "build" ELSE "list"
           y == [run[r] EXCEPT !.pc = pc, !.mode = mode, !.ledger = LedgerOf[tree[r]]]
<1>1. pc \in {"build", "list"} /\ mode \in {"production", "preview", "verify"}
  BY DeployAssumption
<1>2. tree[r] \in Worktrees
  BY RunFacts
<1>3. run[r].pc = "start" /\ run[r] \in RunStates /\ RunInv(history, run[r])
  BY RunFacts DEF Start
<1>4. /\ y \in RunStates /\ y.pc = pc /\ y.mode = mode /\ y.predecessor = run[r].predecessor
      /\ y.candidate = run[r].candidate /\ y.url = run[r].url
  BY <1>1, <1>2, <1>3 DEF RunStates, PreUpload
<1>5. run' = [run EXCEPT ![r] = y] /\ UNCHANGED <<world, provider>>
  BY RunFacts DEF Start
<1> HIDE DEF y
<1>6. RunInv(history, y) /\ ~Owns(y)
  BY <1>1, <1>3, <1>4
     DEF RunInv, References, CandidateFromList, StagesOfProduction, HasUrl, EditionProved, BytesProved,
         PredecessorProved, CandidateProved, Published, AfterUpload, Owns
<1> QED
  BY <1>4, <1>5, <1>6, MoveStep

\* The list before the gate.
LEMMA ListBeforeStep ==
  ASSUME DeployInv, NEW r \in Runs, ListBefore(r)
  PROVE DeployInv'
<1> DEFINE y == [run[r] EXCEPT !.pc = "prior", !.predecessor = Current, !.candidate = Current]
<1>1. run[r].pc = "list" /\ run[r].mode = "production" /\ run[r] \in RunStates /\ RunInv(history, run[r])
  BY RunFacts DEF ListBefore
<1>2. Current \in 0..Len(history)
  BY CurrentInList, RunFacts
<1>3. Current \in Nat
  BY <1>2
<1>4. /\ y \in RunStates /\ y.pc = "prior" /\ y.mode = "production" /\ y.predecessor = Current
      /\ y.candidate = Current /\ y.url = run[r].url
  BY <1>1, <1>3 DEF RunStates, PreUpload
<1>5. run' = [run EXCEPT ![r] = y] /\ UNCHANGED <<world, provider>>
  BY RunFacts DEF ListBefore
<1> HIDE DEF y
<1>6. RunInv(history, y) /\ ~Owns(y)
  BY <1>1, <1>2, <1>4
     DEF RunInv, References, CandidateFromList, StagesOfProduction, HasUrl, EditionProved,
         BytesProved, PredecessorProved, CandidateProved, Published, AfterUpload, Owns
<1> QED
  BY <1>4, <1>5, <1>6, MoveStep

\* The deployment --verify-cutover is told to read.
LEMMA ListKnownStep ==
  ASSUME DeployInv, NEW r \in Runs, NEW d \in Successful, ListKnown(r, d)
  PROVE DeployInv'
<1> DEFINE y == [run[r] EXCEPT !.pc = "build", !.url = d]
<1>1. run[r].pc = "list" /\ run[r].mode = "verify" /\ run[r] \in RunStates /\ RunInv(history, run[r])
  BY RunFacts DEF ListKnown
<1>2. d \in 0..Len(history) /\ d \in Nat
  BY RunFacts DEF Successful
<1>3. /\ y \in RunStates /\ y.pc = "build" /\ y.mode = "verify" /\ y.predecessor = run[r].predecessor
      /\ y.candidate = run[r].candidate /\ y.url = d
  BY <1>1, <1>2 DEF RunStates, PreUpload
<1>4. run' = [run EXCEPT ![r] = y] /\ UNCHANGED <<world, provider>>
  BY RunFacts DEF ListKnown
<1> HIDE DEF y
<1>5. RunInv(history, y) /\ ~Owns(y)
  BY <1>1, <1>2, <1>3
     DEF RunInv, References, CandidateFromList, StagesOfProduction, HasUrl, EditionProved,
         BytesProved, PredecessorProved, CandidateProved, Published, AfterUpload, Owns
<1> QED
  BY <1>3, <1>4, <1>5, MoveStep

\* A read of a public alias.
LEMMA ReadPriorStep ==
  ASSUME DeployInv, NEW r \in Runs, NEW origin \in Origins, ReadPrior(r, origin)
  PROVE DeployInv'
<1> DEFINE found == <<origin, Projection(history[alias[origin]].bytes)>>
           y == [run[r] EXCEPT !.seen = @ \cup {found}]
<1>1. run[r].pc \in {"prior", "confirm"} /\ run[r] \in RunStates /\ RunInv(history, run[r])
  BY RunFacts DEF ReadPrior
<1>2. alias[origin] \in DOMAIN history
  BY DEF DeployInv, Types, SuccessfulOf
<1>3. found \in Origins \X Priors
  BY <1>2, RunFacts DEF Priors
<1> HIDE DEF found
<1>4. /\ y \in RunStates /\ y.pc = run[r].pc /\ y.mode = run[r].mode
      /\ y.predecessor = run[r].predecessor /\ y.candidate = run[r].candidate
      /\ y.url = run[r].url /\ y.prior = run[r].prior /\ y.expected = run[r].expected
  BY <1>1, <1>3 DEF RunStates
<1>5. run' = [run EXCEPT ![r] = y] /\ UNCHANGED <<world, provider>>
  BY RunFacts DEF ReadPrior, found
<1> HIDE DEF y
<1>6. RunInv(history, y) /\ ~Owns(y)
  BY <1>1, <1>4
     DEF RunInv, References, CandidateFromList, StagesOfProduction, HasUrl, EditionProved,
         BytesProved, PredecessorProved, CandidateProved, Published, AfterUpload, Owns
<1> QED
  BY <1>4, <1>5, <1>6, MoveStep

\* What was public is noted.
LEMMA AcceptPriorStep ==
  ASSUME DeployInv, NEW r \in Runs, AcceptPrior(r)
  PROVE DeployInv'
<1> DEFINE prior == Projection(history[run[r].predecessor].bytes)
           y == [run[r] EXCEPT !.pc = "build", !.seen = {}, !.prior = prior]
<1>1. run[r].pc = "prior" /\ run[r] \in RunStates /\ RunInv(history, run[r])
  BY RunFacts DEF AcceptPrior
<1>2. prior \in {found[2] : found \in run[r].seen} /\ run[r].seen \subseteq Origins \X Priors
  BY <1>1 DEF AcceptPrior, PriorAgrees, RunStates
<1>3. prior \in Priors
  BY <1>2
<1> HIDE DEF prior
<1>4. /\ y \in RunStates /\ y.pc = "build" /\ y.mode = run[r].mode
      /\ y.predecessor = run[r].predecessor /\ y.candidate = run[r].candidate
      /\ y.url = run[r].url
  BY <1>1, <1>3 DEF RunStates, PreUpload
<1>5. run' = [run EXCEPT ![r] = y] /\ UNCHANGED <<world, provider>>
  BY RunFacts DEF AcceptPrior, prior
<1> HIDE DEF y
<1>6. RunInv(history, y) /\ ~Owns(y)
  BY <1>1, <1>4
     DEF RunInv, References, CandidateFromList, StagesOfProduction, HasUrl, EditionProved,
         BytesProved, PredecessorProved, CandidateProved, Published, AfterUpload, Owns
<1> QED
  BY <1>4, <1>5, <1>6, MoveStep

\* The gate builds the site.
LEMMA BuildStep ==
  ASSUME DeployInv, NEW r \in Runs, Build(r)
  PROVE DeployInv'
<1> DEFINE y == [run[r] EXCEPT !.pc = "digest"]
<1>1. run[r].pc = "build" /\ run[r] \in RunStates /\ RunInv(history, run[r])
  BY RunFacts DEF Build
<1>2. BuildOf[tree[r]] \in Sites
  BY RunFacts DEF Sites
<1>3. dist' \in [Runs -> Sites] /\ UNCHANGED <<tree, provider>>
  BY <1>2, RunFacts DEF Build
<1>4. /\ y \in RunStates /\ y.pc = "digest" /\ y.mode = run[r].mode
      /\ y.predecessor = run[r].predecessor /\ y.candidate = run[r].candidate
      /\ y.url = run[r].url
  BY <1>1 DEF RunStates, PreUpload
<1>5. run' = [run EXCEPT ![r] = y]
  BY RunFacts DEF Build
<1> HIDE DEF y
<1>6. RunInv(history, y) /\ ~Owns(y)
  BY <1>1, <1>4
     DEF RunInv, References, CandidateFromList, StagesOfProduction, HasUrl, EditionProved,
         BytesProved, PredecessorProved, CandidateProved, Published, AfterUpload, Owns
<1>7. run' \in [Runs -> RunStates] /\ run'[r] = y /\ \A s \in Runs \ {r} : run'[s] = run[s]
  BY <1>4, <1>5, RunFacts
<1> QED
  BY <1>3, <1>6, <1>7, QuietRunStep

\* The digests of what is about to be published.
LEMMA DigestStep ==
  ASSUME DeployInv, NEW r \in Runs, Digest(r)
  PROVE DeployInv'
<1> DEFINE pc == CASE run[r].mode = "production" -> "confirm"
                   [] run[r].mode = "preview" -> "upload"
                   [] run[r].mode = "verify" -> "immutable"
           y == [run[r] EXCEPT !.expected = dist[r], !.pc = pc]
<1>1. run[r].pc = "digest" /\ run[r] \in RunStates /\ RunInv(history, run[r])
  BY RunFacts DEF Digest
<1>2. run[r].mode = "production" => run[r].prior.sources \in {dist[r].sources, Original}
  BY DEF Digest, EditionKept
<1>3. /\ run[r].mode \in {"production", "preview", "verify"}
      /\ run[r].mode = "production" => pc = "confirm"
      /\ run[r].mode = "preview" => pc = "upload"
      /\ run[r].mode = "verify" => pc = "immutable"
  BY <1>1 DEF RunStates
<1>4. /\ run' = [run EXCEPT ![r].expected = dist[r], ![r].pc = pc]
      /\ UNCHANGED <<world, provider>>
  BY DEF Digest
<1>5. pc \in PreUpload \cup AfterUpload \cup Ended /\ dist[r] \in Sites
  BY <1>3, RunFacts DEF PreUpload, AfterUpload, Ended
<1> HIDE DEF pc
<1>6. run' = [run EXCEPT ![r] = y]
  BY <1>4, RunFacts
<1>7. /\ y \in RunStates /\ y.pc = pc /\ y.mode = run[r].mode
      /\ y.predecessor = run[r].predecessor /\ y.candidate = run[r].candidate
      /\ y.url = run[r].url /\ y.prior = run[r].prior /\ y.expected = dist[r]
  BY <1>1, <1>5 DEF RunStates
<1> HIDE DEF y
<1>8. RunInv(history, y) /\ ~Owns(y)
  BY <1>1, <1>2, <1>3, <1>7
     DEF RunInv, References, CandidateFromList, StagesOfProduction, HasUrl, EditionProved,
         BytesProved, PredecessorProved, CandidateProved, Published, AfterUpload, Owns
<1> QED
  BY <1>4, <1>7, <1>8, <1>6, MoveStep

\* The gate changed nothing of what is public.
LEMMA ConfirmPriorStep ==
  ASSUME DeployInv, NEW r \in Runs, ConfirmPrior(r)
  PROVE DeployInv'
<1> DEFINE y == [run[r] EXCEPT !.pc = "relist", !.seen = {}]
<1>1. run[r].pc = "confirm" /\ run[r] \in RunStates /\ RunInv(history, run[r])
  BY RunFacts DEF ConfirmPrior
<1>2. /\ y \in RunStates /\ y.pc = "relist" /\ y.mode = run[r].mode
      /\ y.predecessor = run[r].predecessor /\ y.candidate = run[r].candidate
      /\ y.url = run[r].url /\ y.prior = run[r].prior /\ y.expected = run[r].expected
  BY <1>1 DEF RunStates, PreUpload
<1>3. run' = [run EXCEPT ![r] = y] /\ UNCHANGED <<world, provider>>
  BY RunFacts DEF ConfirmPrior
<1> HIDE DEF y
<1>4. RunInv(history, y) /\ (Owns(y) => Owns(run[r]) /\ y.url = run[r].url)
  BY <1>1, <1>2
     DEF RunInv, References, CandidateFromList, StagesOfProduction, HasUrl, EditionProved,
         BytesProved, PredecessorProved, CandidateProved, Published, AfterUpload, Owns
<1> QED
  BY <1>2, <1>3, <1>4, MoveStep

\* The last look before the upload.
LEMMA RelistStep ==
  ASSUME DeployInv, NEW r \in Runs, Relist(r)
  PROVE DeployInv'
<1> DEFINE y == [run[r] EXCEPT !.pc = "upload"]
<1>1. run[r].pc = "relist" /\ run[r] \in RunStates /\ RunInv(history, run[r])
  BY RunFacts DEF Relist
<1>2. /\ y \in RunStates /\ y.pc = "upload" /\ y.mode = run[r].mode
      /\ y.predecessor = run[r].predecessor /\ y.candidate = run[r].candidate
      /\ y.url = run[r].url /\ y.prior = run[r].prior /\ y.expected = run[r].expected
  BY <1>1 DEF RunStates, PreUpload
<1>3. run' = [run EXCEPT ![r] = y] /\ UNCHANGED <<world, provider>>
  BY RunFacts DEF Relist
<1> HIDE DEF y
<1>4. RunInv(history, y) /\ (Owns(y) => Owns(run[r]) /\ y.url = run[r].url)
  BY <1>1, <1>2
     DEF RunInv, References, CandidateFromList, StagesOfProduction, HasUrl, EditionProved,
         BytesProved, PredecessorProved, CandidateProved, Published, AfterUpload, Owns
<1> QED
  BY <1>2, <1>3, <1>4, MoveStep

\* The immutable deployment has the bytes that were proved.
LEMMA ReadImmutableStep ==
  ASSUME DeployInv, NEW r \in Runs, ReadImmutable(r)
  PROVE DeployInv'
<1> DEFINE pc == CASE run[r].mode = "production" -> "history"
                   [] run[r].mode = "preview" -> "done"
                   [] run[r].mode = "verify" -> "aliases"
           attempt == IF run[r].mode = "verify" THEN MaxAttempts ELSE 0
           y == [run[r] EXCEPT !.pc = pc, !.attempt = attempt]
<1>1. run[r].pc = "immutable" /\ run[r] \in RunStates /\ RunInv(history, run[r])
  BY RunFacts DEF ReadImmutable
<1>2. run[r].mode # "verify" =>
        /\ history[run[r].url].bytes.sources = run[r].expected.sources
        /\ history[run[r].url].bytes.schemas = run[r].expected.schemas
  BY DEF ReadImmutable, ImmutableMatches
<1>3. /\ run[r].mode \in {"production", "preview", "verify"}
      /\ run[r].mode = "production" => pc = "history"
      /\ run[r].mode = "preview" => pc = "done"
      /\ run[r].mode = "verify" => pc = "aliases"
  BY <1>1 DEF RunStates
<1>4. /\ run' = [run EXCEPT ![r].pc = pc, ![r].attempt = attempt]
      /\ UNCHANGED <<world, provider>>
  BY DEF ReadImmutable
<1>5. pc \in PreUpload \cup AfterUpload \cup Ended /\ attempt \in 0..MaxAttempts
  BY <1>3, DeployAssumption DEF PreUpload, AfterUpload, Ended
<1> HIDE DEF pc, attempt
<1>6. run' = [run EXCEPT ![r] = y]
  BY <1>4, RunFacts
<1>7. /\ y \in RunStates /\ y.pc = pc /\ y.mode = run[r].mode
      /\ y.predecessor = run[r].predecessor /\ y.candidate = run[r].candidate
      /\ y.url = run[r].url /\ y.prior = run[r].prior /\ y.expected = run[r].expected
  BY <1>1, <1>5 DEF RunStates
<1> HIDE DEF y
<1>8. RunInv(history, y) /\ (Owns(y) => Owns(run[r]) /\ y.url = run[r].url)
  BY <1>1, <1>2, <1>3, <1>7
     DEF RunInv, References, CandidateFromList, StagesOfProduction, HasUrl, EditionProved,
         BytesProved, PredecessorProved, CandidateProved, Published, AfterUpload, Owns
<1> QED
  BY <1>4, <1>7, <1>8, <1>6, MoveStep

\* It has not, or could not be read in time.
LEMMA ImmutableFailsStep ==
  ASSUME DeployInv, NEW r \in Runs, ImmutableFails(r)
  PROVE DeployInv'
<1>1. CASE run[r].mode = "production"
  <2> DEFINE y == [run[r] EXCEPT !.pc = "recover"]
  <2>1. run[r].pc = "immutable" /\ run[r] \in RunStates /\ RunInv(history, run[r])
    BY RunFacts DEF ImmutableFails
  <2>2. /\ y \in RunStates /\ y.pc = "recover" /\ y.mode = run[r].mode
        /\ y.predecessor = run[r].predecessor /\ y.candidate = run[r].candidate
        /\ y.url = run[r].url /\ y.prior = run[r].prior /\ y.expected = run[r].expected
    BY <2>1 DEF RunStates, AfterUpload
  <2>3. run' = [run EXCEPT ![r] = y] /\ UNCHANGED <<world, provider>>
    BY <1>1, RunFacts DEF ImmutableFails
  <2> HIDE DEF y
  <2>4. RunInv(history, y) /\ (Owns(y) => Owns(run[r]) /\ y.url = run[r].url)
    BY <1>1, <2>1, <2>2
       DEF RunInv, References, CandidateFromList, StagesOfProduction, HasUrl, EditionProved,
           BytesProved, PredecessorProved, CandidateProved, Published, AfterUpload, Owns
  <2> QED
    BY <2>2, <2>3, <2>4, MoveStep
<1>2. CASE run[r].mode # "production"
  <2>1. Fail(r, None, "immutable readback") /\ UNCHANGED <<world, provider>>
    BY <1>2 DEF ImmutableFails
  <2> QED
    BY <2>1, PlainReport DEF Reasons
<1> QED
  BY <1>1, <1>2

\* The list after the upload.
LEMMA ListAfterStep ==
  ASSUME DeployInv, NEW r \in Runs, ListAfter(r)
  PROVE DeployInv'
<1> DEFINE found == PredecessorOf(history, run[r].url)
           y == [run[r] EXCEPT !.pc = "aliases", !.attempt = 1, !.candidate = found]
<1>1. run[r].pc = "history" /\ run[r] \in RunStates /\ RunInv(history, run[r])
  BY RunFacts DEF ListAfter
<1>2. found = run[r].predecessor /\ QualifiedOf(history, run[r], run[r].predecessor)
  BY ListOperators DEF ListAfter, PredecessorKept
<1>3. 1 \in 0..MaxAttempts
  BY DeployAssumption
<1>4. found \in Nat
  BY <1>1, <1>2 DEF RunStates
<1>5. run' = [run EXCEPT ![r] = y] /\ UNCHANGED <<world, provider>>
  BY RunFacts, ListOperators DEF ListAfter
<1> HIDE DEF found
<1>6. /\ y \in RunStates /\ y.pc = "aliases" /\ y.mode = run[r].mode
      /\ y.predecessor = run[r].predecessor /\ y.candidate = found
      /\ y.url = run[r].url /\ y.prior = run[r].prior /\ y.expected = run[r].expected
  BY <1>1, <1>3, <1>4 DEF RunStates, AfterUpload
<1> HIDE DEF y
<1>7. QualifiedOf(history, y, y.predecessor)
  BY <1>2, <1>6 DEF QualifiedOf
<1>8. PredecessorOf(history, y.url) = y.predecessor
  BY <1>2, <1>6 DEF found
<1>9. RunInv(history, y) /\ (Owns(y) => Owns(run[r]) /\ y.url = run[r].url)
  BY <1>1, <1>2, <1>6, <1>7, <1>8
     DEF RunInv, References, CandidateFromList, StagesOfProduction, HasUrl, EditionProved,
         BytesProved, PredecessorProved, CandidateProved, Published, AfterUpload, Owns
<1> QED
  BY <1>5, <1>6, <1>9, MoveStep

\* A report with a candidate.
LEMMA CandidateReport ==
  ASSUME DeployInv, NEW r \in Runs, UNCHANGED <<world, provider>>,
         NEW candidate, candidate \in 0..Len(history), candidate # None,
         NEW reason \in Reasons, NEW y, y = ReportOf(run[r], candidate, reason),
         run' = [run EXCEPT ![r] = y],
         \/ reason \in {"no URL", "no history"}
         \/ /\ candidate = PredecessorOf(history, run[r].url)
            /\ QualifiedOf(history, run[r], candidate)
  PROVE DeployInv'
<1>1. candidate \in Nat
  BY RunFacts, Places
<1>2. run[r] \in RunStates /\ References(history, run[r])
  BY RunFacts DEF RunInv
<1>3. /\ y \in RunStates
      /\ y.pc = "failed" /\ y.mode = "production" /\ y.predecessor = None
      /\ y.candidate = candidate
      /\ candidate # None =>
           /\ y.url = run[r].url /\ y.prior = run[r].prior /\ y.expected = run[r].expected
           /\ y.reason = reason
      /\ candidate = None => y.url = None
  BY ONLY <1>1, <1>2, ReportTyped, y = ReportOf(run[r], candidate, reason), reason \in Reasons
<1>4. /\ y \in RunStates /\ y.pc = "failed" /\ y.mode = "production" /\ y.predecessor = None
      /\ y.candidate = candidate /\ y.url = run[r].url
      /\ y.prior = run[r].prior /\ y.expected = run[r].expected /\ y.reason = reason
  BY <1>3
<1>5. References(history, y)
  BY <1>2, <1>4, RunFacts, Places DEF References
<1>6. CandidateProved(history, y)
  BY <1>4 DEF CandidateProved, QualifiedOf
<1> QED
  BY <1>4, <1>5, <1>6, FailStep

\* A report with the candidate of before.
LEMMA KeptReport ==
  ASSUME DeployInv, NEW r \in Runs, UNCHANGED <<world, provider>>,
         NEW reason \in {"no URL", "no history"}, Fail(r, run[r].candidate, reason)
  PROVE DeployInv'
<1>1. CASE run[r].candidate = None
  BY <1>1, PlainReport DEF Reasons
<1>2. CASE run[r].candidate # None
  <2>1. PICK y : y = ReportOf(run[r], run[r].candidate, reason)
    OBVIOUS
  <2>2. run' = [run EXCEPT ![r] = y]
    BY <2>1 DEF Fail, ReportOf
  <2>3. run[r].candidate \in 0..Len(history) /\ reason \in Reasons
    BY RunFacts DEF RunInv, References, Reasons
  <2> QED
    BY <1>2, <2>1, <2>2, <2>3, CandidateReport
<1> QED
  BY <1>1, <1>2

\* After a failed readback.
LEMMA RecoverStep ==
  ASSUME DeployInv, NEW r \in Runs, Recover(r)
  PROVE DeployInv'
<1> DEFINE found == PredecessorOf(history, run[r].url)
<1>1. UNCHANGED <<world, provider>>
  BY DEF Recover
<1>2. \/ Fail(r, None, "immutable readback")
      \/ Fail(r, found, "immutable readback") /\ PredecessorKept(r)
  BY ListOperators DEF Recover
<1>3. CASE Fail(r, None, "immutable readback")
  BY <1>1, <1>3, PlainReport DEF Reasons
<1>4. CASE Fail(r, found, "immutable readback") /\ PredecessorKept(r)
  <2>1. found = run[r].predecessor /\ QualifiedOf(history, run[r], found)
    BY <1>4, ListOperators DEF PredecessorKept
  <2>2. found \in 0..Len(history) /\ found # None
    BY <2>1, RunFacts DEF RunInv, References, QualifiedOf
  <2>3. PICK y : y = ReportOf(run[r], found, "immutable readback")
    OBVIOUS
  <2>4. run' = [run EXCEPT ![r] = y]
    BY <1>4, <2>3 DEF Fail, ReportOf
  <2> QED
    BY <1>1, <2>1, <2>2, <2>3, <2>4, CandidateReport DEF Reasons
<1> QED
  BY <1>2, <1>3, <1>4

\* The list after the upload is not what it should be, or cannot be read.
LEMMA HistoryFailsStep ==
  ASSUME DeployInv, NEW r \in Runs, NEW read \in BOOLEAN, HistoryFails(r, read)
  PROVE DeployInv'
<1>1. UNCHANGED <<world, provider>>
  BY DEF HistoryFails
<1>2. Fail(r, None, "history") \/ Fail(r, run[r].candidate, "no history")
  BY DEF HistoryFails
<1>3. CASE Fail(r, None, "history")
  BY <1>1, <1>3, PlainReport DEF Reasons
<1>4. CASE Fail(r, run[r].candidate, "no history")
  BY <1>1, <1>4, KeptReport DEF Reasons
<1> QED
  BY <1>2, <1>3, <1>4

\* The aliases did not converge.
LEMMA NotConvergedStep ==
  ASSUME DeployInv, NEW r \in Runs, run[r].pc = "aliases", NotConverged(r)
  PROVE DeployInv'
<1> DEFINE found == run[r].candidate
<1>1. UNCHANGED <<world, provider>> /\ Fail(r, found, "readback")
  BY DEF NotConverged
<1>2. CASE found = None
  BY <1>1, <1>2, PlainReport DEF Reasons
<1>3. CASE found # None
  <2>1. run[r] \in RunStates /\ RunInv(history, run[r])
    BY RunFacts
  <2>2. run[r].mode = "production"
    BY <1>3, <2>1 DEF RunInv, CandidateFromList
  <2>3. found = PredecessorOf(history, run[r].url) /\ QualifiedOf(history, run[r], found)
    BY <2>1, <2>2 DEF RunInv, PredecessorProved
  <2>4. found \in 0..Len(history)
    BY <2>1 DEF RunInv, References
  <2>5. PICK y : y = ReportOf(run[r], found, "readback")
    OBVIOUS
  <2>6. run' = [run EXCEPT ![r] = y]
    BY <1>1, <2>5 DEF Fail, ReportOf
  <2> QED
    BY <1>1, <1>3, <2>3, <2>4, <2>5, <2>6, CandidateReport DEF Reasons
<1> QED
  BY <1>2, <1>3

\* The reads of an attempt are a list.
LEMMA AliasReadsListed ==
  ASSUME NEW mode
  PROVE Len(AliasReads(mode)) \in Nat /\ DOMAIN AliasReads(mode) = 1..Len(AliasReads(mode))
<1>1. CASE mode = "verify"
  <2>1. AliasReads(mode) = <<<<"apex", "pages">>, <<"www", "pages">>, <<"forms", "schemas">>>>
    BY <1>1 DEF AliasReads
  <2> QED
    BY <2>1
<1>2. CASE mode # "verify"
  <2>1. AliasReads(mode) = <<<<"apex", "pages">>, <<"apex", "sources">>, <<"www", "pages">>,
                             <<"www", "sources">>, <<"forms", "schemas">>>>
    BY <1>2 DEF AliasReads
  <2> QED
    BY <2>1
<1> QED
  BY <1>1, <1>2

\* A read of an alias.
LEMMA ReadAliasStep ==
  ASSUME DeployInv, NEW r \in Runs, ReadAlias(r)
  PROVE DeployInv'
<1> DEFINE reads == AliasReads(run[r].mode)
           next == {i \in DOMAIN reads : i > run[r].place /\ reads[i][1] # reads[run[r].place][1]}
           skip == IF next = {} THEN Len(reads) + 1 ELSE CHOOSE i \in next : \A j \in next : i <= j
<1>1. run[r].pc = "aliases" /\ run[r] \in RunStates /\ RunInv(history, run[r])
  BY RunFacts DEF ReadAlias
<1>2. run[r].place \in Nat /\ run[r].ok \in BOOLEAN
  BY <1>1 DEF RunStates
<1>3. Len(reads) \in Nat /\ DOMAIN reads = 1..Len(reads)
  BY AliasReadsListed
<1>4. skip \in Nat
  <2>1. CASE next = {}
    BY <1>3, <2>1
  <2>2. CASE next # {}
    <3>1. next \subseteq Nat
      BY <1>3
    <3>2. \E i \in next : \A j \in next : i <= j
      BY <2>2, <3>1, LeastExists
    <3>3. skip \in next
      BY <2>2, <3>2
    <3> QED
      BY <3>1, <3>3
  <2> QED
    BY <2>1, <2>2
<1>5. /\ UNCHANGED <<world, provider>>
      /\ \/ run' = [run EXCEPT ![r].place = @ + 1]
         \/ run' = [run EXCEPT ![r].ok = FALSE, ![r].place = skip]
  BY DEF ReadAlias
<1> HIDE DEF skip
<1>6. \E place \in Nat, ok \in BOOLEAN :
        run' = [run EXCEPT ![r] = [run[r] EXCEPT !.place = place, !.ok = ok]]
  <2>1. CASE run' = [run EXCEPT ![r].place = @ + 1]
    <3>1. run[r].place + 1 \in Nat
      BY <1>2
    <3>2. [run[r] EXCEPT !.place = @ + 1] =
            [run[r] EXCEPT !.place = run[r].place + 1, !.ok = run[r].ok]
      BY <1>1 DEF RunStates
    <3>3. run' = [run EXCEPT ![r] = [run[r] EXCEPT !.place = @ + 1]]
      BY <2>1, RunFacts
    <3> QED
      BY <1>2, <3>1, <3>2, <3>3
  <2>2. CASE run' = [run EXCEPT ![r].ok = FALSE, ![r].place = skip]
    <3>1. [run[r] EXCEPT !.ok = FALSE, !.place = skip] =
            [run[r] EXCEPT !.place = skip, !.ok = FALSE]
      BY <1>1 DEF RunStates
    <3>2. run' = [run EXCEPT ![r] = [run[r] EXCEPT !.ok = FALSE, !.place = skip]]
      BY <2>2, RunFacts
    <3> QED
      BY <1>4, <3>1, <3>2
  <2> QED
    BY <1>5, <2>1, <2>2
<1>7. PICK place \in Nat, ok \in BOOLEAN :
        run' = [run EXCEPT ![r] = [run[r] EXCEPT !.place = place, !.ok = ok]]
  BY <1>6
<1> DEFINE y == [run[r] EXCEPT !.place = place, !.ok = ok]
<1>8. /\ y \in RunStates /\ y.pc = run[r].pc /\ y.mode = run[r].mode
      /\ y.predecessor = run[r].predecessor /\ y.candidate = run[r].candidate
      /\ y.url = run[r].url /\ y.prior = run[r].prior /\ y.expected = run[r].expected
  BY <1>1 DEF RunStates
<1>9. run' = [run EXCEPT ![r] = y]
  BY <1>7
<1> HIDE DEF y
<1>10. RunInv(history, y) /\ (Owns(y) => Owns(run[r]) /\ y.url = run[r].url)
  BY <1>1, <1>8
     DEF RunInv, References, CandidateFromList, StagesOfProduction, HasUrl, EditionProved,
         BytesProved, PredecessorProved, QualifiedOf, CandidateProved, Published, AfterUpload, Owns
<1> QED
  BY <1>5, <1>8, <1>9, <1>10, MoveStep

\* Every origin answered with the bytes that were proved.
LEMMA ConvergedStep ==
  ASSUME DeployInv, NEW r \in Runs, Converged(r)
  PROVE DeployInv'
<1> DEFINE y == [run[r] EXCEPT !.pc = "done"]
<1>1. run[r].pc = "aliases" /\ run[r] \in RunStates /\ RunInv(history, run[r])
  BY RunFacts DEF Converged, AttemptOver
<1>2. /\ y \in RunStates /\ y.pc = "done" /\ y.mode = run[r].mode
      /\ y.predecessor = run[r].predecessor /\ y.candidate = run[r].candidate
      /\ y.url = run[r].url /\ y.prior = run[r].prior /\ y.expected = run[r].expected
  BY <1>1 DEF RunStates, Ended
<1>3. run' = [run EXCEPT ![r] = y] /\ UNCHANGED <<world, provider>>
  BY RunFacts DEF Converged
<1> HIDE DEF y
<1>4. RunInv(history, y) /\ (Owns(y) => Owns(run[r]) /\ y.url = run[r].url)
  BY <1>1, <1>2
     DEF RunInv, References, CandidateFromList, StagesOfProduction, HasUrl, EditionProved,
         BytesProved, PredecessorProved, QualifiedOf, CandidateProved, Published, AfterUpload, Owns
<1> QED
  BY <1>2, <1>3, <1>4, MoveStep

\* Another attempt.
LEMMA NextAttemptStep ==
  ASSUME DeployInv, NEW r \in Runs, NextAttempt(r)
  PROVE DeployInv'
<1> DEFINE y == [run[r] EXCEPT !.attempt = @ + 1, !.place = 1, !.ok = TRUE]
<1>1. run[r].pc = "aliases" /\ run[r] \in RunStates /\ RunInv(history, run[r])
  BY RunFacts DEF NextAttempt, AttemptOver
<1>2. run[r].attempt \in 0..MaxAttempts /\ run[r].attempt < MaxAttempts
  BY <1>1 DEF NextAttempt, RunStates
<1>3. run[r].attempt + 1 \in 0..MaxAttempts
  BY <1>2, DeployAssumption
<1>4. /\ y \in RunStates /\ y.pc = "aliases" /\ y.mode = run[r].mode
      /\ y.predecessor = run[r].predecessor /\ y.candidate = run[r].candidate
      /\ y.url = run[r].url /\ y.prior = run[r].prior /\ y.expected = run[r].expected
  BY <1>1, <1>3 DEF RunStates, AfterUpload
<1>5. run' = [run EXCEPT ![r] = y] /\ UNCHANGED <<world, provider>>
  BY RunFacts DEF NextAttempt
<1> HIDE DEF y
<1>6. RunInv(history, y) /\ (Owns(y) => Owns(run[r]) /\ y.url = run[r].url)
  BY <1>1, <1>4
     DEF RunInv, References, CandidateFromList, StagesOfProduction, HasUrl, EditionProved,
         BytesProved, PredecessorProved, QualifiedOf, CandidateProved, Published, AfterUpload, Owns
<1> QED
  BY <1>4, <1>5, <1>6, MoveStep

-----------------------------------------------------------------------------
(* A step of the provider, and of everyone else.                             *)

\* A deployment more, by one run.
LEMMA GrowStep ==
  ASSUME DeployInv, NEW r \in Runs, UNCHANGED <<world, alias>>,
         NEW new \in Deployments, history' = Append(history, new),
         promoted' = promoted \/ (new.production /\ new.ok /\ promoted' = Len(history) + 1),
         NEW y \in RunStates, run' = [run EXCEPT ![r] = y],
         RunInv(Append(history, new), y), Owns(y) => y.url = Len(history) + 1
  PROVE DeployInv'
<1> DEFINE h == Append(history, new)
<1>1. /\ h \in Seq(Deployments) /\ Len(h) = Len(history) + 1 /\ h[Len(history) + 1] = new
      /\ Len(history) \in Nat /\ history \in Seq(Deployments)
  BY RunFacts
<1>2. \A d \in SuccessfulOf(history) : d \in SuccessfulOf(h)
  <2>1. \A d \in SuccessfulOf(history) : d \in 0..Len(history)
    BY <1>1 DEF SuccessfulOf
  <2> QED
    BY <1>1, <2>1, AppendKeeps
<1>3. promoted' \in SuccessfulOf(h)
  <2>1. CASE promoted' = promoted
    BY <1>2, <2>1 DEF DeployInv, Types
  <2>2. CASE new.production /\ new.ok /\ promoted' = Len(history) + 1
    <3>1. Len(history) + 1 \in DOMAIN h
      BY <1>1
    <3> QED
      BY <1>1, <2>2, <3>1 DEF SuccessfulOf
  <2> QED
    BY <2>1, <2>2
<1>4. run' \in [Runs -> RunStates] /\ run'[r] = y /\ \A s \in Runs \ {r} : run'[s] = run[s]
  BY RunFacts
<1>5. alias' \in [Origins -> SuccessfulOf(h)]
  BY <1>2 DEF DeployInv, Types
<1>6. Types'
  BY <1>1, <1>3, <1>4, <1>5 DEF DeployInv, Types, world
<1>7. ASSUME NEW s \in Runs PROVE RunInv(h, run'[s])
  <2>1. CASE s = r
    BY <1>4, <2>1
  <2>2. CASE s # r
    <3>1. RunInv(history, run[s]) /\ run[s] \in RunStates
      BY RunFacts
    <3>2. RunInv(h, run[s])
      BY <1>1, <3>1, AppendKeepsRun
    <3> QED
      BY <1>4, <2>2, <3>2
  <2> QED
    BY <2>1, <2>2
<1>8. UrlsDiffer'
  <2> SUFFICES ASSUME NEW s \in Runs, NEW t \in Runs, s # t, Owns(run'[s]), Owns(run'[t])
               PROVE run'[s].url # run'[t].url
    BY DEF UrlsDiffer
  <2>1. \A u \in Runs \ {r} : run[u].url \in 0..Len(history)
    BY RunFacts DEF RunInv, References
  <2>2. CASE s = r
    BY <1>1, <1>4, <2>1, <2>2
  <2>3. CASE t = r
    BY <1>1, <1>4, <2>1, <2>3
  <2>4. CASE s # r /\ t # r
    BY <1>4, <2>4 DEF DeployInv, UrlsDiffer
  <2> QED
    BY <2>2, <2>3, <2>4
<1> QED
  BY <1>6, <1>7, <1>8 DEF DeployInv

\* What is stored of an upload.
LEMMA DeployFacts ==
  ASSUME DeployInv, NEW r \in Runs, NEW ok \in BOOLEAN, Deploy(r, ok)
  PROVE \E new \in Deployments :
          /\ new.bytes = dist[r]
          /\ history' = Append(history, new) /\ UNCHANGED <<world, alias>>
          /\ promoted' = promoted \/ (new.production /\ new.ok /\ promoted' = Len(history) + 1)
<1> DEFINE new == [bytes |-> dist[r], production |-> run[r].mode = "production", ok |-> ok]
<1>1. new \in Deployments /\ new.bytes = dist[r] /\ new.ok = ok
      /\ new.production = (run[r].mode = "production")
  BY RunFacts DEF Deployments
<1>2. history' = Append(history, new) /\ UNCHANGED <<world, alias>>
  BY DEF Deploy
<1>3. promoted' = promoted \/ (run[r].mode = "production" /\ ok /\ promoted' = Len(history) + 1)
  BY DEF Deploy
<1> HIDE DEF new
<1> QED
  BY <1>1, <1>2, <1>3

\* The end of a run that sent something and knows nothing of it.
LEMMA EndedRun ==
  ASSUME NEW h \in Seq(Deployments), NEW y \in RunStates,
         y.pc \in {"failed", "unknown"}, y.mode = "production", y.predecessor = None,
         References(h, y), CandidateProved(h, y)
  PROVE RunInv(h, y) /\ ~Owns(y)
BY DEF RunInv, CandidateFromList, StagesOfProduction, HasUrl, EditionProved, BytesProved,
       PredecessorProved, Published, AfterUpload, Owns

\* The upload is acknowledged.
LEMMA UploadStep ==
  ASSUME DeployInv, NEW r \in Runs, NEW printed \in BOOLEAN, Upload(r, printed)
  PROVE DeployInv'
<1>1. PICK new \in Deployments :
        /\ history' = Append(history, new) /\ UNCHANGED <<world, alias>>
        /\ promoted' = promoted \/ (new.production /\ new.ok /\ promoted' = Len(history) + 1)
  BY DeployFacts DEF Upload
<1> DEFINE h == Append(history, new)
<1>2. history \in Seq(Deployments) /\ Len(history) \in Nat
  BY RunFacts
<1>3. h \in Seq(Deployments) /\ Len(h) = Len(history) + 1
  BY <1>2
<1>4. run[r] \in RunStates /\ RunInv(history, run[r])
  BY RunFacts
<1>5. RunInv(h, run[r])
  BY <1>2, <1>4, AppendKeepsRun
<1>6. run[r].pc = "upload"
  BY DEF Upload
<1> HIDE DEF h
<1>7. CASE printed
  <2> DEFINE url == Len(history) + 1
             y == [run[r] EXCEPT !.pc = "immutable", !.url = url]
  <2>1. run' = [run EXCEPT ![r] = y]
    BY <1>7, RunFacts DEF Upload
  <2>2. url \in Nat /\ url \in 0..Len(h) /\ url # None /\ url = Len(history) + 1
    BY <1>2, <1>3 DEF None
  <2> HIDE DEF url
  <2>3. /\ y \in RunStates /\ y.pc = "immutable" /\ y.mode = run[r].mode
        /\ y.predecessor = run[r].predecessor /\ y.candidate = run[r].candidate
        /\ y.url = url /\ y.prior = run[r].prior /\ y.expected = run[r].expected
    BY <1>4, <2>2 DEF RunStates, AfterUpload
  <2> HIDE DEF y
  <2>4. RunInv(h, y)
    BY <1>5, <1>6, <2>2, <2>3
       DEF RunInv, References, CandidateFromList, StagesOfProduction, HasUrl, EditionProved,
           BytesProved, PredecessorProved, CandidateProved, Published, AfterUpload
  <2> QED
    BY <1>1, <2>1, <2>2, <2>3, <2>4, GrowStep DEF h
<1>8. CASE ~printed
  <2>1. PICK reason \in Reasons : reason = "no URL"
    BY DEF Reasons
  <2>2. PICK y : y = ReportOf(run[r], run[r].candidate, reason)
    OBVIOUS
  <2>3. run' = [run EXCEPT ![r] = y]
    BY <1>8, <2>1, <2>2 DEF Upload, Fail, ReportOf
  <2>4. run[r] \in RunStates
    BY <1>4
  <2>5. run[r].candidate \in Nat
    BY <1>4 DEF RunStates
  <2>6. /\ y \in RunStates
        /\ y.pc = "failed" /\ y.mode = "production" /\ y.predecessor = None
        /\ y.candidate = run[r].candidate
        /\ run[r].candidate # None =>
             /\ y.url = run[r].url /\ y.prior = run[r].prior /\ y.expected = run[r].expected
             /\ y.reason = reason
        /\ run[r].candidate = None => y.url = None
    BY ONLY <2>2, <2>4, <2>5, ReportTyped, reason \in Reasons
  <2>7. References(h, y)
    BY <1>3, <1>5, <2>6, Places DEF RunInv, References
  <2>8. CandidateProved(h, y)
    BY <2>1, <2>6 DEF CandidateProved
  <2>9. RunInv(h, y) /\ ~Owns(y)
    BY <1>3, <2>6, <2>7, <2>8, EndedRun
  <2> QED
    BY <1>1, <2>3, <2>6, <2>9, GrowStep DEF h
<1> QED
  BY <1>7, <1>8

\* The upload failed; the target may or may not have changed.
LEMMA UploadFailsStep ==
  ASSUME DeployInv, NEW r \in Runs, UploadFails(r)
  PROVE DeployInv'
<1> DEFINE y == [NoRun EXCEPT !.pc = "unknown"]
<1>1. /\ y \in RunStates /\ y.pc = "unknown" /\ y.mode = "production" /\ y.predecessor = None
      /\ y.candidate = None /\ y.url = None
  BY NoRunTyped DEF RunStates, NoRun, Ended
<1>2. run' = [run EXCEPT ![r] = y]
  BY DEF UploadFails
<1> HIDE DEF y
<1>3. ASSUME NEW h \in Seq(Deployments) PROVE RunInv(h, y) /\ ~Owns(y)
  <2>1. References(h, y) /\ CandidateProved(h, y)
    BY <1>1, Places DEF References, CandidateProved
  <2> QED
    BY <1>1, <2>1, EndedRun
<1>4. CASE UNCHANGED <<world, provider>>
  <2>1. RunInv(history, y) /\ ~Owns(y)
    BY <1>3, RunFacts
  <2> QED
    BY <1>1, <1>2, <1>4, <2>1, MoveStep
<1>5. CASE \E ok \in BOOLEAN : Deploy(r, ok)
  <2>1. PICK new \in Deployments :
          /\ history' = Append(history, new) /\ UNCHANGED <<world, alias>>
          /\ promoted' = promoted \/ (new.production /\ new.ok /\ promoted' = Len(history) + 1)
    BY <1>5, DeployFacts
  <2>2. Append(history, new) \in Seq(Deployments)
    BY RunFacts
  <2>3. RunInv(Append(history, new), y) /\ ~Owns(y)
    BY <1>3, <2>2
  <2> QED
    BY <1>1, <1>2, <2>1, <2>3, GrowStep
<1> QED
  BY <1>4, <1>5 DEF UploadFails

\* Worktrees, main, aliases and the provider's choice.
LEMMA ElsewhereStep ==
  ASSUME DeployInv, Elsewhere
  PROVE DeployInv'
<1>1. UNCHANGED <<history, run>>
  BY DEF Elsewhere, Checkout, Rebuild, AdvanceMain, Promote, Propagate, provider, world
<1>2. tree' \in [Runs -> Worktrees]
  BY DEF DeployInv, Types, Elsewhere, Checkout, Rebuild, AdvanceMain, Promote, Propagate, world,
         Worktrees
<1>3. dist' \in [Runs -> Sites]
  <2>1. \A t \in Trees : BuildOf[t] \in Sites
    BY DEF Sites, Worktrees
  <2> QED
    BY <2>1 DEF DeployInv, Types, Elsewhere, Checkout, Rebuild, AdvanceMain, Promote, Propagate,
                world
<1>4. promoted' \in SuccessfulOf(history)
  BY ListOperators
     DEF DeployInv, Types, Elsewhere, Checkout, Rebuild, AdvanceMain, Promote, Propagate, provider
<1>5. alias' \in [Origins -> SuccessfulOf(history)]
  BY DEF DeployInv, Types, Elsewhere, Checkout, Rebuild, AdvanceMain, Promote, Propagate, provider
<1>6. Types'
  BY <1>1, <1>2, <1>3, <1>4, <1>5 DEF DeployInv, Types
<1> QED
  BY <1>1, <1>6 DEF DeployInv, UrlsDiffer

-----------------------------------------------------------------------------
(* The invariant.                                                            *)

\* One deployment is public, by nobody's run.
LEMMA InitStep == Init => DeployInv
<1> SUFFICES ASSUME Init PROVE DeployInv
  OBVIOUS
<1> DEFINE first == [bytes |-> First, production |-> TRUE, ok |-> TRUE]
<1>1. history = <<first>> /\ first \in Deployments
  BY DEF Init, Deployments, Sites
<1>2. history \in Seq(Deployments) /\ DOMAIN history = 1..1 /\ Len(history) = 1 /\ history[1] = first
  BY <1>1
<1>3. 1 \in SuccessfulOf(history)
  BY <1>2 DEF SuccessfulOf
<1>4. tree \in [Runs -> Worktrees] /\ dist \in [Runs -> Sites]
  BY DEF Init, Worktrees, Sites
<1>5. run = [r \in Runs |-> NoRun] /\ run \in [Runs -> RunStates]
  BY NoRunTyped DEF Init
<1>6. Types
  BY <1>2, <1>3, <1>4, <1>5 DEF Init, Types
<1>7. RunInv(history, NoRun) /\ ~Owns(NoRun)
  BY <1>2, Places
     DEF NoRun, RunInv, References, CandidateFromList, StagesOfProduction, HasUrl, EditionProved,
         BytesProved, PredecessorProved, CandidateProved, Published, AfterUpload, Owns
<1> QED
  BY <1>5, <1>6, <1>7 DEF DeployInv, UrlsDiffer

\* Whatever a run does.
LEMMA RunStepStep ==
  ASSUME DeployInv, NEW r \in Runs, RunStep(r)
  PROVE DeployInv'
<1>1. CASE Refuse(r)
  BY <1>1, RefuseStep
<1>2. CASE \E mode \in ModesOf[r] : Start(r, mode)
  BY <1>2, StartStep
<1>3. CASE ListBefore(r)
  BY <1>3, ListBeforeStep
<1>4. CASE \E d \in DOMAIN history : ListKnown(r, d)
  <2>1. \E d \in Successful : ListKnown(r, d)
    BY <1>4 DEF ListKnown
  <2> QED
    BY <2>1, ListKnownStep
<1>5. CASE \E origin \in Origins : ReadPrior(r, origin)
  BY <1>5, ReadPriorStep
<1>6. CASE AcceptPrior(r)
  BY <1>6, AcceptPriorStep
<1>7. CASE Build(r)
  BY <1>7, BuildStep
<1>8. CASE Digest(r)
  BY <1>8, DigestStep
<1>9. CASE ConfirmPrior(r)
  BY <1>9, ConfirmPriorStep
<1>10. CASE Relist(r)
  BY <1>10, RelistStep
<1>11. CASE \E printed \in BOOLEAN : Upload(r, printed)
  BY <1>11, UploadStep
<1>12. CASE UploadFails(r)
  BY <1>12, UploadFailsStep
<1>13. CASE ReadImmutable(r)
  BY <1>13, ReadImmutableStep
<1>14. CASE ImmutableFails(r)
  BY <1>14, ImmutableFailsStep
<1>15. CASE Recover(r)
  BY <1>15, RecoverStep
<1>16. CASE ListAfter(r)
  BY <1>16, ListAfterStep
<1>17. CASE \E read \in BOOLEAN : HistoryFails(r, read)
  BY <1>17, HistoryFailsStep
<1>18. CASE ReadAlias(r)
  BY <1>18, ReadAliasStep
<1>19. CASE Converged(r)
  BY <1>19, ConvergedStep
<1>20. CASE NextAttempt(r)
  BY <1>20, NextAttemptStep
<1>21. CASE AttemptsExhausted(r)
  BY <1>21, NotConvergedStep DEF AttemptsExhausted, AttemptOver
<1>22. CASE DeadlineElapses(r)
  BY <1>22, ImmutableFailsStep, NotConvergedStep DEF DeadlineElapses
<1> QED
  BY <1>1, <1>2, <1>3, <1>4, <1>5, <1>6, <1>7, <1>8, <1>9, <1>10, <1>11, <1>12, <1>13, <1>14,
     <1>15, <1>16, <1>17, <1>18, <1>19, <1>20, <1>21, <1>22
     DEF RunStep

\* Whatever anyone does.
LEMMA NextStep == DeployInv /\ [Next]_vars => DeployInv'
<1> SUFFICES ASSUME DeployInv, [Next]_vars PROVE DeployInv'
  OBVIOUS
<1>1. CASE \E r \in Runs : RunStep(r)
  BY <1>1, RunStepStep
<1>2. CASE Elsewhere
  BY <1>2, ElsewhereStep
<1>3. CASE UNCHANGED vars
  BY <1>3 DEF vars, DeployInv, Types, UrlsDiffer
<1> QED
  BY <1>1, <1>2, <1>3 DEF Next

\* Everything the operators prove of the provider's list and of their own runs stays
\* so, at every point at which another operator, the provider or someone in a worktree
\* may step in.
THEOREM DeployInvAlways == Spec => []DeployInv
<1>1. Init => DeployInv
  BY InitStep
<1>2. DeployInv /\ [Next]_vars => DeployInv'
  BY NextStep
<1> QED
  BY <1>1, <1>2, PTL DEF Spec

\* Every deployment a run or the provider refers to is in the list, and what is served
\* is a successful production deployment.
THEOREM TypeOKAlways == Spec => []TypeOK
<1>1. ASSUME DeployInv, NEW r \in Runs
      PROVE /\ run[r].pc \in PreUpload \cup AfterUpload \cup Ended
            /\ {run[r].predecessor, run[r].url, run[r].candidate} \subseteq {None} \cup DOMAIN history
            /\ run[r].attempt \in 0..MaxAttempts
  <2>1. References(history, run[r])
    BY <1>1, RunFacts DEF RunInv
  <2>2. 0..Len(history) \subseteq {None} \cup DOMAIN history
    BY <1>1, RunFacts DEF None
  <2>3. {run[r].predecessor, run[r].url, run[r].candidate} \subseteq {None} \cup DOMAIN history
    BY <2>1, <2>2 DEF References
  <2>4. run[r] \in RunStates
    BY <1>1, RunFacts
  <2> QED
    BY <2>3, <2>4 DEF RunStates
<1>2. DeployInv => promoted \in Successful /\ \A o \in Origins : alias[o] \in Successful
  BY ListOperators DEF DeployInv, Types
<1>3. DeployInv => TypeOK
  BY <1>1, <1>2 DEF TypeOK
<1> QED
  BY <1>3, DeployInvAlways, PTL

-----------------------------------------------------------------------------
(* What it says of the reports.                                              *)

\* The deployment a successful publication replaced.
LEMMA DoneFacts ==
  ASSUME DeployInv, NEW r \in Runs, run[r].pc = "done", run[r].mode = "production"
  PROVE /\ Predecessor(run[r].url) = run[r].predecessor
        /\ Qualified(r, run[r].predecessor)
        /\ history[run[r].url].bytes.sources = run[r].expected.sources
        /\ history[run[r].url].bytes.schemas = run[r].expected.schemas
        /\ run[r].prior.sources \in {run[r].expected.sources, Original}
        /\ Owns(run[r]) /\ run[r].url \in Nat
<1>1. RunInv(history, run[r]) /\ run[r] \in RunStates
  BY RunFacts
<1>2. /\ PredecessorOf(history, run[r].url) = run[r].predecessor
      /\ QualifiedOf(history, run[r], run[r].predecessor)
  BY <1>1 DEF RunInv, PredecessorProved
<1>3. /\ history[run[r].url].bytes.sources = run[r].expected.sources
      /\ history[run[r].url].bytes.schemas = run[r].expected.schemas
      /\ run[r].prior.sources \in {run[r].expected.sources, Original}
  BY <1>1 DEF RunInv, BytesProved, EditionProved, Published
<1>4. run[r].url \in Nat
  BY <1>1 DEF RunStates
<1> QED
  BY <1>2, <1>3, <1>4, ListOperators DEF Owns, Published

\* A successful publication replaced exactly the deployment it was proved against,
\* with the same schemas, and an edition it may replace: whoever else published,
\* rolled back or edited in the meantime (scripts/site-deploy.mjs, the two lists and
\* the projection around the gate).
THEOREM ExactPredecessorAlways == Spec => []ExactPredecessor
<1>1. ASSUME DeployInv, NEW r \in Runs, run[r].pc = "done", run[r].mode = "production"
      PROVE /\ Predecessor(run[r].url) # None /\ Predecessor(run[r].url) = run[r].predecessor
            /\ Projection(history[run[r].predecessor].bytes) = run[r].prior
            /\ history[run[r].predecessor].bytes.schemas = history[run[r].url].bytes.schemas
            /\ history[run[r].predecessor].bytes.sources
                 \in {history[run[r].url].bytes.sources, Original}
  <2>1. run[r].predecessor # None /\ Predecessor(run[r].url) = run[r].predecessor
    BY <1>1, DoneFacts DEF Qualified
  <2>2. /\ Projection(history[run[r].predecessor].bytes) = run[r].prior
        /\ history[run[r].predecessor].bytes.schemas = run[r].expected.schemas
    BY <1>1, DoneFacts DEF Qualified
  <2>3. history[run[r].predecessor].bytes.sources = run[r].prior.sources
    BY <2>2 DEF Projection
  <2> QED
    BY <1>1, <2>1, <2>2, <2>3, DoneFacts
<1>2. DeployInv => ExactPredecessor
  BY <1>1 DEF ExactPredecessor
<1> QED
  BY <1>2, DeployInvAlways, PTL

\* Two publications that succeed never replaced the same deployment: the refreshed
\* list after the upload shows the later of them that it was overtaken.
THEOREM OneSuccessorAlways == Spec => []OneSuccessor
<1>1. ASSUME DeployInv, NEW r \in Runs, NEW s \in Runs, r # s,
             run[r].mode = "production", run[s].mode = "production",
             run[r].pc = "done", run[s].pc = "done", run[r].url < run[s].url
      PROVE run[r].predecessor # run[s].predecessor
  <2> DEFINE older(x) == PredecessorOf(history, run[x].url)
  <2>1. \A x \in {r, s} : older(x) = run[x].predecessor /\ older(x) # None /\ run[x].url \in Nat
    BY <1>1, DoneFacts, ListOperators DEF Qualified
  <2>2. history \in Seq(Deployments)
    BY <1>1, RunFacts
  <2>3. run[r].url \in SuccessfulOf(history) /\ older(r) \in OlderOf(history, run[r].url)
    BY <2>1, <2>2, PredecessorIsNewest
  <2>4. run[r].url \in OlderOf(history, run[s].url)
    BY <1>1, <2>3 DEF OlderOf
  <2>5. run[r].url <= older(s)
    BY <2>1, <2>2, <2>4, PredecessorIsNewest
  <2>6. older(r) < run[r].url
    BY <2>3 DEF OlderOf
  <2>7. run[r].predecessor < run[r].url /\ run[r].url <= run[s].predecessor
    BY <2>1, <2>5, <2>6
  <2>8. run[r].predecessor \in Nat /\ run[s].predecessor \in Nat /\ run[r].url \in Nat
    BY <1>1, <2>1, RunFacts DEF RunStates
  <2> QED
    BY <2>7, <2>8
<1>2. ASSUME DeployInv, NEW r \in Runs, NEW s \in Runs, r # s,
             run[r].mode = "production", run[s].mode = "production",
             run[r].pc = "done", run[s].pc = "done"
      PROVE run[r].predecessor # run[s].predecessor
  <2>1. run[r].url # run[s].url
    BY <1>2, DoneFacts DEF DeployInv, UrlsDiffer
  <2>2. run[r].url < run[s].url \/ run[s].url < run[r].url
    BY <1>2, <2>1, DoneFacts
  <2> QED
    BY <1>1, <1>2, <2>2
<1>3. DeployInv => OneSuccessor
  BY <1>2 DEF OneSuccessor
<1> QED
  BY <1>3, DeployInvAlways, PTL

\* The candidate a failed readback offers is the deployment right before the upload,
\* and still serves what was public before it, with the same schemas.
THEOREM CandidateQualifiedAlways == Spec => []CandidateQualified
<1>1. ASSUME DeployInv, NEW r \in Runs, run[r].pc = "failed", run[r].candidate # None,
             run[r].reason \in {"immutable readback", "readback"}
      PROVE run[r].candidate = Predecessor(run[r].url) /\ Qualified(r, run[r].candidate)
  <2>1. CandidateProved(history, run[r])
    BY <1>1, RunFacts DEF RunInv
  <2> QED
    BY <1>1, <2>1, ListOperators DEF CandidateProved
<1>2. DeployInv => CandidateQualified
  BY <1>1 DEF CandidateQualified
<1> QED
  BY <1>2, DeployInvAlways, PTL

-----------------------------------------------------------------------------
(* What a success has been shown.                                            *)

\* What there is to say of a run in state x with the reads sv served to it: it has
\* read nothing of the aliases before it gets to them,
Fresh(x) == x.pc \in PreUpload \cup {"immutable", "recover", "history"} => x.place = 1
\* its URL, where it is the caller's, is in the list,
Looked(h, x) ==
  x.mode = "verify" /\ x.pc \in {"build", "digest", "immutable", "aliases", "done"}
  => x.url \in DOMAIN h
\* the deployment has the bytes it proved, once it has read them,
Matched(h, x) ==
  x.pc \in {"history", "aliases", "done"}
  => /\ x.url \in DOMAIN h
     /\ h[x.url].bytes.pages = x.expected.pages
     /\ h[x.url].bytes.schemas = x.expected.schemas
     /\ x.mode # "verify" => h[x.url].bytes.sources = x.expected.sources
\* and an attempt that is all right so far has been served what it read so far.
Answered(x, sv) ==
  /\ x.pc = "aliases"
     => /\ x.place \in 1..(Len(AliasReads(x.mode)) + 1)
        /\ x.ok => \A i \in 1..(x.place - 1) : AliasReads(x.mode)[i] \in sv
  /\ x.pc = "done" /\ x.mode # "preview"
     => \A i \in DOMAIN AliasReads(x.mode) : AliasReads(x.mode)[i] \in sv

ServedOK(h, x, sv) == Fresh(x) /\ Looked(h, x) /\ Matched(h, x) /\ Answered(x, sv)

ServedInv == DeployInv /\ \A r \in Runs : ServedOK(history, run[r], served[r])

\* What is observed of the reads of a run that is done, or goes on with its attempt.
LEMMA Observed ==
  ASSUME Observe, NEW r \in Runs
  PROVE /\ run'[r].pc = "done" => served'[r] = served[r]
        /\ run'[r].pc = "aliases" /\ run'[r].attempt = run[r].attempt
           => served'[r] = served[r] \cup Serving(r)'
BY DEF Observe

\* A run that has ended without success promises nothing.
LEMMA EndedServed ==
  ASSUME NEW h, NEW y, NEW sv, y.pc \in {"refused", "unknown", "failed"}
  PROVE ServedOK(h, y, sv)
BY DEF ServedOK, Fresh, Looked, Matched, Answered, PreUpload

\* A run that has read nothing of what it uploaded promises little.
LEMMA UnreadServed ==
  ASSUME NEW h, NEW y, NEW sv, y.pc \in PreUpload \cup {"immutable", "recover"}, y.place = 1,
         y.mode = "verify" /\ y.pc \in {"build", "digest", "immutable"} => y.url \in DOMAIN h
  PROVE ServedOK(h, y, sv)
BY DEF ServedOK, Fresh, Looked, Matched, Answered, PreUpload

\* A run that does not move, in a list that grows.
LEMMA IdleServed ==
  ASSUME NEW h, NEW g, NEW x, NEW sv, NEW w, ServedOK(h, x, sv),
         \A d \in DOMAIN h : d \in DOMAIN g /\ g[d] = h[d],
         x.pc \in {"aliases", "done"} => sv \subseteq w
  PROVE ServedOK(g, x, w)
<1>1. Fresh(x) /\ Looked(g, x)
  BY DEF ServedOK, Looked
<1>2. Matched(g, x)
  BY DEF ServedOK, Matched
<1>3. Answered(x, w)
  BY DEF ServedOK, Answered
<1> QED
  BY <1>1, <1>2, <1>3 DEF ServedOK

\* The list only grows.
LEMMA ListGrows ==
  ASSUME DeployInv, Next
  PROVE \A d \in DOMAIN history : d \in DOMAIN history' /\ history'[d] = history[d]
<1>1. CASE history' = history
  BY <1>1
<1>2. ASSUME NEW new \in Deployments, history' = Append(history, new)
      PROVE \A d \in DOMAIN history : d \in DOMAIN history' /\ history'[d] = history[d]
  BY <1>2, RunFacts DEF DeployInv, Types
<1>3. CASE \E r \in Runs : Upload(r, TRUE) \/ Upload(r, FALSE) \/ UploadFails(r)
  <2>1. PICK r \in Runs : Upload(r, TRUE) \/ Upload(r, FALSE) \/ UploadFails(r)
    BY <1>3
  <2>2. UNCHANGED <<world, provider>> \/ \E ok \in BOOLEAN : Deploy(r, ok)
    BY <2>1 DEF Upload, UploadFails
  <2>3. CASE UNCHANGED <<world, provider>>
    BY <1>1, <2>3 DEF provider
  <2>4. CASE \E ok \in BOOLEAN : Deploy(r, ok)
    <3>1. PICK new \in Deployments : history' = Append(history, new)
      BY <2>4, DeployFacts
    <3> QED
      BY <1>2, <3>1
  <2> QED
    BY <2>2, <2>3, <2>4
<1>4. CASE Elsewhere
  BY <1>1, <1>4 DEF Elsewhere, Checkout, Rebuild, AdvanceMain, Promote, Propagate, provider, world
<1>5. ASSUME NEW r \in Runs, RunStep(r), ~(\E printed \in BOOLEAN : Upload(r, printed)),
             ~UploadFails(r)
      PROVE history' = history
  BY <1>5
     DEF RunStep, Refuse, Start, ListBefore, ListKnown, ReadPrior, AcceptPrior, Build, Digest,
         ConfirmPrior, Relist, ReadImmutable, ImmutableFails, Recover, ListAfter, HistoryFails,
         ReadAlias, Converged, NextAttempt, AttemptsExhausted, NotConverged, DeadlineElapses,
         provider
<1> QED
  BY <1>1, <1>3, <1>4, <1>5 DEF Next

\* The URL of a run that has read back its upload is in the list.
LEMMA UrlListed ==
  ASSUME DeployInv, NEW r \in Runs, Looked(history, run[r]),
         run[r].pc \in {"immutable", "recover", "history", "aliases", "done"}
  PROVE run[r].url \in DOMAIN history
<1>1. RunInv(history, run[r]) /\ run[r] \in RunStates /\ DOMAIN history = 1..Len(history)
  BY RunFacts
<1>2. run[r].url \in 0..Len(history)
  BY <1>1 DEF RunInv, References
<1>3. CASE run[r].mode = "verify" /\ run[r].pc \notin {"recover", "history"}
  BY <1>3 DEF Looked
<1>4. CASE run[r].mode = "verify" /\ run[r].pc \in {"recover", "history"}
  BY <1>1, <1>4 DEF RunInv, StagesOfProduction
<1>5. CASE run[r].mode # "verify"
  <2>1. run[r].url # None
    BY <1>1, <1>5 DEF RunInv, HasUrl, Published, AfterUpload
  <2>2. Len(history) \in Nat
    BY RunFacts
  <2> QED
    BY <1>1, <1>2, <2>1, <2>2 DEF None
<1> QED
  BY <1>3, <1>4, <1>5

-----------------------------------------------------------------------------
(* The steps of the run it is about.                                         *)

\* The steps that end a run without success.
LEMMA EndingServed ==
  ASSUME ServedInv, NEW r \in Runs,
         \/ Refuse(r) \/ UploadFails(r) \/ Recover(r) \/ AttemptsExhausted(r)
         \/ (\E read \in BOOLEAN : HistoryFails(r, read)) \/ Upload(r, FALSE)
         \/ (run[r].pc = "aliases" /\ NotConverged(r))
         \/ (ImmutableFails(r) /\ run[r].mode # "production")
  PROVE ServedOK(history', run'[r], served'[r])
<1>1. run \in [Runs -> RunStates]
  BY RunFacts DEF ServedInv
<1>2. ASSUME NEW pc, run' = [run EXCEPT ![r] = [NoRun EXCEPT !.pc = pc]] PROVE run'[r].pc = pc
  BY <1>1, <1>2 DEF NoRun
<1>3. ASSUME NEW candidate, NEW reason, Fail(r, candidate, reason) PROVE run'[r].pc = "failed"
  BY <1>1, <1>3 DEF Fail, NoRun
<1>4. run'[r].pc \in {"refused", "unknown", "failed"}
  BY <1>2, <1>3
     DEF Refuse, UploadFails, Recover, AttemptsExhausted, HistoryFails, Upload, NotConverged,
         ImmutableFails
<1> QED
  BY <1>4, EndedServed

\* The steps before the upload.
LEMMA PreparingServed ==
  ASSUME ServedInv, NEW r \in Runs,
         \/ (\E mode \in ModesOf[r] : Start(r, mode))
         \/ ListBefore(r) \/ (\E d \in DOMAIN history : ListKnown(r, d))
         \/ (\E origin \in Origins : ReadPrior(r, origin)) \/ AcceptPrior(r)
         \/ Build(r) \/ Digest(r) \/ ConfirmPrior(r) \/ Relist(r)
  PROVE ServedOK(history', run'[r], served'[r])
<1> DEFINE Next1 ==
      /\ run'[r].pc \in PreUpload \cup {"immutable"} /\ run'[r].place = run[r].place
      /\ run'[r].mode = "verify" /\ run'[r].pc \in {"build", "digest", "immutable"}
         => run'[r].url \in DOMAIN history
<1>1. /\ run \in [Runs -> RunStates] /\ run[r] \in RunStates /\ RunInv(history, run[r])
      /\ ServedOK(history, run[r], served[r])
  BY RunFacts DEF ServedInv
<1>2. history' = history
  BY DEF Start, ListBefore, ListKnown, ReadPrior, AcceptPrior, Build, Digest, ConfirmPrior,
         Relist, provider
<1>3. run[r].pc \in PreUpload
  BY DEF Start, ListBefore, ListKnown, ReadPrior, AcceptPrior, Build, Digest, ConfirmPrior,
         Relist, PreUpload
<1>4. run[r].place = 1
  BY <1>1, <1>3 DEF ServedOK, Fresh
<1>5. ASSUME NEW mode \in ModesOf[r], Start(r, mode) PROVE Next1
  <2>1. /\ run'[r].pc = (IF mode = "preview" THEN "build" ELSE "list")
        /\ run'[r].mode = mode /\ run'[r].place = run[r].place
    BY <1>1, <1>5 DEF Start, RunStates
  <2> QED
    BY <2>1 DEF PreUpload
<1>6. ASSUME ListBefore(r) \/ Relist(r) \/ ConfirmPrior(r) PROVE Next1
  <2>1. ListBefore(r) => run'[r].pc = "prior" /\ run'[r].place = run[r].place
    <3> SUFFICES ASSUME ListBefore(r)
                 PROVE run'[r].pc = "prior" /\ run'[r].place = run[r].place
      OBVIOUS
    <3>1. PICK d : run' = [run EXCEPT ![r].pc = "prior", ![r].predecessor = d, ![r].candidate = d]
      BY DEF ListBefore
    <3>2. run'[r] = [run[r] EXCEPT !.pc = "prior", !.predecessor = d, !.candidate = d]
      BY <1>1, <3>1
    <3> QED
      BY <1>1, <3>2 DEF RunStates
  <2>2. Relist(r) => run'[r].pc = "upload" /\ run'[r].place = run[r].place
    <3> SUFFICES ASSUME Relist(r)
                 PROVE run'[r].pc = "upload" /\ run'[r].place = run[r].place
      OBVIOUS
    <3>1. run' = [run EXCEPT ![r].pc = "upload"]
      BY DEF Relist
    <3>2. run'[r] = [run[r] EXCEPT !.pc = "upload"]
      BY <1>1, <3>1
    <3> QED
      BY <1>1, <3>2 DEF RunStates
  <2>3. ConfirmPrior(r) => run'[r].pc = "relist" /\ run'[r].place = run[r].place
    <3> SUFFICES ASSUME ConfirmPrior(r)
                 PROVE run'[r].pc = "relist" /\ run'[r].place = run[r].place
      OBVIOUS
    <3>1. run' = [run EXCEPT ![r].pc = "relist", ![r].seen = {}]
      BY DEF ConfirmPrior
    <3>2. run'[r] = [run[r] EXCEPT !.pc = "relist", !.seen = {}]
      BY <1>1, <3>1
    <3> QED
      BY <1>1, <3>2 DEF RunStates
  <2> QED
    BY <1>6, <2>1, <2>2, <2>3 DEF PreUpload
<1>7. ASSUME NEW d \in DOMAIN history, ListKnown(r, d) PROVE Next1
  <2>1. run'[r].pc = "build" /\ run'[r].url = d /\ run'[r].place = run[r].place
    BY <1>1, <1>7 DEF ListKnown, RunStates
  <2> QED
    BY <1>7, <2>1 DEF PreUpload
<1>8. ASSUME NEW origin \in Origins, ReadPrior(r, origin) PROVE Next1
  <2>1. run'[r].pc = run[r].pc /\ run[r].pc \in {"prior", "confirm"}
        /\ run'[r].place = run[r].place
    BY <1>1, <1>8 DEF ReadPrior, RunStates
  <2> QED
    BY <2>1 DEF PreUpload
<1>9. ASSUME AcceptPrior(r) PROVE Next1
  <2>1. run[r].pc = "prior" /\ run'[r].pc = "build" /\ run'[r].mode = run[r].mode
        /\ run'[r].place = run[r].place
    BY <1>1, <1>9 DEF AcceptPrior, RunStates
  <2>2. run[r].mode = "production"
    BY <1>1, <2>1 DEF RunInv, StagesOfProduction
  <2> QED
    BY <2>1, <2>2 DEF PreUpload
<1>10. ASSUME Build(r) PROVE Next1
  <2>1. run[r].pc = "build" /\ run'[r].pc = "digest" /\ run'[r].mode = run[r].mode
        /\ run'[r].place = run[r].place /\ run'[r].url = run[r].url
    BY <1>1, <1>10 DEF Build, RunStates
  <2>2. run[r].mode = "verify" => run[r].url \in DOMAIN history
    BY <1>1, <2>1 DEF ServedOK, Looked
  <2> QED
    BY <2>1, <2>2 DEF PreUpload
<1>11. ASSUME Digest(r) PROVE Next1
  <2>1. run[r].mode \in {"production", "preview", "verify"}
    BY <1>1 DEF RunStates
  <2>2. run[r].pc = "digest" /\ run'[r].pc \in {"confirm", "upload", "immutable"}
        /\ run'[r].mode = run[r].mode /\ run'[r].place = run[r].place
        /\ run'[r].url = run[r].url
    BY <1>1, <1>11, <2>1 DEF Digest, RunStates
  <2>3. run[r].mode = "verify" => run[r].url \in DOMAIN history
    BY <1>1, <2>2 DEF ServedOK, Looked
  <2> QED
    BY <2>2, <2>3 DEF PreUpload
<1>12. Next1
  BY <1>5, <1>6, <1>7, <1>8, <1>9, <1>10, <1>11
<1> QED
  BY <1>2, <1>4, <1>12, UnreadServed


\* The upload is in the list, and a readback of it that fails keeps nothing of it.
LEMMA UploadedServed ==
  ASSUME ServedInv, NEW r \in Runs,
         Upload(r, TRUE) \/ (ImmutableFails(r) /\ run[r].mode = "production")
  PROVE ServedOK(history', run'[r], served'[r])
<1>1. /\ run \in [Runs -> RunStates] /\ run[r] \in RunStates /\ DeployInv
      /\ ServedOK(history, run[r], served[r])
  BY RunFacts DEF ServedInv
<1>2. run[r].pc \in PreUpload \cup {"immutable"}
  BY DEF Upload, ImmutableFails, PreUpload
<1>3. run[r].place = 1
  BY <1>1, <1>2 DEF ServedOK, Fresh
<1>4. CASE Upload(r, TRUE)
  <2>1. run'[r].pc = "immutable" /\ run'[r].url = Len(history) + 1 /\ run'[r].place = 1
    <3>1. PICK url : url = Len(history) + 1
      OBVIOUS
    <3>2. run' = [run EXCEPT ![r].pc = "immutable", ![r].url = url]
      BY <1>4, <3>1 DEF Upload
    <3>3. run'[r] = [run[r] EXCEPT !.pc = "immutable", !.url = url]
      BY <1>1, <3>2
    <3> QED
      BY <1>1, <1>3, <3>1, <3>3 DEF RunStates
  <2>2. PICK new \in Deployments : history' = Append(history, new)
    BY <1>1, <1>4, DeployFacts DEF Upload
  <2>3. Len(history) + 1 \in DOMAIN history'
    BY <1>1, <2>2, RunFacts
  <2> QED
    BY <2>1, <2>3, UnreadServed
<1>5. CASE ImmutableFails(r) /\ run[r].mode = "production"
  <2>1. run'[r].pc = "recover" /\ run'[r].place = 1
    <3>1. run' = [run EXCEPT ![r].pc = "recover"]
      BY <1>5 DEF ImmutableFails
    <3>2. run'[r] = [run[r] EXCEPT !.pc = "recover"]
      BY <1>1, <3>1
    <3> QED
      BY <1>1, <1>3, <3>2 DEF RunStates
  <2> QED
    BY <2>1, UnreadServed
<1> QED
  BY <1>4, <1>5

\* The bytes at the immutable URL are those that were proved; no alias has been read.
LEMMA ReadImmutableServed ==
  ASSUME ServedInv, NEW r \in Runs, ReadImmutable(r)
  PROVE ServedOK(history', run'[r], served'[r])
<1>1. /\ run \in [Runs -> RunStates] /\ run[r] \in RunStates /\ DeployInv
      /\ ServedOK(history, run[r], served[r])
  BY RunFacts DEF ServedInv
<1>2. run[r].pc = "immutable" /\ ImmutableMatches(r) /\ history' = history
  BY DEF ReadImmutable, provider
<1>3. run[r].mode \in {"production", "preview", "verify"}
  BY <1>1 DEF RunStates
<1>4. /\ run'[r].mode = run[r].mode /\ run'[r].url = run[r].url
      /\ run'[r].expected = run[r].expected /\ run'[r].place = run[r].place
  BY <1>1 DEF ReadImmutable, RunStates
<1>5. run'[r].pc = CASE run[r].mode = "production" -> "history"
                     [] run[r].mode = "preview" -> "done"
                     [] run[r].mode = "verify" -> "aliases"
  BY <1>1 DEF ReadImmutable, RunStates
<1>6. run[r].place = 1 /\ Looked(history, run[r])
  BY <1>1, <1>2 DEF ServedOK, Fresh
<1>7. run[r].url \in DOMAIN history
  BY <1>1, <1>2, <1>6, UrlListed
<1>8. Fresh(run'[r]) /\ Looked(history', run'[r])
  BY <1>2, <1>4, <1>6, <1>7 DEF Fresh, Looked
<1>9. Matched(history', run'[r])
  BY <1>2, <1>4, <1>7 DEF ImmutableMatches, Matched
<1>10. 1 \in 1..(Len(AliasReads(run[r].mode)) + 1)
  BY AliasReadsListed
<1>11. Answered(run'[r], served'[r])
  BY <1>3, <1>4, <1>5, <1>6, <1>10 DEF Answered
<1> QED
  BY <1>8, <1>9, <1>11 DEF ServedOK

\* The list is as expected; no alias has been read.
LEMMA ListAfterServed ==
  ASSUME ServedInv, NEW r \in Runs, ListAfter(r)
  PROVE ServedOK(history', run'[r], served'[r])
<1>1. /\ run \in [Runs -> RunStates] /\ run[r] \in RunStates /\ DeployInv
      /\ ServedOK(history, run[r], served[r])
  BY RunFacts DEF ServedInv
<1>2. run[r].pc = "history" /\ history' = history
  BY DEF ListAfter, provider
<1>3. /\ run'[r].pc = "aliases" /\ run'[r].mode = run[r].mode /\ run'[r].url = run[r].url
      /\ run'[r].expected = run[r].expected /\ run'[r].place = run[r].place
  BY <1>1 DEF ListAfter, RunStates
<1>4. run[r].place = 1 /\ Matched(history, run[r])
  BY <1>1, <1>2 DEF ServedOK, Fresh
<1>5. 1 \in 1..(Len(AliasReads(run[r].mode)) + 1)
  BY AliasReadsListed
<1>6. Answered(run'[r], served'[r])
  BY <1>3, <1>4, <1>5 DEF Answered
<1>7. Fresh(run'[r]) /\ Looked(history', run'[r]) /\ Matched(history', run'[r])
  BY <1>2, <1>3, <1>4 DEF Fresh, Looked, Matched, PreUpload
<1> QED
  BY <1>6, <1>7 DEF ServedOK

\* A read that matches was served by its origin at that moment; after one that does
\* not, the attempt is not all right.
LEMMA ReadAliasServed ==
  ASSUME ServedInv, Observe, NEW r \in Runs, ReadAlias(r)
  PROVE ServedOK(history', run'[r], served'[r])
<1> DEFINE reads == AliasReads(run[r].mode)
           place == run[r].place
           next == {i \in DOMAIN reads : i > place /\ reads[i][1] # reads[place][1]}
           skip == IF next = {} THEN Len(reads) + 1 ELSE CHOOSE i \in next : \A j \in next : i <= j
<1>1. /\ run \in [Runs -> RunStates] /\ run[r] \in RunStates /\ DeployInv
      /\ ServedOK(history, run[r], served[r])
  BY RunFacts DEF ServedInv
<1>2. run[r].pc = "aliases" /\ history' = history /\ alias' = alias
  BY DEF ReadAlias, provider
<1>3. Len(reads) \in Nat /\ DOMAIN reads = 1..Len(reads)
  BY AliasReadsListed
<1>4. /\ place \in 1..(Len(reads) + 1) /\ Matched(history, run[r])
      /\ run[r].ok => \A i \in 1..(place - 1) : reads[i] \in served[r]
  BY <1>1, <1>2 DEF ServedOK, Answered
<1>5. place \in DOMAIN reads
  <2>1. place <= Len(reads)
    BY DEF ReadAlias
  <2> HIDE DEF place, reads
  <2> QED
    BY <1>3, <1>4, <2>1
<1>6. /\ run'[r].pc = run[r].pc /\ run'[r].mode = run[r].mode /\ run'[r].url = run[r].url
      /\ run'[r].expected = run[r].expected /\ run'[r].attempt = run[r].attempt
      /\ \/ /\ run'[r].place = place + 1 /\ run'[r].ok = run[r].ok
            /\ Served(reads[place][1], reads[place][2]) = run[r].expected[reads[place][2]]
         \/ run'[r].place = skip /\ run'[r].ok = FALSE
  <2>1. \/ /\ Served(reads[place][1], reads[place][2]) = run[r].expected[reads[place][2]]
           /\ run' = [run EXCEPT ![r].place = @ + 1]
        \/ run' = [run EXCEPT ![r].ok = FALSE, ![r].place = skip]
    BY DEF ReadAlias
  <2> HIDE DEF skip, reads, next
  <2>2. CASE /\ Served(reads[place][1], reads[place][2]) = run[r].expected[reads[place][2]]
             /\ run' = [run EXCEPT ![r].place = @ + 1]
    <3>1. run'[r] = [run[r] EXCEPT !.place = @ + 1]
      BY <1>1, <2>2
    <3> QED
      BY <1>1, <2>2, <3>1 DEF RunStates
  <2>3. CASE run' = [run EXCEPT ![r].ok = FALSE, ![r].place = skip]
    <3>1. run'[r] = [run[r] EXCEPT !.ok = FALSE, !.place = skip]
      BY <1>1, <2>3
    <3> QED
      BY <1>1, <3>1 DEF RunStates
  <2> QED
    BY <2>1, <2>2, <2>3
<1>7. served'[r] = served[r] \cup Serving(r)'
  BY <1>2, <1>6, Observed
<1>8. ASSUME run'[r].place = place + 1, run'[r].ok = run[r].ok,
             Served(reads[place][1], reads[place][2]) = run[r].expected[reads[place][2]]
      PROVE Answered(run'[r], served'[r])
  <2>1. reads[place] \in Serving(r)'
    BY <1>2, <1>5, <1>6, <1>8 DEF Serving, Served
  <2>2. place + 1 \in 1..(Len(reads) + 1)
    BY <1>3, <1>5
  <2>3. ASSUME run[r].ok, NEW i \in 1..((place + 1) - 1) PROVE reads[i] \in served'[r]
    <3>1. i \in 1..(place - 1) \/ i = place
      BY <1>3, <1>5
    <3> QED
      BY <1>4, <1>7, <2>1, <2>3, <3>1
  <2> HIDE DEF reads, place
  <2> QED
    BY <1>2, <1>6, <1>8, <2>2, <2>3 DEF Answered, reads
<1>9. ASSUME run'[r].place = skip, run'[r].ok = FALSE PROVE Answered(run'[r], served'[r])
  <2>1. skip \in 1..(Len(reads) + 1)
    <3>1. CASE next = {}
      BY <1>3, <3>1
    <3>2. CASE next # {}
      <4>1. next \subseteq DOMAIN reads
        OBVIOUS
      <4>2. next \subseteq Nat
        BY <1>3, <4>1
      <4>3. \E i \in next : \A j \in next : i <= j
        BY <3>2, <4>2, LeastExists
      <4>4. skip \in next
        BY <3>2, <4>3
      <4>5. skip \in DOMAIN reads
        BY <4>1, <4>4
      <4> HIDE DEF skip, reads, next
      <4> QED
        BY <1>3, <4>5
    <3> QED
      BY <3>1, <3>2
  <2> HIDE DEF skip
  <2> QED
    BY <1>2, <1>6, <1>9, <2>1 DEF Answered
<1>10. Answered(run'[r], served'[r])
  BY <1>6, <1>8, <1>9
<1>11. Fresh(run'[r]) /\ Looked(history', run'[r]) /\ Matched(history', run'[r])
  BY <1>1, <1>2, <1>4, <1>6 DEF ServedOK, Fresh, Looked, Matched, PreUpload
<1> QED
  BY <1>10, <1>11 DEF ServedOK

\* Every read of the attempt matched.
LEMMA ConvergedServed ==
  ASSUME ServedInv, Observe, NEW r \in Runs, Converged(r)
  PROVE ServedOK(history', run'[r], served'[r])
<1> DEFINE reads == AliasReads(run[r].mode)
<1>1. /\ run \in [Runs -> RunStates] /\ run[r] \in RunStates /\ DeployInv
      /\ ServedOK(history, run[r], served[r])
  BY RunFacts DEF ServedInv
<1>2. run[r].pc = "aliases" /\ history' = history /\ run[r].ok /\ run[r].place > Len(reads)
  BY DEF Converged, AttemptOver, AllMatch, provider
<1>3. /\ run'[r].pc = "done" /\ run'[r].mode = run[r].mode /\ run'[r].url = run[r].url
      /\ run'[r].expected = run[r].expected
  BY <1>1 DEF Converged, RunStates
<1>4. served'[r] = served[r]
  BY <1>3, Observed
<1>5. Len(reads) \in Nat /\ DOMAIN reads = 1..Len(reads)
  BY AliasReadsListed
<1>6. /\ run[r].place \in 1..(Len(reads) + 1)
      /\ \A i \in 1..(run[r].place - 1) : reads[i] \in served[r]
  BY <1>1, <1>2 DEF ServedOK, Answered
<1>7. DOMAIN reads \subseteq 1..(run[r].place - 1)
  BY <1>2, <1>5, <1>6
<1>8. \A i \in DOMAIN reads : reads[i] \in served'[r]
  BY <1>4, <1>6, <1>7
<1>9. Answered(run'[r], served'[r])
  BY <1>3, <1>8 DEF Answered
<1>10. Fresh(run'[r]) /\ Looked(history', run'[r]) /\ Matched(history', run'[r])
  BY <1>1, <1>2, <1>3 DEF ServedOK, Fresh, Looked, Matched, PreUpload
<1> QED
  BY <1>9, <1>10 DEF ServedOK

\* An attempt starts over.
LEMMA NextAttemptServed ==
  ASSUME ServedInv, NEW r \in Runs, NextAttempt(r)
  PROVE ServedOK(history', run'[r], served'[r])
<1>1. /\ run \in [Runs -> RunStates] /\ run[r] \in RunStates
      /\ ServedOK(history, run[r], served[r])
  BY RunFacts DEF ServedInv
<1>2. run[r].pc = "aliases" /\ history' = history
  BY DEF NextAttempt, AttemptOver, provider
<1>3. /\ run'[r].pc = "aliases" /\ run'[r].mode = run[r].mode /\ run'[r].url = run[r].url
      /\ run'[r].expected = run[r].expected /\ run'[r].place = 1
  BY <1>1, <1>2 DEF NextAttempt, RunStates
<1>4. 1 \in 1..(Len(AliasReads(run[r].mode)) + 1)
  BY AliasReadsListed
<1>5. Answered(run'[r], served'[r])
  BY <1>3, <1>4 DEF Answered
<1>6. Fresh(run'[r]) /\ Looked(history', run'[r]) /\ Matched(history', run'[r])
  BY <1>1, <1>2, <1>3 DEF ServedOK, Fresh, Looked, Matched, PreUpload
<1> QED
  BY <1>5, <1>6 DEF ServedOK

-----------------------------------------------------------------------------
(* Every step.                                                               *)

\* The run that moves.
LEMMA MovingServed ==
  ASSUME ServedInv, Observe, NEW r \in Runs, RunStep(r)
  PROVE ServedOK(history', run'[r], served'[r])
<1>1. CASE \E printed \in BOOLEAN : Upload(r, printed)
  BY <1>1, UploadedServed, EndingServed
<1>2. CASE ImmutableFails(r)
  BY <1>2, UploadedServed, EndingServed
<1>3. CASE DeadlineElapses(r)
  <2>1. ImmutableFails(r) \/ (run[r].pc = "aliases" /\ NotConverged(r))
    BY <1>3 DEF DeadlineElapses
  <2> QED
    BY <1>2, <2>1, EndingServed
<1>4. CASE ReadImmutable(r) \/ ListAfter(r) \/ ReadAlias(r) \/ Converged(r) \/ NextAttempt(r)
  BY <1>4, ReadImmutableServed, ListAfterServed, ReadAliasServed, ConvergedServed,
     NextAttemptServed
<1>5. CASE \/ Refuse(r) \/ UploadFails(r) \/ Recover(r) \/ AttemptsExhausted(r)
           \/ \E read \in BOOLEAN : HistoryFails(r, read)
  BY <1>5, EndingServed
<1>6. CASE \/ \E mode \in ModesOf[r] : Start(r, mode)
           \/ ListBefore(r) \/ (\E d \in DOMAIN history : ListKnown(r, d))
           \/ (\E origin \in Origins : ReadPrior(r, origin)) \/ AcceptPrior(r)
           \/ Build(r) \/ Digest(r) \/ ConfirmPrior(r) \/ Relist(r)
  BY <1>6, PreparingServed
<1> QED
  BY <1>1, <1>2, <1>3, <1>4, <1>5, <1>6 DEF RunStep

\* A step of one run leaves the others where they are.
LEMMA OthersStay ==
  ASSUME DeployInv, NEW r \in Runs, RunStep(r), NEW s \in Runs, s # r
  PROVE run'[s] = run[s]
<1>1. run \in [Runs -> RunStates]
  BY RunFacts
<1>2. ASSUME NEW candidate, NEW reason, Fail(r, candidate, reason) PROVE run'[s] = run[s]
  BY <1>1, <1>2 DEF Fail
<1>3. CASE \/ Recover(r) \/ AttemptsExhausted(r) \/ DeadlineElapses(r) \/ ImmutableFails(r)
           \/ \E read \in BOOLEAN : HistoryFails(r, read)
  BY <1>1, <1>2, <1>3
     DEF Recover, AttemptsExhausted, DeadlineElapses, ImmutableFails, NotConverged, HistoryFails
<1>4. CASE (\E printed \in BOOLEAN : Upload(r, printed)) \/ UploadFails(r)
  BY <1>1, <1>2, <1>4 DEF Upload, UploadFails
<1>5. CASE \/ Refuse(r) \/ (\E mode \in ModesOf[r] : Start(r, mode))
           \/ ListBefore(r) \/ (\E d \in DOMAIN history : ListKnown(r, d))
           \/ (\E origin \in Origins : ReadPrior(r, origin)) \/ AcceptPrior(r)
  BY <1>1, <1>5 DEF Refuse, Start, ListBefore, ListKnown, ReadPrior, AcceptPrior
<1>6. CASE Build(r) \/ Digest(r) \/ ConfirmPrior(r) \/ Relist(r)
  BY <1>1, <1>6 DEF Build, Digest, ConfirmPrior, Relist
<1>7. CASE ReadImmutable(r) \/ ListAfter(r) \/ ReadAlias(r) \/ Converged(r) \/ NextAttempt(r)
  BY <1>1, <1>7 DEF ReadImmutable, ListAfter, ReadAlias, Converged, NextAttempt
<1> QED
  BY <1>3, <1>4, <1>5, <1>6, <1>7 DEF RunStep

\* Whatever anyone does.
LEMMA ServedStep == ServedInv /\ [Next]_vars => ServedInv'
<1> SUFFICES ASSUME ServedInv, [Next]_vars PROVE ServedInv'
  OBVIOUS
<1>1. DeployInv /\ DeployInv'
  BY NextStep DEF ServedInv
<1>2. CASE UNCHANGED vars
  BY <1>1, <1>2 DEF vars, ServedInv
<1>3. CASE Next
  <2>1. Observe
    BY <1>3 DEF Next
  <2>2. ASSUME NEW s \in Runs, run'[s] = run[s] PROVE ServedOK(history', run'[s], served'[s])
    <3>1. run[s].pc \in {"aliases", "done"} => served[s] \subseteq served'[s]
      BY <2>1, <2>2, Observed
    <3>2. \A d \in DOMAIN history : d \in DOMAIN history' /\ history'[d] = history[d]
      BY <1>1, <1>3, ListGrows
    <3>3. ServedOK(history, run[s], served[s])
      BY DEF ServedInv
    <3> QED
      BY <2>2, <3>1, <3>2, <3>3, IdleServed
  <2>3. ASSUME NEW s \in Runs PROVE ServedOK(history', run'[s], served'[s])
    <3>1. CASE Elsewhere
      <4>1. run' = run
        BY <3>1 DEF Elsewhere, Checkout, Rebuild, AdvanceMain, Promote, Propagate
      <4> QED
        BY <2>2, <4>1
    <3>2. CASE RunStep(s)
      BY <2>1, <3>2, MovingServed
    <3>3. ASSUME NEW r \in Runs, RunStep(r), r # s PROVE ServedOK(history', run'[s], served'[s])
      BY <1>1, <2>2, <3>3, OthersStay
    <3> QED
      BY <1>3, <3>1, <3>2, <3>3 DEF Next
  <2> QED
    BY <1>1, <2>3 DEF ServedInv
<1> QED
  BY <1>2, <1>3

\* No run has read anything at first.
LEMMA ServedInit == Init => ServedInv
<1> SUFFICES ASSUME Init PROVE ServedInv
  OBVIOUS
<1>1. DeployInv
  BY InitStep
<1>2. NoRun.pc = "start" /\ NoRun.place = 1 /\ "start" \in PreUpload
  BY DEF NoRun, PreUpload
<1>3. ASSUME NEW r \in Runs PROVE ServedOK(history, run[r], served[r])
  <2>1. run[r] = NoRun
    BY DEF Init
  <2> QED
    BY <1>2, <2>1, UnreadServed
<1> QED
  BY <1>1, <1>3 DEF ServedInv

\* A run that reports success read its upload back with every byte it had proved, and
\* within its last attempt each public origin served each part of it, however late
\* and in whatever order the aliases followed and whoever else published
\* (waitForProductionReadback, verifyFullDeployment).
THEOREM SuccessWasServedAlways == Spec => []SuccessWasServed
<1>1. ASSUME ServedInv, NEW r \in Runs, run[r].pc = "done"
      PROVE /\ ImmutableMatches(r)
            /\ run[r].mode # "preview" =>
                 \A read \in {AliasReads(run[r].mode)[i] : i \in DOMAIN AliasReads(run[r].mode)} :
                   read \in served[r]
  <2>1. Matched(history, run[r]) /\ Answered(run[r], served[r])
    BY <1>1 DEF ServedInv, ServedOK
  <2> QED
    BY <1>1, <2>1 DEF Matched, Answered, ImmutableMatches
<1>2. ServedInv => SuccessWasServed
  BY <1>1 DEF SuccessWasServed
<1>3. ServedInv /\ [Next]_vars => ServedInv'
  BY ServedStep
<1> QED
  BY <1>2, <1>3, ServedInit, PTL DEF Spec

=============================================================================
