-------------------------- MODULE ResourceLifecycle --------------------------
(***************************************************************************)
(* The keyed resource lifecycle of package hostclient, run by several      *)
(* clients against one Host over a network that loses and delays requests  *)
(* and responses.  One resource name is modelled: everything interesting   *)
(* (fences, replay records, incarnations) is per name.                     *)
(*                                                                         *)
(* Client side: ApplyResource (EnsureFormAvailable, PrepareResource, PUT), *)
(* ImportResource, DeleteResource, ObserveResource, GetResource, the retry *)
(* loop of Client.do, and the polling of a 202 Operation.                  *)
(*                                                                         *)
(* Host side (not in the repository, external): a Host as the client's     *)
(* comments, its test fixture incarnationHost and the operation table      *)
(* describe it: it looks an Idempotency-Key up before it resolves the      *)
(* resource, checks the fences, applies or accepts, and may forget.        *)
(***************************************************************************)
EXTENDS Integers, FiniteSets

CONSTANTS
  Clients,        \* processes that hold a hostclient.Client
  PrincipalOf,    \* the authenticated principal of each client
  Specs,          \* desired specs, compared only by canonical digest
  NoSpec,         \* "no spec": body-less operations
  Ops,            \* the keyed operations the clients issue
  RetryAttempts,  \* Options.RetryAttempts
  RetireRecords,  \* the Host retires a replay record with its incarnation
  AnswerModes,    \* how the Host answers a mutation: "direct", "operation"
  MaxUid,         \* bound: incarnations of the name
  MaxGen,         \* bound: generations of one incarnation
  MaxCalls        \* bound: calls the clients make altogether

ASSUME ClientsAssumption == IsFiniteSet(Clients) /\ Clients # {}
ASSUME SpecsAssumption == NoSpec \notin Specs
ASSUME OpsAssumption == Ops \subseteq {"apply", "import", "delete", "observe"}
ASSUME AnswerModesAssumption == AnswerModes \subseteq {"direct", "operation"}
ASSUME BoundsAssumption ==
  /\ RetryAttempts \in Nat \ {0}
  /\ RetireRecords \in BOOLEAN
  /\ MaxUid \in Nat \ {0}
  /\ MaxGen \in Nat \ {0}
  /\ MaxCalls \in Nat \ {0}

VARIABLES
  \* the Host
  live,      \* the incarnation that holds the name; uid 0 when it is free
  nextUid,   \* the uid the Host issues next
  records,   \* idempotency records: key, request fingerprint, answer
  ops,       \* Operations, named by the call that was accepted
  \* the network
  net,       \* requests in flight; one may arrive long after its caller left
  inbox,     \* the response on its way to each client
  \* the clients
  call,      \* the call each client is in, or the last one it made
  held,      \* uid and generation of the last representation it verified
  nextCall,  \* the next call number
  \* history
  effects    \* mutations the Host performed, with the call that caused each

hostVars == <<live, nextUid, records, ops, effects>>
vars == <<live, nextUid, records, ops, net, inbox, call, held, nextCall, effects>>

-----------------------------------------------------------------------------
(* Data.  0 stands for the empty string in a uid, generation or call field. *)

Uid == 0..MaxUid
Gen == 0..MaxGen
CallId == 0..MaxCalls
Spec0 == Specs \cup {NoSpec}
OpName == {"apply", "import", "delete", "observe"}
\* "unavailable" stands for every stable error that is not about the resource:
\* backend_unavailable, rate_limited, internal_error and their like.
Code == {"none", "resource_not_found", "conflict", "key_reused", "unavailable",
         "operation_not_found"}

Rep == [uid: Uid, gen: Gen, spec: Spec0]
NoRep == [uid |-> 0, gen |-> 0, spec |-> NoSpec]

\* What a call asks for: the arguments of the client's method.
Args == [op: OpName, uid: Uid, gen: Gen, spec: Spec0]

\* The prepareDigest binds the spec and the uid and generation it was minted
\* against; the create markers are uid 0, generation 0.
Digest == Rep

\* What travels: of the lifecycle requests only an apply body names a uid.
Wire == [op: OpName, uid: Uid, gen: Gen, spec: Spec0, digest: Digest]

\* Mutated form: applyRequestBody without its expectedUid.
WireOfWithoutUid(a, d) ==
  [op |-> a.op, uid |-> 0, gen |-> a.gen, spec |-> a.spec, digest |-> d]

WireOf(a, d) ==
  [op |-> a.op, uid |-> IF a.op = "apply" THEN a.uid ELSE 0,
   gen |-> a.gen, spec |-> a.spec, digest |-> d]

\* The Idempotency-Key, together with the principal the Host scopes it by.
Key == [by: {PrincipalOf[c] : c \in Clients}, op: OpName, uid: Uid, gen: Gen,
        body: [spec: Spec0, digest: Digest]]

\* Mutated forms: the key before the uid was added to it; one without the fence.
incarnationKeyWithoutUid(c, a, d) ==
  [by |-> PrincipalOf[c], op |-> a.op, uid |-> 0, gen |-> a.gen,
   body |-> [spec |-> a.spec, digest |-> d]]
incarnationKeyWithoutFence(c, a, d) ==
  [by |-> PrincipalOf[c], op |-> a.op, uid |-> a.uid, gen |-> 0,
   body |-> [spec |-> a.spec, digest |-> d]]

incarnationKey(c, a, d) ==
  [by |-> PrincipalOf[c], op |-> a.op, uid |-> a.uid, gen |-> a.gen,
   body |-> [spec |-> a.spec, digest |-> d]]

Request == [client: Clients, call: CallId, att: 1..RetryAttempts, key: Key, wire: Wire]

Answer == [kind: {"none", "ok", "deleted", "accepted", "error", "retry"},
           rep: Rep, op: CallId, code: Code]
NoAnswer == [kind |-> "none", rep |-> NoRep, op |-> 0, code |-> "none"]
OkAnswer(r) == [NoAnswer EXCEPT !.kind = "ok", !.rep = r]
DeletedAnswer == [NoAnswer EXCEPT !.kind = "deleted"]
AcceptedAnswer(id) == [NoAnswer EXCEPT !.kind = "accepted", !.op = id]
ErrorAnswer(code) == [NoAnswer EXCEPT !.kind = "error", !.code = code]
RetryAnswer == [NoAnswer EXCEPT !.kind = "retry"]
SuccessKinds == {"ok", "deleted", "accepted"}

Operation == [st: {"none", "pending", "done", "failed", "expired"},
              wire: Wire, key: Key, bound: Uid, rep: Rep, code: Code]

\* What a method returned.  "refused" is an *APIError with a stable envelope;
\* "plain" is any other error that is neither ErrNotFound nor *AcceptedError, a
\* protocol-invalid *APIError included; op names the Operation the call was
\* answered with, status records whether the client had read a success status
\* line before it failed.
Outcome == [kind: {"none", "ok", "notfound", "refused", "plain", "accepted"},
            rep: Rep, op: CallId, code: Code, status: {"none", "success"}]
NoOutcome == [kind |-> "none", rep |-> NoRep, op |-> 0, code |-> "none", status |-> "none"]

CallState == [pc: {"idle", "prepare", "send", "wait", "poll", "done"},
              id: CallId, a: Args, digest: Digest, att: 1..RetryAttempts,
              op: CallId, base: 1..(MaxUid + 1), live0: Uid, out: Outcome]

Effect == [call: CallId, key: Key, kind: {"create", "update", "delete"},
           uid: Uid, gen: Gen]

TypeOK ==
  /\ live \in Rep
  /\ nextUid \in 1..(MaxUid + 1)
  /\ records \subseteq [key: Key, wire: Wire, ans: Answer]
  /\ ops \in [1..MaxCalls -> Operation]
  /\ net \subseteq Request
  /\ inbox \in [Clients -> Answer]
  /\ call \in [Clients -> CallState]
  /\ held \in [Clients -> [uid: Uid, gen: Gen]]
  /\ nextCall \in 1..(MaxCalls + 1)
  /\ effects \subseteq Effect

NoArgs == [op |-> "observe", uid |-> 0, gen |-> 0, spec |-> NoSpec]
NoKey == [by |-> CHOOSE p \in {PrincipalOf[c] : c \in Clients} : TRUE, op |-> "observe",
          uid |-> 0, gen |-> 0, body |-> [spec |-> NoSpec, digest |-> NoRep]]
NoOperation == [st |-> "none", wire |-> WireOf(NoArgs, NoRep), key |-> NoKey,
                bound |-> 0, rep |-> NoRep, code |-> "none"]
NoHeld == [uid |-> 0, gen |-> 0]

Init ==
  /\ live = NoRep
  /\ nextUid = 1
  /\ records = {}
  /\ ops = [id \in 1..MaxCalls |-> NoOperation]
  /\ net = {}
  /\ inbox = [c \in Clients |-> NoAnswer]
  /\ call = [c \in Clients |->
       [pc |-> "idle", id |-> 0, a |-> NoArgs, digest |-> NoRep, att |-> 1,
        op |-> 0, base |-> 1, live0 |-> 0, out |-> NoOutcome]]
  /\ held = [c \in Clients |-> NoHeld]
  /\ nextCall = 1
  /\ effects = {}

-----------------------------------------------------------------------------
(* Calls.  A caller names a fence only as it read it off a representation    *)
(* the client verified; without one it can only create, adopt or read.       *)

\* Mutated form: a fresh nonce per call, as an upload start uses.
KeyOfWithNonce(c) ==
  [incarnationKey(c, call[c].a, call[c].digest) EXCEPT !.body.spec = call[c].id]

KeyOf(c) == incarnationKey(c, call[c].a, call[c].digest)

\* The caller holds a representation it can name as a fence.
Fenced(c) == held[c].uid # 0

\* ApplyResource: a create, or an update that may name the incarnation too.
ApplyArgs(c) ==
  {[op |-> "apply", uid |-> 0, gen |-> 0, spec |-> s] : s \in Specs} \cup
  IF Fenced(c)
  THEN {[op |-> "apply", uid |-> u, gen |-> held[c].gen, spec |-> s] :
          u \in {0, held[c].uid}, s \in Specs}
  ELSE {}

\* ImportResource: a new adoption, or a fenced one, which must name the uid.
ImportArgs(c) ==
  {[op |-> "import", uid |-> 0, gen |-> 0, spec |-> s] : s \in Specs} \cup
  IF Fenced(c)
  THEN {[op |-> "import", uid |-> held[c].uid, gen |-> held[c].gen, spec |-> s] : s \in Specs}
  ELSE {}

\* ObserveResource and DeleteResource require both the uid and the generation.
StatusActionArgs(c) ==
  IF Fenced(c)
  THEN {[op |-> "observe", uid |-> held[c].uid, gen |-> held[c].gen, spec |-> NoSpec]}
  ELSE {}
DeleteArgs(c) ==
  IF Fenced(c)
  THEN {[op |-> "delete", uid |-> held[c].uid, gen |-> held[c].gen, spec |-> NoSpec]}
  ELSE {}

LegalArgs(c) ==
  {a \in ApplyArgs(c) \cup ImportArgs(c) \cup StatusActionArgs(c) \cup DeleteArgs(c) : a.op \in Ops}

StartCall(c) ==
  /\ call[c].pc \in {"idle", "done"}
  /\ nextCall <= MaxCalls
  /\ \E a \in LegalArgs(c) :
       call' = [call EXCEPT ![c] =
         [pc |-> IF a.op = "apply" THEN "prepare" ELSE "send",
          id |-> nextCall, a |-> a, digest |-> NoRep, att |-> 1, op |-> 0,
          base |-> nextUid, live0 |-> live.uid, out |-> NoOutcome]]
  /\ nextCall' = nextCall + 1
  /\ UNCHANGED <<hostVars, net, inbox, held>>

\* Return from the call with outcome o.
Return(c, o) ==
  call' = [call EXCEPT ![c] = [@ EXCEPT !.pc = "done", !.out = o]]

\* GetResource: one unkeyed read; only resource_not_found means "gone".
GetResource(c) ==
  /\ call[c].pc \in {"idle", "done"}
  /\ held' = [held EXCEPT ![c] = [uid |-> live.uid, gen |-> live.gen]]
  /\ UNCHANGED <<hostVars, net, inbox, call, nextCall>>

\* EnsureFormAvailable or the prepare fails before anything is mutated, or the
\* prepare's own fence refuses: prepare-on-existing demands the generation.
PrepareRefusal(a) ==
  IF a.gen = 0
  THEN IF live.uid = 0 THEN "none" ELSE "conflict"
  ELSE IF live.uid = 0 THEN "resource_not_found"
       ELSE IF live.gen = a.gen THEN "none" ELSE "conflict"

PrepareResource(c) ==
  /\ call[c].pc = "prepare"
  /\ PrepareRefusal(call[c].a) = "none"
  /\ call' = [call EXCEPT ![c] = [@ EXCEPT !.pc = "send",
       !.digest = [uid |-> live.uid, gen |-> live.gen, spec |-> call[c].a.spec]]]
  /\ UNCHANGED <<hostVars, net, inbox, held, nextCall>>

PrepareRefused(c) ==
  /\ call[c].pc = "prepare"
  /\ PrepareRefusal(call[c].a) # "none"
  /\ Return(c, [NoOutcome EXCEPT !.kind = "refused", !.code = PrepareRefusal(call[c].a)])
  /\ UNCHANGED <<hostVars, net, inbox, held, nextCall>>

PrepareFails(c) ==
  /\ call[c].pc = "prepare"
  /\ Return(c, [NoOutcome EXCEPT !.kind = "plain"])
  /\ UNCHANGED <<hostVars, net, inbox, held, nextCall>>

-----------------------------------------------------------------------------
(* Client.do for a keyed mutation: one request per attempt, the same key and *)
(* body on each; another attempt only after a stable retryable error.        *)

SendRequest(c) ==
  /\ call[c].pc = "send"
  /\ net' = net \cup {[client |-> c, call |-> call[c].id, att |-> call[c].att,
                       key |-> KeyOf(c), wire |-> WireOf(call[c].a, call[c].digest)]}
  /\ call' = [call EXCEPT ![c].pc = "wait"]
  /\ UNCHANGED <<hostVars, inbox, held, nextCall>>

\* The caller's context ends while waitForRetry sleeps.
RetryCancelled(c) ==
  /\ call[c].pc = "send"
  /\ call[c].att > 1
  /\ Return(c, [NoOutcome EXCEPT !.kind = "plain"])
  /\ UNCHANGED <<hostVars, net, inbox, held, nextCall>>

\* Mutated form: the attempt is repeated although no answer was read.
TransportErrorRetried(c) ==
  /\ call[c].pc = "wait"
  /\ IF call[c].att < RetryAttempts
     THEN call' = [call EXCEPT ![c] = [@ EXCEPT !.pc = "send", !.att = call[c].att + 1]]
     ELSE Return(c, [NoOutcome EXCEPT !.kind = "plain"])
  /\ inbox' = [inbox EXCEPT ![c] = NoAnswer]
  /\ UNCHANGED <<hostVars, net, held, nextCall>>

\* No response of the Host is read: connection refused or cut, context over, or
\* an intermediary's error page.  The request may be lost, may have been
\* answered, or may still arrive.
TransportError(c) ==
  /\ call[c].pc = "wait"
  /\ Return(c, [NoOutcome EXCEPT !.kind = "plain"])
  /\ inbox' = [inbox EXCEPT ![c] = NoAnswer]
  /\ UNCHANGED <<hostVars, net, held, nextCall>>

\* The status line arrived but the body could not be read, exceeds the cap, or
\* the status is outside the expected ones.
BodyUnreadable(c) ==
  /\ call[c].pc = "wait"
  /\ inbox[c].kind # "none"
  /\ Return(c, [NoOutcome EXCEPT !.kind = "plain",
        !.status = IF inbox[c].kind \in SuccessKinds THEN "success" ELSE "none"])
  /\ inbox' = [inbox EXCEPT ![c] = NoAnswer]
  /\ UNCHANGED <<hostVars, net, held, nextCall>>

\* A stable retryable envelope: wait and go round again, or give up.
RetryableError(c) ==
  /\ call[c].pc = "wait"
  /\ inbox[c].kind = "retry"
  /\ IF call[c].att < RetryAttempts
     THEN call' = [call EXCEPT ![c] = [@ EXCEPT !.pc = "send", !.att = call[c].att + 1]]
     ELSE Return(c, [NoOutcome EXCEPT !.kind = "refused", !.code = "unavailable"])
  /\ inbox' = [inbox EXCEPT ![c] = NoAnswer]
  /\ UNCHANGED <<hostVars, net, held, nextCall>>

\* Mutated form: any refusal of the fence counts as gone.
MapsAnyRefusalToNotFound(a, code) ==
  a.op \in {"delete", "observe"} /\ code # "none"

\* isResourceNotFound: a delete or an observe turns this one code, and no
\* other, into ErrNotFound; apply and import return the typed error itself.
MapsToNotFound(a, code) ==
  a.op \in {"delete", "observe"} /\ code = "resource_not_found"

RefusalOutcome(a, code) ==
  IF MapsToNotFound(a, code)
  THEN [NoOutcome EXCEPT !.kind = "notfound", !.code = code]
  ELSE [NoOutcome EXCEPT !.kind = "refused", !.code = code]

Refused(c) ==
  /\ call[c].pc = "wait"
  /\ inbox[c].kind = "error"
  /\ LET o == RefusalOutcome(call[c].a, inbox[c].code)
     IN /\ Return(c, o)
        /\ held' = IF o.kind = "notfound" THEN [held EXCEPT ![c] = NoHeld] ELSE held
  /\ inbox' = [inbox EXCEPT ![c] = NoAnswer]
  /\ UNCHANGED <<hostVars, net, nextCall>>

\* A failure after the success status, with the code of the *APIError it was or
\* "none": apply and import wrap every failure in an AcceptedError, delete and
\* observe return the error as it is.
AcceptedFailure(a, id, code) ==
  [NoOutcome EXCEPT !.kind = CASE a.op \in {"apply", "import"} -> "accepted"
                               [] MapsToNotFound(a, code) -> "notfound"
                               [] code = "none" -> "plain"
                               [] OTHER -> "refused",
                    !.op = id, !.code = code, !.status = "success"]

\* A representation that decodes and verifies; observe also requires the
\* fenced generation back.
VerifiedResult(a, r) == a.op = "observe" => r.gen = a.gen

\* A direct 200, 201 or 204.
DirectResult(c) ==
  /\ call[c].pc = "wait"
  /\ inbox[c].kind \in {"ok", "deleted"}
  /\ IF inbox[c].kind = "deleted" \/ VerifiedResult(call[c].a, inbox[c].rep)
     THEN /\ Return(c, [NoOutcome EXCEPT !.kind = "ok", !.rep = inbox[c].rep, !.status = "success"])
          /\ held' = [held EXCEPT ![c] = [uid |-> inbox[c].rep.uid, gen |-> inbox[c].rep.gen]]
     ELSE /\ Return(c, AcceptedFailure(call[c].a, 0, "none"))
          /\ UNCHANGED held
  /\ inbox' = [inbox EXCEPT ![c] = NoAnswer]
  /\ UNCHANGED <<hostVars, net, nextCall>>

\* A success whose representation (or whose Operation envelope) does not
\* decode or verify.
UnverifiableResult(c) ==
  /\ call[c].pc = "wait"
  /\ inbox[c].kind \in {"ok", "accepted"}
  /\ Return(c, AcceptedFailure(call[c].a, 0, "none"))
  /\ inbox' = [inbox EXCEPT ![c] = NoAnswer]
  /\ UNCHANGED <<hostVars, net, held, nextCall>>

\* A 202: decodeOperationEnvelope, then awaitOperation.
OperationAccepted(c) ==
  /\ call[c].pc = "wait"
  /\ inbox[c].kind = "accepted"
  /\ call' = [call EXCEPT ![c] = [@ EXCEPT !.pc = "poll", !.op = inbox[c].op]]
  /\ inbox' = [inbox EXCEPT ![c] = NoAnswer]
  /\ UNCHANGED <<hostVars, net, held, nextCall>>

PollDone(c) ==
  LET o == ops[call[c].op]
  IN /\ call[c].pc = "poll"
     /\ o.st = "done"
     /\ Return(c, [NoOutcome EXCEPT !.kind = "ok", !.rep = o.rep, !.op = call[c].op,
                                    !.status = "success"])
     /\ held' = [held EXCEPT ![c] = [uid |-> o.rep.uid, gen |-> o.rep.gen]]
     /\ UNCHANGED <<hostVars, net, inbox, nextCall>>

\* awaitOperation ends with an error, and the method with what it makes of it.
EndWait(c, code) ==
  LET o == AcceptedFailure(call[c].a, call[c].op, code)
  IN /\ Return(c, o)
     /\ held' = IF o.kind = "notfound" THEN [held EXCEPT ![c] = NoHeld] ELSE held
     /\ UNCHANGED <<hostVars, net, inbox, nextCall>>

\* A terminal Operation error: finalizeOperation makes it an *APIError.
PollFailed(c) ==
  /\ call[c].pc = "poll"
  /\ ops[call[c].op].st = "failed"
  /\ EndWait(c, ops[call[c].op].code)

\* How a Host refuses to answer the read of an Operation: one whose record has
\* expired is operation_not_found; what resource it is about is never said.
PollCode(st) == {"unavailable"} \cup IF st = "expired" THEN {"operation_not_found"} ELSE {}

\* The read of the Operation is refused.  It is not tried again: the *APIError
\* ends the wait, whatever becomes of the Operation.
PollRefused(c) ==
  /\ call[c].pc = "poll"
  /\ \E code \in PollCode(ops[call[c].op].st) : EndWait(c, code)

\* A poll that cannot be read or decoded, an unverifiable result, or the
\* deadline: the wait ends without a verdict.
PollAbandoned(c) ==
  /\ call[c].pc = "poll"
  /\ EndWait(c, "none")

-----------------------------------------------------------------------------
(* The Host (external).                                                      *)

\* Only the caller still waiting on this very attempt hears the answer.
Deliver(r, ans) ==
  inbox' = IF /\ call[r.client].pc = "wait"
              /\ call[r.client].id = r.call
              /\ call[r.client].att = r.att
           THEN [inbox EXCEPT ![r.client] = ans]
           ELSE inbox

\* The incarnation a recorded answer reports as live; a 202 follows its
\* Operation; a successful delete and a failed commit report none.
ReportedUid(ans) ==
  CASE ans.kind = "ok" -> ans.rep.uid
    [] ans.kind = "accepted" -> ops[ans.op].rep.uid
    [] OTHER -> 0

\* Mutated form: records are kept for ever.
NeverRetired(ans) == FALSE

Retired(ans) ==
  RetireRecords /\ ReportedUid(ans) # 0 /\ ReportedUid(ans) # live.uid

Replayable(r) == {rec \in records : rec.key = r.key /\ ~Retired(rec.ans)}

Record(r, ans) ==
  records' = {rec \in records : rec.key # r.key} \cup {[key |-> r.key, wire |-> r.wire, ans |-> ans]}

\* The key is looked up before the resource: the record answers, unless the
\* request is another one under the same key.
HostReplay(r) ==
  /\ r \in net
  /\ \E rec \in Replayable(r) :
       Deliver(r, IF rec.wire = r.wire THEN rec.ans ELSE ErrorAnswer("key_reused"))
  /\ net' = net \ {r}
  /\ UNCHANGED <<hostVars, call, held, nextCall>>

\* resource_busy, backend_unavailable, rate_limited: nothing was mutated.
HostBusy(r) ==
  /\ r \in net
  /\ Deliver(r, RetryAnswer)
  /\ net' = net \ {r}
  /\ UNCHANGED <<hostVars, call, held, nextCall>>

\* The fences of a request against the incarnation that holds the name.
FenceHolds(w) ==
  IF w.gen = 0
  THEN live.uid = 0                                   \* If-None-Match: *
  ELSE /\ live.uid # 0
       /\ live.gen = w.gen                            \* Takoform-Expected-Generation
       /\ w.uid # 0 => w.uid = live.uid               \* expectedUid

PrepareHolds(w) ==
  w.op = "apply" => w.digest = [uid |-> live.uid, gen |-> live.gen, spec |-> w.spec]

RefusalCode(w) ==
  IF w.gen # 0 /\ live.uid = 0 THEN "resource_not_found" ELSE "conflict"

HostRefuse(r) ==
  /\ r \in net
  /\ Replayable(r) = {}
  /\ ~(FenceHolds(r.wire) /\ PrepareHolds(r.wire))
  /\ Deliver(r, ErrorAnswer(RefusalCode(r.wire)))
  /\ net' = net \ {r}
  /\ UNCHANGED <<hostVars, call, held, nextCall>>

\* The incarnation after a create, update or adoption.
Written(w) ==
  IF w.gen = 0
  THEN [uid |-> nextUid, gen |-> 1, spec |-> w.spec]
  ELSE [live EXCEPT !.spec = w.spec,
                    !.gen = IF w.spec = live.spec THEN live.gen ELSE live.gen + 1]

EffectKind(w) ==
  IF w.op = "delete" THEN "delete" ELSE IF w.gen = 0 THEN "create" ELSE "update"

\* Perform the mutation w for call id under key k.
Perform(id, k, w) ==
  /\ live' = IF w.op = "delete" THEN NoRep ELSE Written(w)
  /\ nextUid' = IF EffectKind(w) = "create" THEN nextUid + 1 ELSE nextUid
  /\ effects' = effects \cup
       {[call |-> id, key |-> k, kind |-> EffectKind(w),
         uid |-> IF EffectKind(w) = "create" THEN nextUid ELSE live.uid, gen |-> w.gen]}

\* Bounds: the name has another incarnation, or generation, to give.
RoomFor(w) ==
  w.op \in {"apply", "import"} =>
    IF w.gen = 0 THEN nextUid <= MaxUid ELSE live.gen < MaxGen

HostPerform(r) ==
  /\ r \in net
  /\ "direct" \in AnswerModes
  /\ r.wire.op # "observe"
  /\ Replayable(r) = {}
  /\ FenceHolds(r.wire) /\ PrepareHolds(r.wire) /\ RoomFor(r.wire)
  /\ Perform(r.call, r.key, r.wire)
  /\ LET ans == IF r.wire.op = "delete" THEN DeletedAnswer ELSE OkAnswer(Written(r.wire))
     IN Record(r, ans) /\ Deliver(r, ans)
  /\ net' = net \ {r}
  /\ UNCHANGED <<ops, call, held, nextCall>>

\* observe refreshes host-observed state and reports the incarnation.
HostObserve(r) ==
  /\ r \in net
  /\ r.wire.op = "observe"
  /\ Replayable(r) = {}
  /\ FenceHolds(r.wire)
  /\ Record(r, OkAnswer(live)) /\ Deliver(r, OkAnswer(live))
  /\ net' = net \ {r}
  /\ UNCHANGED <<live, nextUid, ops, effects, call, held, nextCall>>

\* A 202: the mutation is bound to the incarnation it was accepted for.
HostAccept(r) ==
  /\ r \in net
  /\ "operation" \in AnswerModes
  /\ r.wire.op # "observe"
  /\ Replayable(r) = {}
  /\ FenceHolds(r.wire) /\ PrepareHolds(r.wire)
  /\ ops' = [ops EXCEPT ![r.call] =
       [st |-> "pending", wire |-> r.wire, key |-> r.key, bound |-> live.uid,
        rep |-> NoRep, code |-> "none"]]
  /\ Record(r, AcceptedAnswer(r.call)) /\ Deliver(r, AcceptedAnswer(r.call))
  /\ net' = net \ {r}
  /\ UNCHANGED <<live, nextUid, effects, call, held, nextCall>>

\* Commit repeats every check against the bound incarnation.
HostCommit(id) ==
  LET o == ops[id] IN
  /\ o.st = "pending"
  /\ IF live.uid = o.bound /\ FenceHolds(o.wire)
     THEN /\ RoomFor(o.wire)
          /\ Perform(id, o.key, o.wire)
          /\ ops' = [ops EXCEPT ![id] = [o EXCEPT !.st = "done",
               !.rep = IF o.wire.op = "delete" THEN NoRep ELSE Written(o.wire)]]
     ELSE /\ ops' = [ops EXCEPT ![id] = [o EXCEPT !.st = "failed", !.code = RefusalCode(o.wire)]]
          /\ UNCHANGED <<live, nextUid, effects>>
  /\ UNCHANGED <<records, net, inbox, call, held, nextCall>>

\* The commit fails for a reason of the Host's own, or is cancelled.
HostCommitFails(id) ==
  /\ ops[id].st = "pending"
  /\ ops' = [ops EXCEPT ![id] = [@ EXCEPT !.st = "failed", !.code = "conflict"]]
  /\ UNCHANGED <<live, nextUid, records, effects, net, inbox, call, held, nextCall>>

\* The record of a terminal Operation expires: operation_not_found from here.
HostForgets(id) ==
  /\ ops[id].st \in {"done", "failed"}
  /\ ops' = [ops EXCEPT ![id].st = "expired"]
  /\ UNCHANGED <<live, nextUid, records, effects, net, inbox, call, held, nextCall>>

-----------------------------------------------------------------------------
ClientStep(c) ==
  \/ StartCall(c) \/ GetResource(c)
  \/ PrepareResource(c) \/ PrepareRefused(c) \/ PrepareFails(c)
  \/ SendRequest(c) \/ RetryCancelled(c)
  \/ TransportError(c) \/ BodyUnreadable(c) \/ RetryableError(c) \/ Refused(c)
  \/ DirectResult(c) \/ UnverifiableResult(c) \/ OperationAccepted(c)
  \/ PollDone(c) \/ PollFailed(c) \/ PollRefused(c) \/ PollAbandoned(c)

HostStep ==
  \/ \E r \in net :
       \/ HostReplay(r) \/ HostBusy(r) \/ HostRefuse(r)
       \/ HostPerform(r) \/ HostObserve(r) \/ HostAccept(r)
  \/ \E id \in 1..MaxCalls :
       \/ HostCommit(id) \/ HostCommitFails(id) \/ HostForgets(id)

Next == (\E c \in Clients : ClientStep(c)) \/ HostStep

Spec == Init /\ [][Next]_vars

-----------------------------------------------------------------------------
(* Properties.                                                               *)

\* The incarnation existed and does not hold the name any more; it never will.
Dead(u) == 0 < u /\ u < nextUid /\ live.uid # u

Returned(c, kind) == call[c].pc = "done" /\ call[c].out.kind = kind

\* DeleteResource returning nil means the incarnation the caller named is gone.
\* It is the defect incarnationKey was changed for: with the uid out of the key
\* the second delete of a re-created name is answered from the first's record.
DeleteSuccessMeansGone ==
  \A c \in Clients :
    Returned(c, "ok") /\ call[c].a.op = "delete" => Dead(call[c].a.uid)

\* ErrNotFound ("remove from state") from a delete or an observe means the
\* named incarnation is gone, whichever of the 404, the terminal error of a
\* delete Operation, or an expired Operation the client met.
NotFoundMeansGone ==
  \A c \in Clients : Returned(c, "notfound") => Dead(call[c].a.uid)

\* The refusal of a read of the Operation, which a delete hands to its caller.
\* It says nothing of the Operation, which may be pending and commit later.
PollRefusal(k) ==
  /\ k.a.op \notin {"apply", "import"}
  /\ k.out.op # 0
  /\ k.out.code \in {"unavailable", "operation_not_found"}

\* Any other structured refusal means that neither this call nor the Operation
\* it was answered with has mutated anything, and that neither ever will, though
\* earlier attempts were made, requests may be delayed and Operations commit
\* late: Client.do starts another attempt only after it has read an error, never
\* after a lost one, and apply and import wrap every error once they have read a
\* success status, so that a bare one predates acceptance (errors.go:26).
RefusedMeansNoEffect ==
  \A c \in Clients :
    Returned(c, "refused") /\ ~PollRefusal(call[c]) =>
      \A id \in {call[c].id, call[c].out.op} \ {0} :
        /\ \A e \in effects : e.call # id
        /\ \A r \in net : r.call # id
        /\ ops[id].st \notin {"pending", "done"}

\* The delete the caller asked for: one incarnation, one fence, one principal.
SameDelete(k, l) ==
  k.op = "delete" /\ l.op = "delete" /\ k.by = l.by /\ k.uid = l.uid /\ k.gen = l.gen

\* The same delete takes effect at most once, however often it is retried and
\* however late a request arrives: once it has removed its incarnation, no
\* retry of it reaches the replacement.
DeleteEffectOnce ==
  \A e, f \in effects : SameDelete(e.key, f.key) => e = f

\* A key never stands for two different requests, so the Host never has to
\* refuse one as a reuse of the other.
KeyNamesOneRequest == \A c \in Clients : inbox[c].code # "key_reused"

\* An update that named its incarnation changed that incarnation at that
\* generation and no other, though the prepare was minted against whatever
\* held the name at the time.
UpdateTouchesOnlyNamed ==
  \A e \in effects :
    e.kind = "update" /\ e.key.op = "apply" /\ e.key.uid # 0 => e.uid = e.key.uid

\* A create or a new adoption never returns an incarnation that was already
\* dead when the call was made: destroy followed by apply of an unchanged
\* configuration creates again instead of replaying the old 201.
CreateReturnsNoGhost ==
  \A c \in Clients :
    Returned(c, "ok") /\ call[c].a.op \in {"apply", "import"} /\ call[c].a.gen = 0 =>
      \/ call[c].out.rep.uid >= call[c].base
      \/ call[c].out.rep.uid = call[c].live0

\* resource_not_found is never the answer to a delete that has already taken
\* effect: the retry after a lost response is answered from the record.
RetriedDeleteReplays ==
  [][\A c \in Clients :
       /\ inbox'[c] # inbox[c]
       /\ inbox'[c].code = "resource_not_found"
       /\ call[c].a.op = "delete"
       => \A e \in effects : ~SameDelete(e.key, KeyOf(c))]_vars

-----------------------------------------------------------------------------
(* A statement of the repository about this code that does not hold; the one *)
(* property of a run that refutes it.                                        *)

\* errors.go:20: an AcceptedError reports that the PUT or POST returned a
\* success status and something after that point failed.
SeenSuccessIsAccepted ==
  \A c \in Clients :
    /\ call[c].pc = "done"
    /\ call[c].a.op \in {"apply", "import"}
    /\ call[c].out.status = "success"
    => call[c].out.kind \in {"ok", "accepted"}
=============================================================================
