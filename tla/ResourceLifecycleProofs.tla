---------------------- MODULE ResourceLifecycleProofs ----------------------
(***************************************************************************)
(* Theorems about ResourceLifecycle, for every set of clients, every       *)
(* assignment of principals, every set of specs, both answer modes, any    *)
(* number of retry attempts, and every bound.                              *)
(***************************************************************************)
EXTENDS ResourceLifecycle, TLAPS

-----------------------------------------------------------------------------
(* The inductive invariants.                                                 *)

\* Types, and the call numbers that index ops: TypeOK alone is not inductive,
\* because an Operation is read at the number a 202 or a record names.
TypeInv ==
  /\ TypeOK
  /\ \A c \in Clients :
       /\ call[c].pc # "idle" => call[c].id \in 1..MaxCalls
       /\ call[c].pc = "poll" => call[c].op \in 1..MaxCalls
       /\ inbox[c].kind = "accepted" => inbox[c].op \in 1..MaxCalls
  /\ \A rec \in records : rec.ans.kind = "accepted" => rec.ans.op \in 1..MaxCalls
  /\ \A r \in net : r.call \in 1..MaxCalls
  /\ \A id \in 1..MaxCalls : ops[id].st # "none" => ops[id].wire.op # "observe"

\* Nothing has been accepted or mutated for call id.
Clean(id) ==
  /\ ops[id].st = "none"
  /\ \A e \in effects : e.call # id

InFlight(id) == \E r \in net : r.call = id

\* Operation id has come to an end, and its call has mutated nothing.
Ended(id) ==
  /\ ops[id].st \in {"failed", "expired"}
  /\ \A e \in effects : e.call # id

\* The 202 that answered call id names the call's own Operation, or was replayed
\* from a record and the call has none.
AcceptedFor(op, id) == op = id \/ Clean(id)

\* A call that returned: it has mutated nothing, the Operation it was answered
\* with has mutated nothing, and no request is left that could.
NothingDone(k) ==
  /\ Clean(k.id) \/ Ended(k.id)
  /\ ~InFlight(k.id)
  /\ k.out.op # 0 => Ended(k.out.op)

\* Call numbers are fresh, and no two clients share one.
FreshCalls ==
  /\ \A c \in Clients : call[c].id < nextCall
  /\ \A c, d \in Clients : call[c].id = call[d].id /\ call[c].pc # "idle" => c = d
  /\ \A r \in net : r.call < nextCall
  /\ \A e \in effects : e.call < nextCall
  /\ \A id \in 1..MaxCalls : ops[id].st # "none" => id < nextCall

\* At most one request of a call is in flight, and while it is, the call has
\* mutated nothing; what the client has read tells which of the two it is.
OneRequest ==
  /\ \A r, s \in net : r.call = s.call => r = s
  /\ \A r \in net : Clean(r.call)
  /\ \A c \in Clients :
       /\ call[c].pc \in {"prepare", "send"} => Clean(call[c].id) /\ ~InFlight(call[c].id)
       /\ inbox[c].kind # "none" => call[c].pc = "wait" /\ ~InFlight(call[c].id)
       /\ inbox[c].kind \in {"error", "retry"} => Clean(call[c].id)
       /\ inbox[c].kind = "accepted" => AcceptedFor(inbox[c].op, call[c].id)
       /\ call[c].pc = "poll" => AcceptedFor(call[c].op, call[c].id) /\ ~InFlight(call[c].id)
       /\ Returned(c, "refused") /\ ~PollRefusal(call[c]) => NothingDone(call[c])

\* An Operation mutates the name when it is done, not before and not if it fails.
NoEarlyEffect ==
  \A id \in 1..MaxCalls :
    ops[id].st \in {"pending", "failed"} => \A e \in effects : e.call # id

CleanInv == FreshCalls /\ OneRequest /\ NoEarlyEffect

\* Every uid a client, a request, a record or an Operation names has been issued.
UidsIssued ==
  /\ live.uid < nextUid
  /\ \A c \in Clients :
       call[c].a.uid < nextUid /\ held[c].uid < nextUid /\ inbox[c].rep.uid < nextUid
  /\ \A r \in net : r.key.uid < nextUid
  /\ \A rec \in records : rec.key.uid < nextUid /\ rec.ans.rep.uid < nextUid
  /\ \A id \in 1..MaxCalls : ops[id].key.uid < nextUid /\ ops[id].rep.uid < nextUid

\* A delete or an observe names an incarnation, on the wire as in the key.
NamesUid(k, w) == k.op = w.op /\ (k.op \in {"delete", "observe"} => k.uid > 0)

Named ==
  /\ \A c \in Clients :
       call[c].pc # "idle" /\ call[c].a.op \in {"delete", "observe"} => call[c].a.uid > 0
  /\ \A r \in net : NamesUid(r.key, r.wire)
  /\ \A id \in 1..MaxCalls : ops[id].st # "none" => NamesUid(ops[id].key, ops[id].wire)

\* A request of the call a client is in carries that call's key.
OwnKey ==
  \A r \in net : r.call = call[r.client].id => r.key = KeyOf(r.client)

\* What an answer says about the incarnation named uid by an operation op.
AnswerTruth(ans, op, uid) ==
  /\ ans.kind = "deleted" => op = "delete" /\ Dead(uid)
  /\ ans.kind = "ok" => op # "delete"
  /\ ans.kind = "error" /\ ans.code = "resource_not_found" /\ op \in {"delete", "observe"}
       => Dead(uid)

\* Operation id was accepted under key k.
AcceptedUnder(id, k) == ops[id].st # "none" /\ ops[id].key = k

RecordTruth ==
  \A rec \in records :
    /\ AnswerTruth(rec.ans, rec.key.op, rec.key.uid)
    /\ rec.ans.kind = "accepted" => AcceptedUnder(rec.ans.op, rec.key)

OperationTruth ==
  \A id \in 1..MaxCalls :
    /\ ops[id].key.op = "delete" /\ ops[id].st = "done" => Dead(ops[id].key.uid)
    /\ ops[id].key.op = "delete" /\ ops[id].st = "failed"
         /\ ops[id].code = "resource_not_found" => Dead(ops[id].key.uid)

ClientTruth ==
  \A c \in Clients :
    /\ AnswerTruth(inbox[c], call[c].a.op, call[c].a.uid)
    /\ inbox[c].kind = "accepted" => AcceptedUnder(inbox[c].op, KeyOf(c))
    /\ call[c].pc = "poll" => AcceptedUnder(call[c].op, KeyOf(c))
    /\ Returned(c, "notfound") => call[c].a.op \in {"delete", "observe"}

GoneInv ==
  /\ UidsIssued /\ Named /\ OwnKey
  /\ RecordTruth /\ OperationTruth /\ ClientTruth
  /\ DeleteSuccessMeansGone /\ NotFoundMeansGone

-----------------------------------------------------------------------------
(* Types of the operators the model is built from.                           *)

\* The empty values have their types.
LEMMA ConstantTypes ==
  /\ NoRep \in Rep /\ NoArgs \in Args /\ NoKey \in Key
  /\ NoAnswer \in Answer /\ DeletedAnswer \in Answer /\ RetryAnswer \in Answer
  /\ NoOutcome \in Outcome
  /\ NoHeld \in [uid : Uid, gen : Gen]
<1>1. NoRep \in Rep /\ NoArgs \in Args
  BY BoundsAssumption DEF NoRep, Rep, NoArgs, Args, Uid, Gen, Spec0, OpName
<1>2. NoKey \in Key
  <2>1. (CHOOSE p \in {PrincipalOf[c] : c \in Clients} : TRUE) \in {PrincipalOf[c] : c \in Clients}
    BY ClientsAssumption
  <2> QED  BY <1>1, <2>1, BoundsAssumption DEF NoKey, Key, OpName, Uid, Gen, Spec0, Digest
<1>3. NoAnswer \in Answer /\ DeletedAnswer \in Answer /\ RetryAnswer \in Answer
  <2>1. NoAnswer \in Answer
    BY <1>1, BoundsAssumption DEF NoAnswer, Answer, CallId, Code
  <2> QED  BY <2>1 DEF DeletedAnswer, RetryAnswer, Answer
<1>4. NoOutcome \in Outcome
  BY <1>1, BoundsAssumption DEF NoOutcome, Outcome, CallId, Code
<1>5. NoHeld \in [uid : Uid, gen : Gen]
  BY BoundsAssumption DEF NoHeld, Uid, Gen
<1> QED  BY <1>1, <1>2, <1>3, <1>4, <1>5

\* Every answer the Host can send is an answer.
LEMMA AnswerTypes ==
  /\ \A r \in Rep : OkAnswer(r) \in Answer
  /\ \A id \in 1..MaxCalls : AcceptedAnswer(id) \in Answer
  /\ \A code \in Code : ErrorAnswer(code) \in Answer
<1>1. NoAnswer \in Answer
  BY ConstantTypes
<1>2. \A id \in 1..MaxCalls : id \in CallId
  BY BoundsAssumption DEF CallId
<1> QED  BY <1>1, <1>2 DEF OkAnswer, AcceptedAnswer, ErrorAnswer, Answer

\* What travels for a call has the type of what travels.
LEMMA WireType ==
  ASSUME NEW a \in Args, NEW d \in Digest
  PROVE  WireOf(a, d) \in Wire
  BY BoundsAssumption DEF WireOf, Wire, Args, Uid

\* The key of a call is a key.
LEMMA KeyType ==
  ASSUME NEW c \in Clients, NEW a \in Args, NEW d \in Digest
  PROVE  incarnationKey(c, a, d) \in Key
  BY DEF incarnationKey, Key, Args

\* Returning from a call changes the caller's pc and outcome and nothing else.
LEMMA ReturnFrame ==
  ASSUME TypeOK, NEW c \in Clients, NEW o \in Outcome, Return(c, o)
  PROVE  /\ call' \in [Clients -> CallState]
         /\ \A d \in Clients : d # c => call'[d] = call[d]
         /\ call'[c].pc = "done" /\ call'[c].out = o
         /\ call'[c].id = call[c].id /\ call'[c].a = call[c].a
         /\ call'[c].digest = call[c].digest /\ call'[c].op = call[c].op
<1>1. call \in [Clients -> CallState]
  BY DEF TypeOK
<1> DEFINE s == [call[c] EXCEPT !.pc = "done", !.out = o]
<1>2. s \in CallState
  BY <1>1 DEF CallState
<1>3. /\ s.pc = "done" /\ s.out = o /\ s.id = call[c].id /\ s.a = call[c].a
      /\ s.digest = call[c].digest /\ s.op = call[c].op
  BY <1>1 DEF CallState
<1>4. call' = [call EXCEPT ![c] = s]
  BY DEF Return
<1> HIDE DEF s
<1> QED  BY <1>1, <1>2, <1>3, <1>4

\* An answer reaches at most the client that waits for it.
LEMMA DeliverFrame ==
  ASSUME TypeOK, NEW r \in net, NEW ans \in Answer, Deliver(r, ans)
  PROVE  /\ inbox' \in [Clients -> Answer]
         /\ \A c \in Clients :
              \/ inbox'[c] = inbox[c]
              \/ /\ c = r.client /\ inbox'[c] = ans
                 /\ call[c].pc = "wait" /\ call[c].id = r.call
  BY DEF Deliver, TypeOK, Request

\* A request in flight is made of well-typed parts.
LEMMA RequestTypes ==
  ASSUME TypeOK, NEW r \in net
  PROVE  /\ r.client \in Clients /\ r.key \in Key /\ r.wire \in Wire
         /\ r.wire.op \in OpName /\ r.wire.uid \in Uid /\ r.wire.gen \in Gen
         /\ r.wire.spec \in Spec0 /\ r.wire.digest \in Digest
  BY DEF TypeOK, Request, Wire

\* What a create, update or adoption leaves at the name is a representation.
LEMMA WrittenType ==
  ASSUME TypeOK, NEW w \in Wire, w.op # "observe", w.op # "delete", RoomFor(w)
  PROVE  Written(w) \in Rep
<1>1. CASE w.gen = 0
  <2>1. nextUid \in Uid /\ 1 \in Gen /\ w.spec \in Spec0
    BY <1>1, BoundsAssumption DEF TypeOK, Wire, OpName, RoomFor, Uid, Gen
  <2> QED  BY <1>1, <2>1 DEF Written, Rep
<1>2. CASE w.gen # 0
  <2>1. live.gen + 1 \in Gen /\ live \in Rep /\ w.spec \in Spec0
    BY <1>2, BoundsAssumption DEF TypeOK, Wire, OpName, RoomFor, Rep, Gen
  <2> QED  BY <1>2, <2>1 DEF Written, Rep
<1> QED  BY <1>1, <1>2

\* Performing a mutation keeps the types of the name and of the history.
LEMMA PerformType ==
  ASSUME TypeOK, NEW w \in Wire, w.op # "observe", RoomFor(w),
         NEW id \in 1..MaxCalls, NEW k \in Key, Perform(id, k, w)
  PROVE  live' \in Rep /\ nextUid' \in 1..(MaxUid + 1) /\ effects' \subseteq Effect
<1>1. live' \in Rep
  BY WrittenType, ConstantTypes DEF Perform
<1>2. EffectKind(w) = "create" => nextUid <= MaxUid
  BY DEF EffectKind, RoomFor, Wire, OpName
<1>3. nextUid' \in 1..(MaxUid + 1)
  BY <1>2, BoundsAssumption DEF Perform, TypeOK
<1>4. effects' \subseteq Effect
  BY <1>2, BoundsAssumption DEF Perform, TypeOK, Effect, EffectKind, Wire, CallId, Rep, Uid
<1> QED  BY <1>1, <1>3, <1>4

\* Every outcome a method returns is an outcome.
LEMMA OutcomeTypes ==
  /\ [NoOutcome EXCEPT !.kind = "plain"] \in Outcome
  /\ \A code \in Code : [NoOutcome EXCEPT !.kind = "refused", !.code = code] \in Outcome
  /\ \A st \in {"none", "success"} :
       [NoOutcome EXCEPT !.kind = "plain", !.status = st] \in Outcome
  /\ \A r \in Rep : [NoOutcome EXCEPT !.kind = "ok", !.rep = r, !.status = "success"] \in Outcome
  /\ \A r \in Rep, id \in CallId :
       [NoOutcome EXCEPT !.kind = "ok", !.rep = r, !.op = id, !.status = "success"] \in Outcome
  /\ \A a \in Args, code \in Code : RefusalOutcome(a, code) \in Outcome
  /\ \A a \in Args, id \in CallId, code \in Code : AcceptedFailure(a, id, code) \in Outcome
<1>1. NoOutcome \in Outcome
  BY ConstantTypes
<1> QED  BY <1>1 DEF Outcome, RefusalOutcome, AcceptedFailure

\* What becomes of a failure after the success status: never a success, gone
\* only for the code that says so, and bare only where nothing wraps it.
LEMMA AcceptedFailureOutcome ==
  \A a \in Args, id \in CallId, code \in Code :
    \E o \in Outcome :
      /\ o = AcceptedFailure(a, id, code)
      /\ o.op = id /\ o.code = code /\ o.kind \notin {"none", "ok"}
      /\ o.kind = "notfound" => MapsToNotFound(a, code)
      /\ o.kind = "refused" => a.op \notin {"apply", "import"} /\ code # "none"
<1> SUFFICES ASSUME NEW a \in Args, NEW id \in CallId, NEW code \in Code
             PROVE  LET o == AcceptedFailure(a, id, code)
                    IN /\ o \in Outcome /\ o.op = id /\ o.code = code
                       /\ o.kind \notin {"none", "ok"}
                       /\ o.kind = "notfound" => MapsToNotFound(a, code)
                       /\ o.kind = "refused" => a.op \notin {"apply", "import"} /\ code # "none"
  OBVIOUS
<1> DEFINE kind == CASE a.op \in {"apply", "import"} -> "accepted"
                     [] MapsToNotFound(a, code) -> "notfound"
                     [] code = "none" -> "plain"
                     [] OTHER -> "refused"
<1>1. NoOutcome \in Outcome
  BY ConstantTypes
<1>2. MapsToNotFound(a, code) => a.op \notin {"apply", "import"} /\ code # "none"
  BY DEF MapsToNotFound
<1>3. /\ kind \in {"accepted", "notfound", "plain", "refused"}
      /\ kind = "notfound" => MapsToNotFound(a, code)
      /\ kind = "refused" => a.op \notin {"apply", "import"} /\ code # "none"
  BY <1>2
<1>4. AcceptedFailure(a, id, code) =
        [NoOutcome EXCEPT !.kind = kind, !.op = id, !.code = code, !.status = "success"]
  BY DEF AcceptedFailure
<1> HIDE DEF kind
<1> QED  BY <1>1, <1>3, <1>4 DEF Outcome

\* A result that does not verify is no *APIError, so it is never a refusal.
LEMMA UnverifiedOutcome ==
  ASSUME NEW a \in Args
  PROVE  /\ AcceptedFailure(a, 0, "none") \in Outcome
         /\ AcceptedFailure(a, 0, "none").kind \in {"plain", "accepted"}
<1>1. 0 \in CallId /\ "none" \in Code
  BY BoundsAssumption DEF CallId, Code
<1>2. ~MapsToNotFound(a, "none")
  BY DEF MapsToNotFound
<1> QED  BY <1>1, <1>2, AcceptedFailureOutcome DEF Outcome

\* The ways a wait for an Operation ends in an error.
PollEnds(c) == PollFailed(c) \/ PollRefused(c) \/ PollAbandoned(c)

\* Each of them returns what awaitOperation's error becomes; its code is the
\* failed Operation's own, or one that is not about a resource.
LEMMA PollEndsOutcome ==
  ASSUME TypeInv, NEW c \in Clients, PollEnds(c)
  PROVE  /\ call[c].pc = "poll"
         /\ UNCHANGED <<hostVars, net, inbox, nextCall>>
         /\ held' = held \/ held' = [held EXCEPT ![c] = NoHeld]
         /\ \E o \in Outcome :
              /\ Return(c, o) /\ o.op = call[c].op /\ o.kind # "ok"
              /\ o.kind = "notfound" => MapsToNotFound(call[c].a, o.code)
              /\ o.kind = "refused" => call[c].a.op \notin {"apply", "import"}
              /\ \/ ops[call[c].op].st = "failed" /\ o.code = ops[call[c].op].code
                 \/ o.code \in {"unavailable", "operation_not_found"}
                 \/ o.code = "none" /\ o.kind # "refused"
<1>1. call[c].pc = "poll" /\ call[c].op \in 1..MaxCalls
  BY DEF PollEnds, PollFailed, PollRefused, PollAbandoned, TypeInv
<1>2. call[c].a \in Args /\ call[c].op \in CallId /\ ops[call[c].op].code \in Code
  BY <1>1 DEF TypeInv, TypeOK, CallState, Operation
<1>3. PICK err \in Code :
        /\ EndWait(c, err)
        /\ \/ ops[call[c].op].st = "failed" /\ err = ops[call[c].op].code
           \/ err \in {"unavailable", "operation_not_found"}
           \/ err = "none"
  <2>1. CASE PollFailed(c)
    BY <1>2, <2>1 DEF PollFailed
  <2>2. CASE PollRefused(c)
    BY <2>2 DEF PollRefused, PollCode, Code
  <2>3. CASE PollAbandoned(c)
    BY <2>3 DEF PollAbandoned, Code
  <2> QED  BY <2>1, <2>2, <2>3 DEF PollEnds
<1> DEFINE o == AcceptedFailure(call[c].a, call[c].op, err)
<1>4. Return(c, o) /\ UNCHANGED <<hostVars, net, inbox, nextCall>>
      /\ (held' = held \/ held' = [held EXCEPT ![c] = NoHeld])
  BY <1>3 DEF EndWait
<1>5. /\ o \in Outcome /\ o.op = call[c].op /\ o.code = err /\ o.kind # "ok"
      /\ o.kind = "notfound" => MapsToNotFound(call[c].a, err)
      /\ o.kind = "refused" => call[c].a.op \notin {"apply", "import"} /\ err # "none"
  <2>1. call[c].a \in Args /\ call[c].op \in CallId
    BY <1>2
  <2> QED  BY <2>1, AcceptedFailureOutcome
<1> HIDE DEF o
<1> QED  BY <1>1, <1>3, <1>4, <1>5

-----------------------------------------------------------------------------
(* Type correctness.                                                         *)

\* Every way a call ends keeps the types.
LEMMA ReturnKeepsType ==
  ASSUME TypeInv, NEW c \in Clients, NEW o \in Outcome, Return(c, o),
         call[c].pc # "idle",
         UNCHANGED <<hostVars, net, nextCall>>,
         inbox' = inbox \/ inbox' = [inbox EXCEPT ![c] = NoAnswer],
         held' \in [Clients -> [uid : Uid, gen : Gen]]
  PROVE  TypeInv'
<1>1. inbox' \in [Clients -> Answer]
  BY ConstantTypes DEF TypeInv, TypeOK
<1>2. TypeOK'
  BY <1>1, ReturnFrame DEF TypeInv, TypeOK, hostVars
<1>3. ASSUME NEW d \in Clients
      PROVE  /\ call'[d].pc # "idle" => call'[d].id \in 1..MaxCalls
             /\ call'[d].pc = "poll" => call'[d].op \in 1..MaxCalls
             /\ inbox'[d].kind = "accepted" => inbox'[d].op \in 1..MaxCalls
  <2>1. TypeOK
    BY DEF TypeInv
  <2>2. call'[d] = call[d] \/ (d = c /\ call'[d].pc = "done" /\ call'[d].id = call[d].id)
    BY <2>1, ReturnFrame
  <2>3. inbox'[d] = inbox[d] \/ inbox'[d] = NoAnswer
    BY <2>1 DEF TypeOK
  <2>4. NoAnswer.kind = "none"
    BY DEF NoAnswer
  <2> QED  BY <2>2, <2>3, <2>4 DEF TypeInv
<1> QED  BY <1>2, <1>3 DEF TypeInv, hostVars

\* A caller only names fences that are within the types.
LEMMA LegalArgsType ==
  ASSUME TypeOK, NEW c \in Clients
  PROVE  LegalArgs(c) \subseteq Args
  BY OpsAssumption, BoundsAssumption DEF TypeOK, LegalArgs, ApplyArgs, ImportArgs,
    StatusActionArgs, DeleteArgs, Fenced, Args, OpName, Uid, Gen, Spec0

\* Every step within a call keeps the types.
LEMMA CallStepKeepsType ==
  ASSUME TypeInv, NEW c \in Clients, NEW s \in CallState,
         call' = [call EXCEPT ![c] = s],
         s.pc # "idle" => s.id \in 1..MaxCalls,
         s.pc = "poll" => s.op \in 1..MaxCalls,
         UNCHANGED <<hostVars, held>>,
         inbox' = inbox \/ inbox' = [inbox EXCEPT ![c] = NoAnswer],
         nextCall' \in 1..(MaxCalls + 1),
         net' \subseteq Request, \A r \in net' : r.call \in 1..MaxCalls
  PROVE  TypeInv'
<1>1. inbox' \in [Clients -> Answer]
  BY ConstantTypes DEF TypeInv, TypeOK
<1>2. call' \in [Clients -> CallState]
  BY DEF TypeInv, TypeOK
<1>3. TypeOK'
  BY <1>1, <1>2 DEF TypeInv, TypeOK, hostVars
<1>4. ASSUME NEW d \in Clients
      PROVE  /\ call'[d].pc # "idle" => call'[d].id \in 1..MaxCalls
             /\ call'[d].pc = "poll" => call'[d].op \in 1..MaxCalls
             /\ inbox'[d].kind = "accepted" => inbox'[d].op \in 1..MaxCalls
  <2>1. call'[d] = call[d] \/ call'[d] = s
    BY DEF TypeInv, TypeOK
  <2>2. inbox'[d] = inbox[d] \/ inbox'[d] = NoAnswer
    BY DEF TypeInv, TypeOK
  <2>3. NoAnswer.kind = "none"
    BY DEF NoAnswer
  <2> QED  BY <2>1, <2>2, <2>3 DEF TypeInv
<1> QED  BY <1>3, <1>4 DEF TypeInv, hostVars

\* The type part of the invariant, one client action at a time.
LEMMA ClientKeepsType ==
  ASSUME TypeInv, NEW c \in Clients, ClientStep(c)
  PROVE  TypeInv'
<1> USE DEF TypeInv
<1>a. /\ call[c] \in CallState /\ call[c].a \in Args /\ call[c].digest \in Digest
      /\ call[c].att \in 1..RetryAttempts /\ call[c].op \in CallId /\ call[c].id \in CallId
      /\ inbox[c] \in Answer /\ inbox[c].rep \in Rep /\ inbox[c].code \in Code
      /\ inbox[c].op \in CallId /\ live \in Rep /\ live.uid \in Uid /\ live.gen \in Gen
      /\ net \subseteq Request /\ nextCall \in 1..(MaxCalls + 1)
      /\ held \in [Clients -> [uid : Uid, gen : Gen]]
  BY DEF TypeOK, CallState, Answer, Rep
<1>b. /\ 0 \in CallId /\ \A id \in 1..MaxCalls : id \in CallId
      /\ "none" \in Code /\ \A a \in Args : PrepareRefusal(a) \in Code
  BY BoundsAssumption DEF CallId, Code, PrepareRefusal
<1>h. \A u \in Uid, g \in Gen :
        [held EXCEPT ![c] = [uid |-> u, gen |-> g]] \in [Clients -> [uid : Uid, gen : Gen]]
  BY <1>a
<1>n. [held EXCEPT ![c] = NoHeld] \in [Clients -> [uid : Uid, gen : Gen]]
  BY <1>a, ConstantTypes
<1>1. CASE StartCall(c)
  <2>1. PICK a \in LegalArgs(c) : call' = [call EXCEPT ![c] =
         [pc |-> IF a.op = "apply" THEN "prepare" ELSE "send",
          id |-> nextCall, a |-> a, digest |-> NoRep, att |-> 1, op |-> 0,
          base |-> nextUid, live0 |-> live.uid, out |-> NoOutcome]]
    BY <1>1 DEF StartCall
  <2>2. a \in Args
    BY LegalArgsType
  <2> DEFINE s == [pc |-> IF a.op = "apply" THEN "prepare" ELSE "send",
          id |-> nextCall, a |-> a, digest |-> NoRep, att |-> 1, op |-> 0,
          base |-> nextUid, live0 |-> live.uid, out |-> NoOutcome]
  <2>3. nextCall \in 1..MaxCalls
    BY <1>1, <1>a DEF StartCall
  <2>4. NoRep \in Digest /\ NoOutcome \in Outcome /\ 1 \in 1..RetryAttempts
    BY ConstantTypes, BoundsAssumption DEF Digest
  <2>5. nextUid \in 1..(MaxUid + 1)
    BY DEF TypeOK
  <2>6. s \in CallState
    BY <1>a, <1>b, <2>2, <2>3, <2>4, <2>5 DEF CallState
  <2>7. s.id = nextCall /\ s.pc # "poll"
    OBVIOUS
  <2>8. nextCall' \in 1..(MaxCalls + 1)
    BY <1>1, <2>3, BoundsAssumption DEF StartCall
  <2> HIDE DEF s
  <2> QED  BY <1>1, <1>a, <2>1, <2>3, <2>6, <2>7, <2>8, CallStepKeepsType DEF StartCall, s
<1>2. CASE GetResource(c)
  BY <1>2, <1>a, <1>h DEF GetResource, hostVars, TypeOK
<1>3. CASE PrepareResource(c)
  <2> DEFINE d == [uid |-> live.uid, gen |-> live.gen, spec |-> call[c].a.spec]
  <2>1. d \in Digest
    BY <1>a DEF Digest, Rep, Args
  <2> DEFINE s == [call[c] EXCEPT !.pc = "send", !.digest = d]
  <2>2. s \in CallState /\ s.pc = "send" /\ s.id = call[c].id
    BY <1>a, <2>1 DEF CallState
  <2>3. call' = [call EXCEPT ![c] = s] /\ call[c].pc # "idle"
    BY <1>3 DEF PrepareResource
  <2> HIDE DEF s
  <2> QED  BY <1>3, <1>a, <2>2, <2>3, CallStepKeepsType DEF PrepareResource
<1>4. CASE PrepareRefused(c)
  BY <1>4, <1>a, <1>b, OutcomeTypes, ReturnKeepsType DEF PrepareRefused
<1>5. CASE PrepareFails(c)
  BY <1>5, <1>a, OutcomeTypes, ReturnKeepsType DEF PrepareFails
<1>6. CASE SendRequest(c)
  <2> DEFINE q == [client |-> c, call |-> call[c].id, att |-> call[c].att,
                   key |-> KeyOf(c), wire |-> WireOf(call[c].a, call[c].digest)]
  <2>1. q \in Request /\ q.call \in 1..MaxCalls
    BY <1>6, <1>a, <1>b, KeyType, WireType DEF SendRequest, KeyOf, Request
  <2> DEFINE s == [call[c] EXCEPT !.pc = "wait"]
  <2>2. s \in CallState /\ s.pc = "wait" /\ s.id = call[c].id
    BY <1>a DEF CallState
  <2>3. call' = [call EXCEPT ![c] = s] /\ call[c].pc # "idle" /\ net' = net \cup {q}
    BY <1>6 DEF SendRequest
  <2> HIDE DEF s, q
  <2>4. net' \subseteq Request /\ \A r \in net' : r.call \in 1..MaxCalls
    BY <1>a, <2>1, <2>3
  <2> QED  BY <1>6, <1>a, <2>2, <2>3, <2>4, CallStepKeepsType DEF SendRequest
<1>7. CASE RetryCancelled(c)
  BY <1>7, <1>a, OutcomeTypes, ReturnKeepsType DEF RetryCancelled
<1>8. CASE TransportError(c)
  BY <1>8, <1>a, OutcomeTypes, ReturnKeepsType DEF TransportError
<1>9. CASE BodyUnreadable(c)
  BY <1>9, <1>a, OutcomeTypes, ReturnKeepsType DEF BodyUnreadable
<1>10. CASE RetryableError(c)
  <2>1. CASE call[c].att < RetryAttempts
    <3>1. call[c].att + 1 \in 1..RetryAttempts
      BY <1>a, <2>1, BoundsAssumption
    <3> DEFINE s == [call[c] EXCEPT !.pc = "send", !.att = call[c].att + 1]
    <3>2. s \in CallState /\ s.pc = "send" /\ s.id = call[c].id
      BY <1>a, <3>1 DEF CallState
    <3>3. call' = [call EXCEPT ![c] = s] /\ call[c].pc # "idle"
      BY <1>10, <2>1 DEF RetryableError
    <3> HIDE DEF s
    <3> QED  BY <1>10, <1>a, <3>2, <3>3, CallStepKeepsType DEF RetryableError
  <2>2. CASE ~(call[c].att < RetryAttempts)
    <3>1. "unavailable" \in Code
      BY DEF Code
    <3> QED  BY <1>10, <1>a, <2>2, <3>1, OutcomeTypes, ReturnKeepsType DEF RetryableError
  <2> QED  BY <2>1, <2>2
<1>11. CASE Refused(c)
  BY <1>11, <1>a, <1>n, OutcomeTypes, ReturnKeepsType DEF Refused
<1>12. CASE DirectResult(c)
  <2>1. inbox[c].rep.uid \in Uid /\ inbox[c].rep.gen \in Gen
    BY <1>a DEF Rep
  <2>2. PICK o \in Outcome : Return(c, o)
    BY <1>12, <1>a, <1>b, OutcomeTypes DEF DirectResult
  <2>3. held' \in [Clients -> [uid : Uid, gen : Gen]]
    <3>1. held' = held \/ held' = [held EXCEPT ![c] =
                                    [uid |-> inbox[c].rep.uid, gen |-> inbox[c].rep.gen]]
      BY <1>12 DEF DirectResult
    <3> QED  BY <1>a, <2>1, <3>1
  <2>4. call[c].pc # "idle" /\ inbox' = [inbox EXCEPT ![c] = NoAnswer]
    BY <1>12 DEF DirectResult
  <2>5. UNCHANGED <<hostVars, net, nextCall>>
    BY <1>12 DEF DirectResult
  <2> QED  BY <2>2, <2>3, <2>4, <2>5, ReturnKeepsType
<1>13. CASE UnverifiableResult(c)
  BY <1>13, <1>a, <1>b, OutcomeTypes, ReturnKeepsType DEF UnverifiableResult
<1>14. CASE OperationAccepted(c)
  <2>1. inbox[c].op \in 1..MaxCalls
    BY <1>14 DEF OperationAccepted
  <2> DEFINE s == [call[c] EXCEPT !.pc = "poll", !.op = inbox[c].op]
  <2>2. s \in CallState /\ s.pc = "poll" /\ s.id = call[c].id /\ s.op = inbox[c].op
    BY <1>a DEF CallState
  <2>3. call' = [call EXCEPT ![c] = s] /\ call[c].pc # "idle"
    BY <1>14 DEF OperationAccepted
  <2> HIDE DEF s
  <2> QED  BY <1>14, <1>a, <2>1, <2>2, <2>3, CallStepKeepsType DEF OperationAccepted
<1>15. CASE PollDone(c)
  <2>1. /\ ops[call[c].op].rep \in Rep
        /\ ops[call[c].op].rep.uid \in Uid /\ ops[call[c].op].rep.gen \in Gen
    BY <1>15 DEF PollDone, TypeOK, Operation, Rep
  <2> QED  BY <1>15, <1>a, <1>h, <2>1, OutcomeTypes, ReturnKeepsType DEF PollDone
<1>16. CASE PollEnds(c)
  <2>1. /\ call[c].pc = "poll" /\ UNCHANGED <<hostVars, net, inbox, nextCall>>
        /\ held' = held \/ held' = [held EXCEPT ![c] = NoHeld]
    BY <1>16, PollEndsOutcome
  <2>2. PICK o \in Outcome : Return(c, o)
    BY <1>16, PollEndsOutcome
  <2> QED  BY <1>a, <1>n, <2>1, <2>2, ReturnKeepsType
<1> QED
  BY <1>1, <1>2, <1>3, <1>4, <1>5, <1>6, <1>7, <1>8, <1>9, <1>10, <1>11, <1>12, <1>13,
     <1>14, <1>15, <1>16 DEF ClientStep, PollEnds

\* An answer the Host sends keeps the types, whatever else the step does.
LEMMA DeliverKeepsType ==
  ASSUME TypeInv, NEW r \in net, NEW ans \in Answer, Deliver(r, ans),
         ans.kind = "accepted" => ans.op \in 1..MaxCalls,
         records' = records \/ Record(r, ans),
         net' = net \ {r}, UNCHANGED <<call, held, nextCall>>,
         live' \in Rep, nextUid' \in 1..(MaxUid + 1), effects' \subseteq Effect,
         ops' \in [1..MaxCalls -> Operation],
         \A id \in 1..MaxCalls : ops'[id].st # "none" => ops'[id].wire.op # "observe"
  PROVE  TypeInv'
<1>1. TypeOK
  BY DEF TypeInv
<1>2. records' \subseteq [key : Key, wire : Wire, ans : Answer]
      /\ \A rec \in records' : rec \in records \/ rec.ans = ans
  BY <1>1, RequestTypes DEF Record, TypeOK
<1>3. TypeOK'
  BY <1>1, <1>2, DeliverFrame DEF TypeOK
<1>4. ASSUME NEW c \in Clients
      PROVE  inbox'[c].kind = "accepted" => inbox'[c].op \in 1..MaxCalls
  BY <1>1, DeliverFrame DEF TypeInv
<1> QED  BY <1>2, <1>3, <1>4 DEF TypeInv

\* The type part of the invariant, one Host action at a time.
LEMMA HostKeepsType ==
  ASSUME TypeInv, HostStep
  PROVE  TypeInv'
<1> USE DEF TypeInv
<1>a. /\ live \in Rep /\ nextUid \in 1..(MaxUid + 1) /\ effects \subseteq Effect
      /\ ops \in [1..MaxCalls -> Operation] /\ records \subseteq [key : Key, wire : Wire, ans : Answer]
      /\ \A r \in net : r.call \in 1..MaxCalls /\ r \in Request
      /\ \A code \in Code : ErrorAnswer(code).kind = "error"
      /\ RetryAnswer.kind = "retry" /\ DeletedAnswer.kind = "deleted"
      /\ \A rep \in Rep : OkAnswer(rep).kind = "ok"
      /\ \A id \in 1..MaxCalls :
           AcceptedAnswer(id).kind = "accepted" /\ AcceptedAnswer(id).op = id
  BY DEF TypeOK, ErrorAnswer, RetryAnswer, DeletedAnswer, OkAnswer, AcceptedAnswer, NoAnswer
<1>b. /\ "key_reused" \in Code /\ "conflict" \in Code
      /\ \A w \in Wire : RefusalCode(w) \in Code
  BY DEF Code, RefusalCode
<1>1. ASSUME NEW r \in net, HostReplay(r)  PROVE TypeInv'
  <2>1. PICK rec \in Replayable(r) :
          Deliver(r, IF rec.wire = r.wire THEN rec.ans ELSE ErrorAnswer("key_reused"))
    BY <1>1 DEF HostReplay
  <2> DEFINE ans == IF rec.wire = r.wire THEN rec.ans ELSE ErrorAnswer("key_reused")
  <2>2. ans \in Answer /\ (ans.kind = "accepted" => ans.op \in 1..MaxCalls)
    BY <1>a, <1>b, AnswerTypes DEF Replayable
  <2> HIDE DEF ans
  <2> QED  BY <1>1, <1>a, <2>1, <2>2, DeliverKeepsType DEF HostReplay, hostVars, ans
<1>2. ASSUME NEW r \in net, HostBusy(r)  PROVE TypeInv'
  BY <1>2, <1>a, ConstantTypes, DeliverKeepsType DEF HostBusy, hostVars
<1>3. ASSUME NEW r \in net, HostRefuse(r)  PROVE TypeInv'
  BY <1>3, <1>a, <1>b, RequestTypes, AnswerTypes, DeliverKeepsType DEF HostRefuse, hostVars
<1>4. ASSUME NEW r \in net, HostPerform(r)  PROVE TypeInv'
  <2>1. r.wire \in Wire /\ r.key \in Key /\ r.wire.op # "observe" /\ RoomFor(r.wire)
        /\ Perform(r.call, r.key, r.wire) /\ r.call \in 1..MaxCalls
    BY <1>4, <1>a, RequestTypes DEF HostPerform
  <2>2. live' \in Rep /\ nextUid' \in 1..(MaxUid + 1) /\ effects' \subseteq Effect
    BY <2>1, PerformType
  <2> DEFINE ans == IF r.wire.op = "delete" THEN DeletedAnswer ELSE OkAnswer(Written(r.wire))
  <2>3. ans \in Answer /\ ans.kind # "accepted"
    BY <2>1, <1>a, WrittenType, ConstantTypes, AnswerTypes
  <2>4. Record(r, ans) /\ Deliver(r, ans)
    BY <1>4 DEF HostPerform
  <2> HIDE DEF ans
  <2> QED  BY <1>4, <1>a, <2>2, <2>3, <2>4, DeliverKeepsType DEF HostPerform
<1>5. ASSUME NEW r \in net, HostObserve(r)  PROVE TypeInv'
  BY <1>5, <1>a, AnswerTypes, DeliverKeepsType DEF HostObserve
<1>6. ASSUME NEW r \in net, HostAccept(r)  PROVE TypeInv'
  <2> DEFINE o == [st |-> "pending", wire |-> r.wire, key |-> r.key, bound |-> live.uid,
                   rep |-> NoRep, code |-> "none"]
  <2>1. o \in Operation /\ o.wire.op # "observe"
    BY <1>6, <1>a, RequestTypes, ConstantTypes DEF Operation, Code, Rep, HostAccept
  <2>2. ops' = [ops EXCEPT ![r.call] = o] /\ r.call \in 1..MaxCalls
    BY <1>6, <1>a DEF HostAccept
  <2> HIDE DEF o
  <2>3. ops' \in [1..MaxCalls -> Operation]
        /\ \A id \in 1..MaxCalls : ops'[id].st # "none" => ops'[id].wire.op # "observe"
    BY <1>a, <2>1, <2>2
  <2>4. AcceptedAnswer(r.call) \in Answer
    BY <2>2, AnswerTypes
  <2> QED  BY <1>6, <1>a, <2>2, <2>3, <2>4, DeliverKeepsType DEF HostAccept
<1>7. ASSUME NEW id \in 1..MaxCalls, HostCommit(id)  PROVE TypeInv'
  <2> DEFINE o == ops[id]
  <2>1. o \in Operation /\ o.wire \in Wire /\ o.key \in Key /\ o.wire.op # "observe"
    BY <1>7, <1>a DEF HostCommit, Operation
  <2>2. CASE live.uid = o.bound /\ FenceHolds(o.wire)
    <3>1. RoomFor(o.wire) /\ Perform(id, o.key, o.wire)
      BY <1>7, <2>2 DEF HostCommit
    <3>2. live' \in Rep /\ nextUid' \in 1..(MaxUid + 1) /\ effects' \subseteq Effect
      BY <2>1, <3>1, PerformType
    <3> DEFINE rep == IF o.wire.op = "delete" THEN NoRep ELSE Written(o.wire)
    <3>3. rep \in Rep
      BY <2>1, <3>1, WrittenType, ConstantTypes
    <3>4. ops' = [ops EXCEPT ![id] = [o EXCEPT !.st = "done", !.rep = rep]]
      BY <1>7, <2>2 DEF HostCommit
    <3> HIDE DEF rep
    <3>5. ops' \in [1..MaxCalls -> Operation]
          /\ \A i \in 1..MaxCalls : ops'[i].st # "none" => ops'[i].wire.op # "observe"
      BY <1>a, <2>1, <3>3, <3>4 DEF Operation
    <3> QED  BY <1>7, <3>2, <3>5 DEF HostCommit, TypeOK
  <2>3. CASE ~(live.uid = o.bound /\ FenceHolds(o.wire))
    <3>1. ops' = [ops EXCEPT ![id] = [o EXCEPT !.st = "failed", !.code = RefusalCode(o.wire)]]
          /\ UNCHANGED <<live, nextUid, effects>>
      BY <1>7, <2>3 DEF HostCommit
    <3>2. ops' \in [1..MaxCalls -> Operation]
          /\ \A i \in 1..MaxCalls : ops'[i].st # "none" => ops'[i].wire.op # "observe"
      BY <1>a, <1>b, <2>1, <3>1 DEF Operation
    <3> QED  BY <1>7, <3>1, <3>2 DEF HostCommit, TypeOK
  <2> QED  BY <2>2, <2>3
<1>8. ASSUME NEW id \in 1..MaxCalls, HostCommitFails(id)  PROVE TypeInv'
  <2>1. ops' \in [1..MaxCalls -> Operation]
        /\ \A i \in 1..MaxCalls : ops'[i].st # "none" => ops'[i].wire.op # "observe"
    <3> DEFINE o == [ops[id] EXCEPT !.st = "failed", !.code = "conflict"]
    <3>0. ops[id] \in Operation /\ ops[id].st = "pending"
      BY <1>8, <1>a DEF HostCommitFails
    <3>1. o \in Operation /\ o.wire = ops[id].wire /\ ops[id].st # "none"
      BY <3>0, <1>b DEF Operation
    <3>2. ops' = [ops EXCEPT ![id] = o]
      BY <1>8, <1>a DEF HostCommitFails
    <3> HIDE DEF o
    <3> QED  BY <1>a, <3>1, <3>2
  <2> QED  BY <1>8, <2>1 DEF HostCommitFails, TypeOK
<1>9. ASSUME NEW id \in 1..MaxCalls, HostForgets(id)  PROVE TypeInv'
  <2>1. ops' \in [1..MaxCalls -> Operation]
        /\ \A i \in 1..MaxCalls : ops'[i].st # "none" => ops'[i].wire.op # "observe"
    BY <1>9, <1>a DEF HostForgets, Operation
  <2> QED  BY <1>9, <2>1 DEF HostForgets, TypeOK
<1> QED  BY <1>1, <1>2, <1>3, <1>4, <1>5, <1>6, <1>7, <1>8, <1>9 DEF HostStep

\* The initial state is well typed.
LEMMA InitTypes == Init => TypeInv
<1> SUFFICES ASSUME Init PROVE TypeInv
  OBVIOUS
<1>1. NoOperation \in Operation /\ NoOperation.st = "none"
  <2>1. WireOf(NoArgs, NoRep) \in Wire
    BY ConstantTypes, WireType DEF Digest
  <2> QED  BY <2>1, ConstantTypes, BoundsAssumption DEF NoOperation, Operation, Uid, Code
<1>2. 1 \in 1..RetryAttempts /\ 0 \in CallId /\ 0 \in Uid /\ 1 \in 1..(MaxUid + 1)
      /\ 1 \in 1..(MaxCalls + 1)
  BY BoundsAssumption DEF CallId, Uid
<1>3. call \in [Clients -> CallState]
  BY <1>2, ConstantTypes DEF Init, CallState, Digest
<1>4. TypeOK
  BY <1>1, <1>2, <1>3, ConstantTypes DEF Init, TypeOK
<1> QED  BY <1>1, <1>4 DEF Init, TypeInv, NoAnswer

\* Every reachable state is well typed, and every call number that is used to
\* look an Operation up is the number of a call that was made.
THEOREM TypesInductive == Spec => []TypeInv
<1>1. ASSUME TypeInv, [Next]_vars  PROVE TypeInv'
  <2>1. CASE UNCHANGED vars
    BY <1>1, <2>1 DEF TypeInv, TypeOK, vars
  <2> QED  BY <1>1, <2>1, ClientKeepsType, HostKeepsType DEF Next
<1> QED  BY <1>1, InitTypes, PTL DEF Spec

\* TypeOK holds of every reachable state: in particular no client ever makes
\* more than RetryAttempts attempts at one call.
THEOREM TypeCorrect == Spec => []TypeOK
<1>1. TypeInv => TypeOK
  BY DEF TypeInv
<1> QED  BY <1>1, TypesInductive, PTL

-----------------------------------------------------------------------------
(* A refusal means the call mutated nothing.  The argument is that a call    *)
(* never has two requests in flight: Client.do starts another attempt only   *)
(* after it has read an answer, so an answer that reports no mutation speaks *)
(* for the whole call.                                                       *)

\* A step of client c within its call, that neither sends nor starts one.
LEMMA QuietStepKeepsClean ==
  ASSUME TypeInv, CleanInv, NEW c \in Clients,
         UNCHANGED <<hostVars, net, nextCall>>,
         call[c].pc # "idle",
         \A d \in Clients : d # c => call'[d] = call[d] /\ inbox'[d] = inbox[d],
         call'[c].id = call[c].id,
         inbox'[c].kind = "none",
         call'[c].pc = "send" => Clean(call[c].id) /\ ~InFlight(call[c].id),
         call'[c].pc = "poll" =>
           AcceptedFor(call'[c].op, call[c].id) /\ ~InFlight(call[c].id),
         Returned(c, "refused")' /\ ~PollRefusal(call'[c]) => NothingDone(call'[c]),
         call'[c].pc # "prepare"
  PROVE  CleanInv'
<1>1. /\ \A id : Clean(id)' <=> Clean(id)
      /\ \A op, id : AcceptedFor(op, id)' <=> AcceptedFor(op, id)
      /\ \A k : NothingDone(k)' <=> NothingDone(k)
  BY DEF Clean, AcceptedFor, NothingDone, Ended, InFlight, hostVars
<1>2. \A id : InFlight(id)' <=> InFlight(id)
  BY DEF InFlight
<1>3. FreshCalls' /\ NoEarlyEffect'
  BY DEF CleanInv, FreshCalls, NoEarlyEffect, hostVars
<1>4. OneRequest'
  <2>1. \A r, s \in net' : r.call = s.call => r = s
    BY DEF CleanInv, OneRequest
  <2>2. \A r \in net' : Clean(r.call)'
    BY <1>1 DEF CleanInv, OneRequest
  <2>3. ASSUME NEW d \in Clients
        PROVE  /\ call'[d].pc \in {"prepare", "send"} =>
                    Clean(call[d].id)' /\ ~InFlight(call[d].id)'
               /\ inbox'[d].kind # "none" => call'[d].pc = "wait" /\ ~InFlight(call[d].id)'
               /\ inbox'[d].kind \in {"error", "retry"} => Clean(call[d].id)'
               /\ inbox'[d].kind = "accepted" => AcceptedFor(inbox[d].op, call[d].id)'
               /\ call'[d].pc = "poll" =>
                    AcceptedFor(call[d].op, call[d].id)' /\ ~InFlight(call[d].id)'
               /\ Returned(d, "refused")' /\ ~PollRefusal(call[d])' => NothingDone(call[d])'
    <3>1. CASE d = c
      BY <1>1, <1>2, <3>1 DEF Returned, PollRefusal
    <3>2. CASE d # c
      BY <1>1, <1>2, <3>2 DEF CleanInv, OneRequest, Returned, PollRefusal
    <3> QED  BY <3>1, <3>2
  <2> QED  BY <2>1, <2>2, <2>3 DEF OneRequest
<1> QED  BY <1>3, <1>4 DEF CleanInv

\* Returning from a call keeps CleanInv, when a refusal is that of a poll or is
\* returned for a call the Host has done nothing for.
LEMMA ReturnKeepsClean ==
  ASSUME TypeInv, CleanInv, NEW c \in Clients, NEW o \in Outcome, Return(c, o),
         call[c].pc # "idle",
         UNCHANGED <<hostVars, net, nextCall>>,
         inbox' = [inbox EXCEPT ![c] = NoAnswer] \/ (inbox' = inbox /\ call[c].pc # "wait"),
         o.kind = "refused" =>
           \/ /\ call[c].a.op \notin {"apply", "import"} /\ o.op # 0
              /\ o.code \in {"unavailable", "operation_not_found"}
           \/ /\ Clean(call[c].id) \/ Ended(call[c].id)
              /\ ~InFlight(call[c].id)
              /\ o.op # 0 => Ended(o.op)
  PROVE  CleanInv'
<1>1. TypeOK
  BY DEF TypeInv
<1>2. inbox'[c].kind = "none"
  <2>1. inbox'[c] = NoAnswer \/ (inbox'[c] = inbox[c] /\ call[c].pc # "wait")
    BY <1>1 DEF TypeOK
  <2>2. NoAnswer.kind = "none"
    BY DEF NoAnswer
  <2> QED  BY <2>1, <2>2 DEF CleanInv, OneRequest
<1>3. \A d \in Clients : d # c => call'[d] = call[d] /\ inbox'[d] = inbox[d]
  BY <1>1, ReturnFrame DEF TypeOK
<1>4. /\ call'[c].pc = "done" /\ call'[c].out = o
      /\ call'[c].id = call[c].id /\ call'[c].a = call[c].a
  BY <1>1, ReturnFrame
<1>5. Returned(c, "refused")' /\ ~PollRefusal(call'[c]) => NothingDone(call'[c])
  BY <1>4 DEF Returned, PollRefusal, NothingDone
<1> QED  BY <1>2, <1>3, <1>4, <1>5, QuietStepKeepsClean

\* Which outcomes are refusals.
LEMMA OutcomeKinds ==
  /\ [NoOutcome EXCEPT !.kind = "plain"].kind = "plain"
  /\ \A st \in {"none", "success"} :
       [NoOutcome EXCEPT !.kind = "plain", !.status = st].kind = "plain"
  /\ \A r \in Rep : [NoOutcome EXCEPT !.kind = "ok", !.rep = r, !.status = "success"].kind = "ok"
  /\ \A r \in Rep, id \in CallId :
       [NoOutcome EXCEPT !.kind = "ok", !.rep = r, !.op = id, !.status = "success"].kind = "ok"
  /\ \A code \in Code : [NoOutcome EXCEPT !.kind = "refused", !.code = code].op = 0
  /\ \A a \in Args, code \in Code :
       RefusalOutcome(a, code).kind = "notfound" => MapsToNotFound(a, code)
  /\ \A a \in Args, code \in Code : RefusalOutcome(a, code).kind \in {"notfound", "refused"}
  /\ \A a \in Args, code \in Code : RefusalOutcome(a, code).op = 0
<1>1. NoOutcome \in Outcome /\ NoOutcome.op = 0
  BY ConstantTypes DEF NoOutcome
<1> QED  BY <1>1 DEF Outcome, RefusalOutcome

\* CleanInv, one client action at a time.
LEMMA ClientKeepsClean ==
  ASSUME TypeInv, CleanInv, NEW c \in Clients, ClientStep(c)
  PROVE  CleanInv'
<1>t. TypeOK
  BY DEF TypeInv
<1>a. /\ call[c] \in CallState /\ call[c].a \in Args
      /\ call[c].att \in 1..RetryAttempts /\ call[c].op \in CallId /\ call[c].id \in CallId
      /\ inbox[c] \in Answer /\ inbox[c].rep \in Rep /\ inbox[c].code \in Code
      /\ inbox[c].op \in CallId /\ nextCall \in Nat
  BY <1>t DEF TypeOK, CallState, Answer, Rep
<1>b. /\ 0 \in CallId /\ \A id \in 1..MaxCalls : id \in CallId
      /\ "none" \in Code /\ \A a \in Args : PrepareRefusal(a) \in Code
  BY BoundsAssumption DEF CallId, Code, PrepareRefusal
<1>c. /\ call[c].pc \in {"prepare", "send"} => Clean(call[c].id) /\ ~InFlight(call[c].id)
      /\ inbox[c].kind # "none" => call[c].pc = "wait" /\ ~InFlight(call[c].id)
      /\ inbox[c].kind \in {"error", "retry"} => Clean(call[c].id)
      /\ inbox[c].kind = "accepted" => AcceptedFor(inbox[c].op, call[c].id)
      /\ call[c].pc = "poll" => AcceptedFor(call[c].op, call[c].id) /\ ~InFlight(call[c].id)
  BY DEF CleanInv, OneRequest
<1>1. CASE StartCall(c)
  <2>1. PICK a \in LegalArgs(c) : call' = [call EXCEPT ![c] =
         [pc |-> IF a.op = "apply" THEN "prepare" ELSE "send",
          id |-> nextCall, a |-> a, digest |-> NoRep, att |-> 1, op |-> 0,
          base |-> nextUid, live0 |-> live.uid, out |-> NoOutcome]]
    BY <1>1 DEF StartCall
  <2>2. /\ call'[c].id = nextCall /\ call'[c].pc \in {"prepare", "send"}
        /\ \A d \in Clients : d # c => call'[d] = call[d]
    BY <1>t, <2>1 DEF TypeOK
  <2>3. nextCall' = nextCall + 1 /\ nextCall \in 1..MaxCalls
        /\ UNCHANGED <<hostVars, net, inbox, held>> /\ call[c].pc \in {"idle", "done"}
    BY <1>1, <1>t DEF StartCall, TypeOK
  <2>4. Clean(nextCall) /\ ~InFlight(nextCall)
    BY <1>t, <2>3 DEF CleanInv, FreshCalls, Clean, InFlight, TypeOK, Effect, Request, CallId
  <2>5. FreshCalls'
    <3>1. \A d \in Clients : call[d].id \in Nat /\ call[d].id < nextCall
      BY <1>t DEF CleanInv, FreshCalls, TypeOK, CallState, CallId
    <3>2. /\ \A d \in Clients : call'[d].id < nextCall'
          /\ \A d, e \in Clients : call'[d].id = call'[e].id /\ call'[d].pc # "idle" => d = e
      BY <2>2, <2>3, <3>1 DEF CleanInv, FreshCalls
    <3>3. /\ \A r \in net : r.call \in Nat /\ r.call < nextCall
          /\ \A e \in effects : e.call \in Nat /\ e.call < nextCall
          /\ \A id \in 1..MaxCalls : ops[id].st # "none" => id < nextCall
      BY <1>t DEF CleanInv, FreshCalls, TypeOK, Request, Effect, CallId
    <3> QED  BY <2>3, <3>2, <3>3 DEF FreshCalls, hostVars
  <2>6. /\ \A id : Clean(id)' <=> Clean(id)
        /\ \A id : InFlight(id)' <=> InFlight(id)
        /\ \A op, id : AcceptedFor(op, id)' <=> AcceptedFor(op, id)
        /\ \A k : NothingDone(k)' <=> NothingDone(k)
        /\ NoEarlyEffect'
    BY <2>3 DEF Clean, InFlight, AcceptedFor, NothingDone, Ended, CleanInv, NoEarlyEffect, hostVars
  <2>7. OneRequest'
    <3>1. /\ \A r, s \in net' : r.call = s.call => r = s
          /\ \A r \in net' : Clean(r.call)'
      BY <2>3, <2>6 DEF CleanInv, OneRequest
    <3>2. ASSUME NEW d \in Clients
          PROVE  /\ call'[d].pc \in {"prepare", "send"} =>
                      Clean(call[d].id)' /\ ~InFlight(call[d].id)'
                 /\ inbox'[d].kind # "none" => call'[d].pc = "wait" /\ ~InFlight(call[d].id)'
                 /\ inbox'[d].kind \in {"error", "retry"} => Clean(call[d].id)'
                 /\ inbox'[d].kind = "accepted" => AcceptedFor(inbox[d].op, call[d].id)'
                 /\ call'[d].pc = "poll" =>
                      AcceptedFor(call[d].op, call[d].id)' /\ ~InFlight(call[d].id)'
                 /\ Returned(d, "refused")' /\ ~PollRefusal(call[d])' => NothingDone(call[d])'
      <4>1. CASE d = c
        BY <1>c, <2>2, <2>3, <2>4, <2>6, <4>1 DEF Returned
      <4>2. CASE d # c
        BY <2>2, <2>3, <2>6, <4>2 DEF CleanInv, OneRequest, Returned, PollRefusal
      <4> QED  BY <4>1, <4>2
    <3> QED  BY <3>1, <3>2 DEF OneRequest
  <2> QED  BY <2>5, <2>6, <2>7 DEF CleanInv
<1>2. CASE GetResource(c)
  <2>1. UNCHANGED <<hostVars, net, inbox, call, nextCall>>
    BY <1>2 DEF GetResource
  <2> QED
    BY <2>1 DEF CleanInv, FreshCalls, OneRequest, NoEarlyEffect, Clean, Ended, InFlight,
                AcceptedFor, NothingDone, hostVars, Returned, PollRefusal
<1>3. CASE PrepareResource(c)
  <2> DEFINE s == [call[c] EXCEPT !.pc = "send",
                     !.digest = [uid |-> live.uid, gen |-> live.gen, spec |-> call[c].a.spec]]
  <2>1. s.pc = "send" /\ s.id = call[c].id
    BY <1>a DEF CallState
  <2>2. call' = [call EXCEPT ![c] = s]
    BY <1>3 DEF PrepareResource
  <2> HIDE DEF s
  <2> QED
    BY <1>3, <1>t, <1>c, <2>1, <2>2, QuietStepKeepsClean DEF PrepareResource, TypeOK, Returned
<1>4. CASE PrepareRefused(c)
  BY <1>4, <1>a, <1>b, <1>c, OutcomeTypes, OutcomeKinds, ReturnKeepsClean DEF PrepareRefused
<1>5. CASE PrepareFails(c)
  BY <1>5, <1>a, <1>c, OutcomeTypes, OutcomeKinds, ReturnKeepsClean DEF PrepareFails
<1>6. CASE SendRequest(c)
  <2> DEFINE q == [client |-> c, call |-> call[c].id, att |-> call[c].att,
                   key |-> KeyOf(c), wire |-> WireOf(call[c].a, call[c].digest)]
             s == [call[c] EXCEPT !.pc = "wait"]
  <2>1. q.call = call[c].id /\ s.pc = "wait" /\ s.id = call[c].id
    BY <1>a DEF CallState
  <2>2. call' = [call EXCEPT ![c] = s] /\ net' = net \cup {q} /\ call[c].pc = "send"
        /\ UNCHANGED <<hostVars, inbox, held, nextCall>>
    BY <1>6 DEF SendRequest
  <2> HIDE DEF q, s
  <2>3. call'[c] = s /\ \A d \in Clients : d # c => call'[d] = call[d]
    BY <1>t, <2>2 DEF TypeOK
  <2>4. /\ \A id : Clean(id)' <=> Clean(id)
        /\ \A id : Ended(id)' <=> Ended(id)
        /\ \A op, id : AcceptedFor(op, id)' <=> AcceptedFor(op, id)
        /\ NoEarlyEffect'
    BY <2>2 DEF Clean, Ended, AcceptedFor, CleanInv, NoEarlyEffect, hostVars
  <2>5. Clean(call[c].id) /\ ~InFlight(call[c].id)
    BY <1>c, <2>2
  <2>6. FreshCalls'
    BY <2>1, <2>2, <2>3 DEF CleanInv, FreshCalls, hostVars
  <2>7. OneRequest'
    <3>1. \A r, t \in net' : r.call = t.call => r = t
      BY <2>1, <2>2, <2>5 DEF CleanInv, OneRequest, InFlight
    <3>2. \A r \in net' : Clean(r.call)'
      BY <2>1, <2>2, <2>4, <2>5 DEF CleanInv, OneRequest
    <3>3. ASSUME NEW d \in Clients
          PROVE  /\ call'[d].pc \in {"prepare", "send"} =>
                      Clean(call[d].id)' /\ ~InFlight(call[d].id)'
                 /\ inbox'[d].kind # "none" => call'[d].pc = "wait" /\ ~InFlight(call[d].id)'
                 /\ inbox'[d].kind \in {"error", "retry"} => Clean(call[d].id)'
                 /\ inbox'[d].kind = "accepted" => AcceptedFor(inbox[d].op, call[d].id)'
                 /\ call'[d].pc = "poll" =>
                      AcceptedFor(call[d].op, call[d].id)' /\ ~InFlight(call[d].id)'
                 /\ Returned(d, "refused")' /\ ~PollRefusal(call[d])' => NothingDone(call[d])'
      <4>1. CASE d = c
        BY <1>c, <2>1, <2>2, <2>3, <4>1 DEF Returned
      <4>2. CASE d # c
        <5>1. call[d].pc # "idle" => call[d].id # call[c].id
          BY <2>2, <4>2 DEF CleanInv, FreshCalls
        <5>2. call[d].pc # "idle" => (InFlight(call[d].id)' <=> InFlight(call[d].id))
          BY <2>1, <2>2, <5>1 DEF InFlight
        <5>3. call'[d] = call[d] /\ inbox'[d] = inbox[d]
          BY <2>2, <2>3, <4>2
        <5>4. /\ call[d].pc \in {"prepare", "send"} =>
                   Clean(call[d].id) /\ ~InFlight(call[d].id)
              /\ inbox[d].kind # "none" => call[d].pc = "wait" /\ ~InFlight(call[d].id)
              /\ inbox[d].kind \in {"error", "retry"} => Clean(call[d].id)
              /\ inbox[d].kind = "accepted" => AcceptedFor(inbox[d].op, call[d].id)
              /\ call[d].pc = "poll" =>
                   AcceptedFor(call[d].op, call[d].id) /\ ~InFlight(call[d].id)
              /\ Returned(d, "refused") /\ ~PollRefusal(call[d]) => NothingDone(call[d])
          BY DEF CleanInv, OneRequest
        <5> QED  BY <2>4, <5>2, <5>3, <5>4 DEF Returned, PollRefusal, NothingDone
      <4> QED  BY <4>1, <4>2
    <3> QED  BY <3>1, <3>2, <3>3 DEF OneRequest
  <2> QED  BY <2>4, <2>6, <2>7 DEF CleanInv
<1>7. CASE RetryCancelled(c)
  BY <1>7, <1>a, <1>c, OutcomeTypes, OutcomeKinds, ReturnKeepsClean DEF RetryCancelled
<1>8. CASE TransportError(c)
  BY <1>8, <1>a, OutcomeTypes, OutcomeKinds, ReturnKeepsClean DEF TransportError
<1>9. CASE BodyUnreadable(c)
  <2> DEFINE st == IF inbox[c].kind \in SuccessKinds THEN "success" ELSE "none"
             o == [NoOutcome EXCEPT !.kind = "plain", !.status = st]
  <2>1. st \in {"none", "success"}
    OBVIOUS
  <2> HIDE DEF st
  <2>2. o \in Outcome /\ o.kind # "refused"
    BY <2>1, OutcomeTypes, OutcomeKinds
  <2>3. Return(c, o)
    BY <1>9 DEF BodyUnreadable, st
  <2> HIDE DEF o
  <2> QED  BY <1>9, <2>2, <2>3, ReturnKeepsClean DEF BodyUnreadable
<1>10. CASE RetryableError(c)
  <2>1. CASE call[c].att < RetryAttempts
    <3> DEFINE s == [call[c] EXCEPT !.pc = "send", !.att = call[c].att + 1]
    <3>1. s.pc = "send" /\ s.id = call[c].id /\ NoAnswer.kind = "none"
      BY <1>a DEF CallState, NoAnswer
    <3>2. call' = [call EXCEPT ![c] = s]
      BY <1>10, <2>1 DEF RetryableError
    <3> HIDE DEF s
    <3> QED
      BY <1>10, <1>t, <1>c, <3>1, <3>2, QuietStepKeepsClean DEF RetryableError, TypeOK, Returned
  <2>2. CASE ~(call[c].att < RetryAttempts)
    <3>1. "unavailable" \in Code
      BY DEF Code
    <3> QED
      BY <1>10, <1>a, <1>c, <2>2, <3>1, OutcomeTypes, OutcomeKinds, ReturnKeepsClean
         DEF RetryableError
  <2> QED  BY <2>1, <2>2
<1>11. CASE Refused(c)
  BY <1>11, <1>a, <1>c, OutcomeTypes, OutcomeKinds, ReturnKeepsClean DEF Refused
<1>12. CASE DirectResult(c)
  <2>2. PICK o \in Outcome : Return(c, o) /\ o.kind # "refused"
    BY <1>12, <1>a, <1>b, OutcomeTypes, OutcomeKinds, UnverifiedOutcome DEF DirectResult
  <2> QED  BY <1>12, <2>2, ReturnKeepsClean DEF DirectResult
<1>13. CASE UnverifiableResult(c)
  <2>1. PICK o \in Outcome : Return(c, o) /\ o.kind # "refused"
    BY <1>13, <1>a, UnverifiedOutcome DEF UnverifiableResult
  <2> QED  BY <1>13, <2>1, ReturnKeepsClean DEF UnverifiableResult
<1>14. CASE OperationAccepted(c)
  <2> DEFINE s == [call[c] EXCEPT !.pc = "poll", !.op = inbox[c].op]
  <2>1. s.pc = "poll" /\ s.id = call[c].id /\ s.op = inbox[c].op /\ NoAnswer.kind = "none"
    BY <1>a DEF CallState, NoAnswer
  <2>2. call' = [call EXCEPT ![c] = s]
    BY <1>14 DEF OperationAccepted
  <2> HIDE DEF s
  <2> QED
    BY <1>14, <1>t, <1>c, <2>1, <2>2, QuietStepKeepsClean DEF OperationAccepted, TypeOK, Returned
<1>15. CASE PollDone(c)
  <2>1. ops[call[c].op].rep \in Rep
    BY <1>15, <1>t DEF PollDone, TypeInv, TypeOK, Operation
  <2> QED  BY <1>15, <1>a, <2>1, OutcomeTypes, OutcomeKinds, ReturnKeepsClean DEF PollDone
<1>16. CASE PollEnds(c)
  <2>1. PICK o \in Outcome :
          /\ Return(c, o) /\ o.op = call[c].op
          /\ o.kind = "refused" => call[c].a.op \notin {"apply", "import"}
          /\ \/ ops[call[c].op].st = "failed"
             \/ o.code \in {"unavailable", "operation_not_found"}
             \/ o.kind # "refused"
    BY <1>16, PollEndsOutcome
  <2>2. call[c].pc = "poll" /\ UNCHANGED <<hostVars, net, inbox, nextCall>>
    BY <1>16, PollEndsOutcome
  <2>3. call[c].op \in 1..MaxCalls /\ call[c].op # 0
    BY <2>2 DEF TypeInv
  <2>4. ops[call[c].op].st = "failed" => Ended(call[c].op)
    BY <2>3 DEF CleanInv, NoEarlyEffect, Ended
  <2> QED  BY <1>c, <2>1, <2>2, <2>3, <2>4, ReturnKeepsClean DEF AcceptedFor
<1> QED
  BY <1>1, <1>2, <1>3, <1>4, <1>5, <1>6, <1>7, <1>8, <1>9, <1>10, <1>11, <1>12, <1>13,
     <1>14, <1>15, <1>16 DEF ClientStep, PollEnds

\* A request r is taken off the network and answered; if anything is recorded
\* as a mutation it is under r's own call, and the answer does not deny it.
LEMMA AnswerKeepsClean ==
  ASSUME TypeInv, CleanInv, NEW r \in net, NEW ans \in Answer, Deliver(r, ans),
         net' = net \ {r}, UNCHANGED <<call, held, nextCall>>,
         \A e \in effects' : e \in effects \/ e.call = r.call,
         \A id \in 1..MaxCalls : id # r.call => ops'[id] = ops[id],
         effects' = effects \/ ops' = ops,
         ans.kind \in {"error", "retry"} \/ (ans.kind = "accepted" /\ ans.op # r.call)
           => effects' = effects /\ ops' = ops
  PROVE  CleanInv'
<1>t. TypeOK
  BY DEF TypeInv
<1>1. \A id \in 1..MaxCalls :
        /\ id # r.call /\ Clean(id) => Clean(id)'
        /\ id # r.call /\ Ended(id) => Ended(id)'
  BY DEF Clean, Ended
<1>2. /\ ~InFlight(r.call)'
      /\ \A id : ~InFlight(id) => ~InFlight(id)'
  BY DEF InFlight, CleanInv, OneRequest
<1>3. r.call \in 1..MaxCalls /\ Clean(r.call) /\ r.call < nextCall /\ InFlight(r.call)
  BY DEF TypeInv, CleanInv, OneRequest, FreshCalls, InFlight
<1>4. FreshCalls' /\ NoEarlyEffect'
  BY <1>3 DEF CleanInv, FreshCalls, NoEarlyEffect, Clean
<1>5. \A q, s \in net' : q.call = s.call => q = s
  BY DEF CleanInv, OneRequest
<1>6. \A q \in net' : Clean(q.call)'
  BY <1>1 DEF CleanInv, OneRequest, TypeInv
<1>7. ASSUME NEW c \in Clients
      PROVE  /\ call[c].pc \in {"prepare", "send"} =>
                  Clean(call[c].id)' /\ ~InFlight(call[c].id)'
             /\ inbox'[c].kind # "none" => call[c].pc = "wait" /\ ~InFlight(call[c].id)'
             /\ inbox'[c].kind \in {"error", "retry"} => Clean(call[c].id)'
             /\ inbox'[c].kind = "accepted" => AcceptedFor(inbox[c].op, call[c].id)'
             /\ call[c].pc = "poll" =>
                  AcceptedFor(call[c].op, call[c].id)' /\ ~InFlight(call[c].id)'
             /\ Returned(c, "refused")' /\ ~PollRefusal(call[c])' => NothingDone(call[c])'
  <2>1. /\ call[c].pc \in {"prepare", "send"} => Clean(call[c].id) /\ ~InFlight(call[c].id)
        /\ inbox[c].kind # "none" => call[c].pc = "wait" /\ ~InFlight(call[c].id)
        /\ inbox[c].kind \in {"error", "retry"} => Clean(call[c].id)
        /\ inbox[c].kind = "accepted" => AcceptedFor(inbox[c].op, call[c].id)
        /\ call[c].pc = "poll" => AcceptedFor(call[c].op, call[c].id) /\ ~InFlight(call[c].id)
        /\ Returned(c, "refused") /\ ~PollRefusal(call[c]) => NothingDone(call[c])
    BY DEF CleanInv, OneRequest
  <2>2. call[c].pc # "idle" => call[c].id \in 1..MaxCalls
    BY DEF TypeInv
  <2>a. call[c].pc = "done" /\ NothingDone(call[c]) => NothingDone(call[c])'
    <3>1. call[c].out.op # 0 => call[c].out.op \in 1..MaxCalls
      BY <1>t DEF TypeOK, CallState, Outcome, CallId
    <3>2. \A id \in 1..MaxCalls : Ended(id) => Ended(id)'
      BY <1>1, <1>3 DEF Clean, Ended
    <3> QED  BY <1>1, <1>2, <1>3, <2>2, <3>1, <3>2 DEF NothingDone
  <2>b. \A op : AcceptedFor(op, call[c].id) /\ ~InFlight(call[c].id) /\ call[c].pc # "idle"
          => AcceptedFor(op, call[c].id)'
    BY <1>1, <1>3, <2>2 DEF AcceptedFor
  <2>3. CASE inbox'[c] = inbox[c]
    BY <1>1, <1>2, <1>3, <2>1, <2>2, <2>3, <2>a, <2>b DEF Returned, PollRefusal
  <2>4. CASE inbox'[c] = ans /\ call[c].pc = "wait" /\ call[c].id = r.call
    <3>1. ans.kind \in {"error", "retry"} => Clean(r.call)'
      BY <1>3 DEF Clean
    <3>2. ans.kind = "accepted" => AcceptedFor(ans.op, r.call)'
      BY <1>3 DEF AcceptedFor, Clean
    <3> QED  BY <1>2, <2>4, <3>1, <3>2 DEF Returned
  <2> QED  BY <1>t, <2>3, <2>4, DeliverFrame
<1> QED  BY <1>4, <1>5, <1>6, <1>7 DEF CleanInv, OneRequest

\* An Operation that has been accepted moves on.
LEMMA OperationKeepsClean ==
  ASSUME TypeInv, CleanInv, NEW id \in 1..MaxCalls, ops[id].st # "none",
         \A e \in effects' : e \in effects \/ e.call = id,
         ops' \in [1..MaxCalls -> Operation],
         \A i \in 1..MaxCalls : i # id => ops'[i] = ops[i],
         ops'[id].st \in {"failed", "expired"} => effects' = effects,
         ops[id].st \in {"failed", "expired"} => ops'[id].st \in {"failed", "expired"},
         ops'[id].st \in {"pending", "failed"} => ops[id].st \in {"pending", "failed"}
                                                  /\ effects' = effects,
         UNCHANGED <<net, inbox, call, nextCall>>
  PROVE  CleanInv'
<1>1. \A i \in 1..MaxCalls : (Clean(i) => i # id /\ Clean(i)') /\ (Ended(i) => Ended(i)')
  BY DEF Clean, Ended
<1>2. \A i : InFlight(i)' <=> InFlight(i)
  BY DEF InFlight
<1>3. FreshCalls' /\ NoEarlyEffect'
  BY DEF CleanInv, FreshCalls, NoEarlyEffect
<1>4. \A c \in Clients : call[c].pc # "idle" => call[c].id \in 1..MaxCalls
  BY DEF TypeInv
<1>5. \A r \in net : r.call \in 1..MaxCalls
  BY DEF TypeInv
<1>6. ASSUME NEW c \in Clients
      PROVE  /\ call[c].pc = "done" /\ NothingDone(call[c]) => NothingDone(call[c])'
             /\ \A op : AcceptedFor(op, call[c].id) /\ call[c].pc # "idle"
                  => AcceptedFor(op, call[c].id)'
  <2>1. call[c].out.op # 0 => call[c].out.op \in 1..MaxCalls
    BY DEF TypeInv, TypeOK, CallState, Outcome, CallId
  <2> QED  BY <1>1, <1>2, <1>4, <2>1 DEF NothingDone, AcceptedFor
<1>7. OneRequest'
  <2>1. /\ \A r, s \in net' : r.call = s.call => r = s
        /\ \A r \in net' : Clean(r.call)'
    BY <1>1, <1>5 DEF CleanInv, OneRequest
  <2>2. ASSUME NEW c \in Clients
        PROVE  /\ call[c].pc \in {"prepare", "send"} =>
                    Clean(call[c].id)' /\ ~InFlight(call[c].id)'
               /\ inbox[c].kind # "none" => call[c].pc = "wait" /\ ~InFlight(call[c].id)'
               /\ inbox[c].kind \in {"error", "retry"} => Clean(call[c].id)'
               /\ inbox[c].kind = "accepted" => AcceptedFor(inbox[c].op, call[c].id)'
               /\ call[c].pc = "poll" =>
                    AcceptedFor(call[c].op, call[c].id)' /\ ~InFlight(call[c].id)'
               /\ Returned(c, "refused") /\ ~PollRefusal(call[c]) => NothingDone(call[c])'
    BY <1>1, <1>2, <1>4, <1>6 DEF CleanInv, OneRequest, Returned
  <2> QED  BY <2>1, <2>2 DEF OneRequest, Returned, PollRefusal
<1> QED  BY <1>3, <1>7 DEF CleanInv

\* CleanInv, one Host action at a time.
LEMMA HostKeepsClean ==
  ASSUME TypeInv, CleanInv, HostStep
  PROVE  CleanInv'
<1>t. TypeOK /\ TypeInv'
  BY HostKeepsType DEF TypeInv
<1>a. /\ "key_reused" \in Code /\ "conflict" \in Code
      /\ \A w \in Wire : RefusalCode(w) \in Code
  BY DEF Code, RefusalCode
<1>k. /\ RetryAnswer.kind = "retry" /\ DeletedAnswer.kind = "deleted"
      /\ \A rep \in Rep : OkAnswer(rep).kind = "ok"
      /\ \A id \in 1..MaxCalls :
           AcceptedAnswer(id).kind = "accepted" /\ AcceptedAnswer(id).op = id
  BY DEF RetryAnswer, DeletedAnswer, OkAnswer, AcceptedAnswer, NoAnswer
<1>o. ops \in [1..MaxCalls -> Operation] /\ ops' \in [1..MaxCalls -> Operation]
  BY <1>t DEF TypeInv, TypeOK
<1>1. ASSUME NEW r \in net, HostReplay(r)  PROVE CleanInv'
  <2>1. PICK rec \in Replayable(r) :
          Deliver(r, IF rec.wire = r.wire THEN rec.ans ELSE ErrorAnswer("key_reused"))
    BY <1>1 DEF HostReplay
  <2>2. rec.ans \in Answer /\ ErrorAnswer("key_reused") \in Answer
    BY <1>t, <1>a, AnswerTypes DEF Replayable, TypeOK
  <2> QED  BY <1>1, <2>1, <2>2, AnswerKeepsClean DEF HostReplay, hostVars
<1>2. ASSUME NEW r \in net, HostBusy(r)  PROVE CleanInv'
  BY <1>2, ConstantTypes, AnswerKeepsClean DEF HostBusy, hostVars
<1>3. ASSUME NEW r \in net, HostRefuse(r)  PROVE CleanInv'
  BY <1>3, <1>t, <1>a, RequestTypes, AnswerTypes, AnswerKeepsClean DEF HostRefuse, hostVars
<1>4. ASSUME NEW r \in net, HostPerform(r)  PROVE CleanInv'
  <2>1. r.wire \in Wire /\ r.wire.op # "observe" /\ RoomFor(r.wire)
        /\ Perform(r.call, r.key, r.wire) /\ ops' = ops
    BY <1>4, <1>t, RequestTypes DEF HostPerform
  <2>2. \A e \in effects' : e \in effects \/ e.call = r.call
    BY <2>1 DEF Perform
  <2> DEFINE ans == IF r.wire.op = "delete" THEN DeletedAnswer ELSE OkAnswer(Written(r.wire))
  <2>3. ans \in Answer /\ ans.kind \notin {"error", "retry"}
    BY <1>t, <1>k, <2>1, WrittenType, ConstantTypes, AnswerTypes
  <2>4. Deliver(r, ans)
    BY <1>4 DEF HostPerform
  <2> HIDE DEF ans
  <2>5. ans.kind # "accepted"
    BY <1>t, <1>k, <2>1, WrittenType DEF ans
  <2> QED  BY <1>4, <2>1, <2>2, <2>3, <2>4, <2>5, AnswerKeepsClean DEF HostPerform
<1>5. ASSUME NEW r \in net, HostObserve(r)  PROVE CleanInv'
  <2>1. OkAnswer(live) \in Answer
    BY <1>t, AnswerTypes DEF TypeOK
  <2> QED  BY <1>5, <1>t, <1>k, <2>1, AnswerKeepsClean DEF HostObserve, TypeOK
<1>6. ASSUME NEW r \in net, HostAccept(r)  PROVE CleanInv'
  <2>1. r.call \in 1..MaxCalls
    BY DEF TypeInv
  <2>2. AcceptedAnswer(r.call) \in Answer /\ AcceptedAnswer(r.call).kind = "accepted"
        /\ AcceptedAnswer(r.call).op = r.call
    BY <1>k, <2>1, AnswerTypes
  <2>3. \A id \in 1..MaxCalls : id # r.call => ops'[id] = ops[id]
    BY <1>6, <1>o DEF HostAccept
  <2> QED  BY <1>6, <2>2, <2>3, AnswerKeepsClean DEF HostAccept
<1>7. ASSUME NEW id \in 1..MaxCalls, HostCommit(id)  PROVE CleanInv'
  <2>1. \A e \in effects' : e \in effects \/ e.call = id
    BY <1>7 DEF HostCommit, Perform
  <2>2. \A i \in 1..MaxCalls : i # id => ops'[i] = ops[i]
    BY <1>7, <1>o DEF HostCommit
  <2>3. /\ ops[id].st = "pending"
        /\ ops'[id].st = "done" \/ (ops'[id].st = "failed" /\ effects' = effects)
    <3>1. ops[id] \in Operation /\ ops[id].st = "pending"
      BY <1>7, <1>o DEF HostCommit
    <3>2. CASE live.uid = ops[id].bound /\ FenceHolds(ops[id].wire)
      <4> DEFINE v == IF ops[id].wire.op = "delete" THEN NoRep ELSE Written(ops[id].wire)
      <4>1. ops' = [ops EXCEPT ![id] = [ops[id] EXCEPT !.st = "done", !.rep = v]]
        BY <1>7, <3>2 DEF HostCommit
      <4> HIDE DEF v
      <4> QED  BY <1>o, <3>1, <4>1 DEF Operation
    <3>3. CASE ~(live.uid = ops[id].bound /\ FenceHolds(ops[id].wire))
      <4> DEFINE v == RefusalCode(ops[id].wire)
      <4>1. /\ ops' = [ops EXCEPT ![id] = [ops[id] EXCEPT !.st = "failed", !.code = v]]
            /\ effects' = effects
        BY <1>7, <3>3 DEF HostCommit
      <4> HIDE DEF v
      <4> QED  BY <1>o, <3>1, <4>1 DEF Operation
    <3> QED  BY <3>1, <3>2, <3>3
  <2> QED  BY <1>7, <1>o, <2>1, <2>2, <2>3, OperationKeepsClean DEF HostCommit
<1>8. ASSUME NEW id \in 1..MaxCalls, HostCommitFails(id)  PROVE CleanInv'
  <2>1. \A i \in 1..MaxCalls : i # id => ops'[i] = ops[i]
    BY <1>8, <1>o DEF HostCommitFails
  <2>2. ops[id].st = "pending" /\ ops'[id].st = "failed"
    BY <1>8, <1>o DEF HostCommitFails, Operation
  <2> QED  BY <1>8, <1>o, <2>1, <2>2, OperationKeepsClean DEF HostCommitFails
<1>9. ASSUME NEW id \in 1..MaxCalls, HostForgets(id)  PROVE CleanInv'
  <2>1. \A i \in 1..MaxCalls : i # id => ops'[i] = ops[i]
    BY <1>9, <1>o DEF HostForgets
  <2>2. ops[id].st \in {"done", "failed"} /\ ops'[id].st = "expired"
    BY <1>9, <1>o DEF HostForgets, Operation
  <2> QED  BY <1>9, <1>o, <2>1, <2>2, OperationKeepsClean DEF HostForgets
<1> QED  BY <1>1, <1>2, <1>3, <1>4, <1>5, <1>6, <1>7, <1>8, <1>9 DEF HostStep

\* CleanInv holds initially: no call was made.
LEMMA InitClean == Init => CleanInv
<1> SUFFICES ASSUME Init PROVE CleanInv
  OBVIOUS
<1>1. \A c \in Clients : call[c].pc = "idle" /\ call[c].id = 0 /\ inbox[c].kind = "none"
  BY DEF Init, NoAnswer
<1>2. \A id \in 1..MaxCalls : ops[id].st = "none"
  BY DEF Init, NoOperation
<1>3. net = {} /\ effects = {} /\ nextCall = 1
  BY DEF Init
<1> QED  BY <1>1, <1>2, <1>3 DEF CleanInv, FreshCalls, OneRequest, NoEarlyEffect, Returned

\* A call never has two requests in flight, the Host has mutated nothing for a
\* call that is about to send or has been told so, and an Operation that is not
\* done has mutated nothing.
THEOREM CleanInductive == Spec => []CleanInv
<1>1. ASSUME TypeInv, CleanInv, [Next]_vars  PROVE CleanInv'
  <2>1. CASE UNCHANGED vars
    BY <1>1, <2>1 DEF CleanInv, FreshCalls, OneRequest, NoEarlyEffect, Clean, Ended, InFlight,
                      AcceptedFor, NothingDone, Returned, PollRefusal, vars
  <2> QED  BY <1>1, <2>1, ClientKeepsClean, HostKeepsClean DEF Next
<1> QED  BY <1>1, InitClean, TypesInductive, PTL DEF Spec

\* When a call ends with a structured refusal other than that of a poll, neither
\* it nor the Operation it was answered with has mutated anything, the Operation
\* has ended, and no request is still on its way: it stays true for good.
THEOREM RefusalsAreClean == Spec => []RefusedMeansNoEffect
<1>1. ASSUME TypeInv, CleanInv  PROVE RefusedMeansNoEffect
  <2>1. SUFFICES ASSUME NEW c \in Clients, Returned(c, "refused"), ~PollRefusal(call[c]),
                        NEW id \in {call[c].id, call[c].out.op} \ {0}
                 PROVE  /\ \A e \in effects : e.call # id
                        /\ \A r \in net : r.call # id
                        /\ ops[id].st \notin {"pending", "done"}
    BY DEF RefusedMeansNoEffect
  <2>2. NothingDone(call[c])
    BY <1>1, <2>1 DEF CleanInv, OneRequest
  <2>3. \A r \in net : Clean(r.call)
    BY <1>1 DEF CleanInv, OneRequest
  <2>4. Clean(id) \/ Ended(id)
    BY <2>2 DEF NothingDone
  <2>5. id = call[c].id => ~InFlight(id)
    BY <2>2 DEF NothingDone
  <2>6. id # call[c].id => Ended(id)
    BY <2>2 DEF NothingDone
  <2> QED  BY <2>3, <2>4, <2>5, <2>6 DEF Clean, Ended, InFlight
<1> QED  BY <1>1, TypesInductive, CleanInductive, PTL

-----------------------------------------------------------------------------
(* "Gone" means gone.  A success of a delete, and resource_not_found for a   *)
(* delete or an observe, travel a long way before a caller sees them: a      *)
(* record, a replay, a response, an Operation.  On every leg what they say   *)
(* about the named incarnation stays true, because the key that names it is  *)
(* the same on every leg.                                                    *)

\* A client's own steps leave every statement about the Host as it was.
LEMMA LocalStepKeepsGone ==
  ASSUME TypeInv, TypeInv', GoneInv, NEW c \in Clients,
         UNCHANGED hostVars,
         \A d \in Clients : d # c =>
           call'[d] = call[d] /\ inbox'[d] = inbox[d] /\ held'[d] = held[d],
         call'[c].a.uid < nextUid, held'[c].uid < nextUid, inbox'[c].rep.uid < nextUid,
         call'[c].pc # "idle" /\ call'[c].a.op \in {"delete", "observe"} => call'[c].a.uid > 0,
         \A r \in net' :
           r \in net \/ (r.client = c /\ r.key.uid < nextUid /\ NamesUid(r.key, r.wire)),
         \A r \in net' : r.client = c /\ r.call = call'[c].id => r.key = KeyOf(c)',
         inbox'[c].kind = "none",
         call'[c].pc = "poll" => AcceptedUnder(call'[c].op, KeyOf(c)'),
         Returned(c, "ok")' /\ call'[c].a.op = "delete" => Dead(call'[c].a.uid),
         Returned(c, "notfound")' =>
           call'[c].a.op \in {"delete", "observe"} /\ Dead(call'[c].a.uid)
  PROVE  GoneInv'
<1>1. \A u : Dead(u)' <=> Dead(u)
  BY DEF Dead, hostVars
<1>2. \A id, k : AcceptedUnder(id, k)' <=> AcceptedUnder(id, k)
  BY DEF AcceptedUnder, hostVars
<1>3. \A d \in Clients : d # c => KeyOf(d)' = KeyOf(d)
  BY DEF KeyOf, incarnationKey
<1>4. UidsIssued'
  BY DEF GoneInv, UidsIssued, hostVars
<1>5. Named'
  BY DEF GoneInv, Named, hostVars, NamesUid
<1>6. OwnKey'
  <2>1. ASSUME NEW r \in net', r.call = call'[r.client].id  PROVE r.key = KeyOf(r.client)'
    <3>1. CASE r.client = c
      BY <2>1, <3>1
    <3>2. CASE r.client # c
      <4>1. r \in net /\ r.client \in Clients
        BY <3>2 DEF TypeInv, TypeOK, Request
      <4>2. r.key = KeyOf(r.client)
        BY <2>1, <3>2, <4>1 DEF GoneInv, OwnKey
      <4> QED  BY <1>3, <3>2, <4>1, <4>2
    <3> QED  BY <3>1, <3>2
  <2> QED  BY <2>1 DEF OwnKey
<1>7. \A ans, op, u : AnswerTruth(ans, op, u)' <=> AnswerTruth(ans, op, u)
  BY <1>1 DEF AnswerTruth
<1>8. RecordTruth' /\ OperationTruth'
  BY <1>1, <1>2, <1>7 DEF GoneInv, RecordTruth, OperationTruth, hostVars
<1>9. ASSUME NEW d \in Clients
      PROVE  /\ AnswerTruth(inbox[d], call[d].a.op, call[d].a.uid)'
             /\ inbox'[d].kind = "accepted" => AcceptedUnder(inbox[d].op, KeyOf(d))'
             /\ call'[d].pc = "poll" => AcceptedUnder(call[d].op, KeyOf(d))'
             /\ Returned(d, "notfound")' => call'[d].a.op \in {"delete", "observe"}
             /\ Returned(d, "ok")' /\ call'[d].a.op = "delete" => Dead(call[d].a.uid)'
             /\ Returned(d, "notfound")' => Dead(call[d].a.uid)'
  <2>1. CASE d = c
    BY <1>1, <1>2, <1>7, <2>1 DEF AnswerTruth
  <2>2. CASE d # c
    <3>1. /\ AnswerTruth(inbox[d], call[d].a.op, call[d].a.uid)
          /\ inbox[d].kind = "accepted" => AcceptedUnder(inbox[d].op, KeyOf(d))
          /\ call[d].pc = "poll" => AcceptedUnder(call[d].op, KeyOf(d))
          /\ Returned(d, "notfound") => call[d].a.op \in {"delete", "observe"}
          /\ Returned(d, "ok") /\ call[d].a.op = "delete" => Dead(call[d].a.uid)
          /\ Returned(d, "notfound") => Dead(call[d].a.uid)
      BY DEF GoneInv, ClientTruth, DeleteSuccessMeansGone, NotFoundMeansGone
    <3> QED  BY <1>1, <1>2, <1>3, <1>7, <2>2, <3>1 DEF Returned
  <2> QED  BY <2>1, <2>2
<1> QED
  BY <1>4, <1>5, <1>6, <1>8, <1>9
     DEF GoneInv, ClientTruth, DeleteSuccessMeansGone, NotFoundMeansGone

\* The same for a step within the call, which keeps the call's key.
LEMMA WithinCallKeepsGone ==
  ASSUME TypeInv, TypeInv', CleanInv, GoneInv, NEW c \in Clients,
         UNCHANGED <<hostVars, net>>,
         \A d \in Clients : d # c =>
           call'[d] = call[d] /\ inbox'[d] = inbox[d] /\ held'[d] = held[d],
         call[c].pc # "idle",
         call'[c].id = call[c].id, call'[c].a = call[c].a, call'[c].digest = call[c].digest,
         inbox' = [inbox EXCEPT ![c] = NoAnswer] \/ (inbox' = inbox /\ call[c].pc # "wait"),
         held'[c].uid < nextUid,
         call'[c].pc = "poll" => AcceptedUnder(call'[c].op, KeyOf(c)),
         Returned(c, "ok")' /\ call[c].a.op = "delete" => Dead(call[c].a.uid),
         Returned(c, "notfound")' =>
           call[c].a.op \in {"delete", "observe"} /\ Dead(call[c].a.uid)
  PROVE  GoneInv'
<1>1. KeyOf(c)' = KeyOf(c)
  BY DEF KeyOf, incarnationKey
<1>2. inbox'[c].kind = "none" /\ inbox'[c].rep.uid < nextUid
  <2>1. nextUid \in Nat \ {0}
    <3>1. nextUid \in 1..(MaxUid + 1)
      BY DEF TypeInv, TypeOK
    <3> QED  BY <3>1, BoundsAssumption
  <2>2. NoAnswer.kind = "none" /\ NoAnswer.rep.uid = 0
    BY DEF NoAnswer, NoRep
  <2>3. inbox'[c] = NoAnswer \/ (inbox'[c] = inbox[c] /\ inbox[c].kind = "none")
    BY DEF TypeInv, TypeOK, CleanInv, OneRequest
  <2> QED  BY <2>1, <2>2, <2>3 DEF GoneInv, UidsIssued
<1>3. call[c].a.uid < nextUid /\ (call[c].a.op \in {"delete", "observe"} => call[c].a.uid > 0)
  BY DEF GoneInv, UidsIssued, Named
<1>4. \A r \in net : r.client = c /\ r.call = call[c].id => r.key = KeyOf(c)
  BY DEF GoneInv, OwnKey
<1> QED  BY <1>1, <1>2, <1>3, <1>4, LocalStepKeepsGone

\* Returning from a call keeps GoneInv, when what is returned is true.
LEMMA ReturnKeepsGone ==
  ASSUME TypeInv, TypeInv', CleanInv, GoneInv,
         NEW c \in Clients, NEW o \in Outcome, Return(c, o),
         call[c].pc # "idle",
         UNCHANGED <<hostVars, net>>,
         inbox' = [inbox EXCEPT ![c] = NoAnswer] \/ (inbox' = inbox /\ call[c].pc # "wait"),
         held' = held \/ \E h : held' = [held EXCEPT ![c] = h] /\ h.uid < nextUid,
         o.kind = "ok" /\ call[c].a.op = "delete" => Dead(call[c].a.uid),
         o.kind = "notfound" => call[c].a.op \in {"delete", "observe"} /\ Dead(call[c].a.uid)
  PROVE  GoneInv'
<1>1. TypeOK
  BY DEF TypeInv
<1>2. held'[c].uid < nextUid /\ \A d \in Clients : d # c => held'[d] = held[d]
  BY <1>1 DEF TypeOK, GoneInv, UidsIssued
<1>3. \A d \in Clients : d # c => inbox'[d] = inbox[d]
  BY <1>1 DEF TypeOK
<1>4. /\ call'[c].pc = "done" /\ call'[c].out = o /\ call'[c].id = call[c].id
      /\ call'[c].a = call[c].a /\ call'[c].digest = call[c].digest
      /\ \A d \in Clients : d # c => call'[d] = call[d]
  BY <1>1, ReturnFrame
<1>5. \A k : Returned(c, k)' <=> o.kind = k
  BY <1>4 DEF Returned
<1> QED  BY <1>2, <1>3, <1>4, <1>5, WithinCallKeepsGone

\* GoneInv, one client action at a time: what a client concludes is what it was
\* told.
LEMMA ClientKeepsGone ==
  ASSUME TypeInv, CleanInv, GoneInv, NEW c \in Clients, ClientStep(c)
  PROVE  GoneInv'
<1>t. TypeOK /\ TypeInv'
  BY ClientKeepsType DEF TypeInv
<1>a. /\ call[c] \in CallState /\ call[c].a \in Args /\ call[c].op \in CallId
      /\ call[c].id \in CallId /\ inbox[c] \in Answer /\ inbox[c].rep \in Rep
      /\ inbox[c].code \in Code /\ inbox[c].op \in CallId
      /\ nextUid \in Nat \ {0} /\ nextCall \in Nat
  <2>1. nextUid \in 1..(MaxUid + 1) /\ nextCall \in 1..(MaxCalls + 1)
    BY <1>t DEF TypeOK
  <2> QED  BY <1>t, <2>1, BoundsAssumption DEF TypeOK, CallState, Answer, Rep
<1>b. /\ 0 \in CallId /\ \A id \in 1..MaxCalls : id \in CallId
      /\ "none" \in Code /\ \A a \in Args : PrepareRefusal(a) \in Code
  BY BoundsAssumption DEF CallId, Code, PrepareRefusal
<1>g. /\ inbox[c].rep.uid < nextUid /\ held[c].uid < nextUid /\ live.uid < nextUid
      /\ AnswerTruth(inbox[c], call[c].a.op, call[c].a.uid)
      /\ inbox[c].kind = "accepted" => AcceptedUnder(inbox[c].op, KeyOf(c))
      /\ call[c].pc = "poll" => AcceptedUnder(call[c].op, KeyOf(c))
  BY DEF GoneInv, UidsIssued, ClientTruth
<1>h. NoHeld.uid = 0 /\ \A u, g : [uid |-> u, gen |-> g].uid = u
  BY DEF NoHeld
<1>k. KeyOf(c).op = call[c].a.op /\ KeyOf(c).uid = call[c].a.uid
  BY DEF KeyOf, incarnationKey
<1>r. /\ "unavailable" \in Code
      /\ \A code \in Code : [NoOutcome EXCEPT !.kind = "refused", !.code = code].kind = "refused"
  BY ConstantTypes DEF Outcome, Code
<1>1. CASE StartCall(c)
  <2>1. PICK a \in LegalArgs(c) : call' = [call EXCEPT ![c] =
         [pc |-> IF a.op = "apply" THEN "prepare" ELSE "send",
          id |-> nextCall, a |-> a, digest |-> NoRep, att |-> 1, op |-> 0,
          base |-> nextUid, live0 |-> live.uid, out |-> NoOutcome]]
    BY <1>1 DEF StartCall
  <2>2. /\ call'[c].id = nextCall /\ call'[c].pc \in {"prepare", "send"} /\ call'[c].a = a
        /\ \A d \in Clients : d # c => call'[d] = call[d]
    BY <1>t, <2>1 DEF TypeOK
  <2>3. UNCHANGED <<hostVars, net, inbox, held>> /\ call[c].pc \in {"idle", "done"}
    BY <1>1 DEF StartCall
  <2>4. held[c].uid \in Nat
    BY <1>t, BoundsAssumption DEF TypeOK, Uid
  <2>5. a.uid \in {0, held[c].uid} /\ (a.op \in {"delete", "observe"} => a.uid > 0)
    BY <2>4 DEF LegalArgs, ApplyArgs, ImportArgs, StatusActionArgs, DeleteArgs, Fenced
  <2>6. inbox[c].kind = "none" /\ \A r \in net : r.call < nextCall /\ r.call \in Nat
    BY <1>t, <2>3, BoundsAssumption DEF CleanInv, OneRequest, FreshCalls, TypeOK, Request, CallId
  <2> QED  BY <1>a, <1>g, <1>t, <2>2, <2>3, <2>5, <2>6, LocalStepKeepsGone DEF Returned
<1>2. CASE GetResource(c)
  <2>1. held' = [held EXCEPT ![c] = [uid |-> live.uid, gen |-> live.gen]]
        /\ UNCHANGED <<hostVars, net, inbox, call, nextCall>> /\ call[c].pc \in {"idle", "done"}
    BY <1>2 DEF GetResource
  <2>2. held'[c].uid = live.uid /\ \A d \in Clients : d # c => held'[d] = held[d]
    BY <1>t, <2>1 DEF TypeOK
  <2>3. UidsIssued'
    BY <1>g, <2>1, <2>2 DEF GoneInv, UidsIssued, hostVars
  <2>4. \A d \in Clients : KeyOf(d)' = KeyOf(d)
    BY <2>1 DEF KeyOf, incarnationKey
  <2>5. OwnKey'
    BY <1>t, <2>1, <2>4 DEF GoneInv, OwnKey, TypeOK, Request
  <2>6. Named' /\ RecordTruth' /\ OperationTruth'
    BY <2>1 DEF GoneInv, Named, RecordTruth, OperationTruth, AnswerTruth, AcceptedUnder, Dead, hostVars
  <2>7. ClientTruth' /\ DeleteSuccessMeansGone' /\ NotFoundMeansGone'
    BY <2>1, <2>4 DEF GoneInv, ClientTruth, AnswerTruth, AcceptedUnder, Dead, hostVars, Returned,
                      DeleteSuccessMeansGone, NotFoundMeansGone
  <2> QED  BY <2>3, <2>5, <2>6, <2>7 DEF GoneInv
<1>3. CASE PrepareResource(c)
  <2> DEFINE s == [call[c] EXCEPT !.pc = "send",
                     !.digest = [uid |-> live.uid, gen |-> live.gen, spec |-> call[c].a.spec]]
  <2>1. s.pc = "send" /\ s.id = call[c].id /\ s.a = call[c].a
    BY <1>a DEF CallState
  <2>2. call' = [call EXCEPT ![c] = s] /\ UNCHANGED <<hostVars, net, inbox, held>>
        /\ call[c].pc = "prepare"
    BY <1>3 DEF PrepareResource
  <2> HIDE DEF s
  <2>3. call'[c] = s /\ \A d \in Clients : d # c => call'[d] = call[d]
    BY <1>t, <2>2 DEF TypeOK
  <2>4. inbox[c].kind = "none" /\ \A r \in net : r.call # call[c].id
    BY <2>2 DEF CleanInv, OneRequest, InFlight
  <2>5. call[c].a.uid < nextUid /\ (call[c].a.op \in {"delete", "observe"} => call[c].a.uid > 0)
    BY <2>2 DEF GoneInv, UidsIssued, Named
  <2> QED  BY <1>g, <1>t, <2>1, <2>2, <2>3, <2>4, <2>5, LocalStepKeepsGone DEF Returned
<1>4. CASE PrepareRefused(c)
  BY <1>4, <1>a, <1>b, <1>r, OutcomeTypes, <1>t, ReturnKeepsGone DEF PrepareRefused
<1>5. CASE PrepareFails(c)
  BY <1>5, <1>a, OutcomeTypes, OutcomeKinds, <1>t, ReturnKeepsGone DEF PrepareFails
<1>6. CASE SendRequest(c)
  <2> DEFINE q == [client |-> c, call |-> call[c].id, att |-> call[c].att,
                   key |-> KeyOf(c), wire |-> WireOf(call[c].a, call[c].digest)]
             s == [call[c] EXCEPT !.pc = "wait"]
  <2>1. /\ s.pc = "wait" /\ s.id = call[c].id /\ s.a = call[c].a /\ s.digest = call[c].digest
        /\ q.client = c /\ q.key = KeyOf(c)
    BY <1>a DEF CallState
  <2>2. q.wire.op = call[c].a.op
    BY DEF WireOf
  <2>3. call' = [call EXCEPT ![c] = s] /\ net' = net \cup {q} /\ call[c].pc = "send"
        /\ UNCHANGED <<hostVars, inbox, held, nextCall>>
    BY <1>6 DEF SendRequest
  <2> HIDE DEF q, s
  <2>4. call'[c] = s /\ \A d \in Clients : d # c => call'[d] = call[d]
    BY <1>t, <2>3 DEF TypeOK
  <2>5. call[c].a.uid < nextUid /\ (call[c].a.op \in {"delete", "observe"} => call[c].a.uid > 0)
    BY <2>3 DEF GoneInv, UidsIssued, Named
  <2>6. q.key.uid < nextUid /\ NamesUid(q.key, q.wire)
    BY <1>k, <2>1, <2>2, <2>5 DEF NamesUid
  <2>7. KeyOf(c)' = KeyOf(c)
    BY <2>1, <2>4 DEF KeyOf, incarnationKey
  <2>8. inbox[c].kind = "none" /\ \A r \in net : r.call # call[c].id
    BY <2>3 DEF CleanInv, OneRequest, InFlight
  <2> QED
    BY <1>g, <1>t, <2>1, <2>3, <2>4, <2>5, <2>6, <2>7, <2>8, LocalStepKeepsGone DEF Returned
<1>7. CASE RetryCancelled(c)
  BY <1>7, <1>a, OutcomeTypes, OutcomeKinds, <1>t, ReturnKeepsGone DEF RetryCancelled
<1>8. CASE TransportError(c)
  BY <1>8, <1>a, OutcomeTypes, OutcomeKinds, <1>t, ReturnKeepsGone DEF TransportError
<1>9. CASE BodyUnreadable(c)
  <2> DEFINE st == IF inbox[c].kind \in SuccessKinds THEN "success" ELSE "none"
             o == [NoOutcome EXCEPT !.kind = "plain", !.status = st]
  <2>1. st \in {"none", "success"}
    OBVIOUS
  <2> HIDE DEF st
  <2>2. o \in Outcome /\ o.kind = "plain"
    BY <2>1, OutcomeTypes, OutcomeKinds
  <2>3. Return(c, o)
    BY <1>9 DEF BodyUnreadable, st
  <2> HIDE DEF o
  <2> QED  BY <1>9, <2>2, <2>3, <1>t, ReturnKeepsGone DEF BodyUnreadable
<1>10. CASE RetryableError(c)
  <2>1. CASE call[c].att < RetryAttempts
    <3> DEFINE s == [call[c] EXCEPT !.pc = "send", !.att = call[c].att + 1]
    <3>1. s.pc = "send" /\ s.id = call[c].id /\ s.a = call[c].a /\ s.digest = call[c].digest
      BY <1>a DEF CallState
    <3>2. call' = [call EXCEPT ![c] = s]
      BY <1>10, <2>1 DEF RetryableError
    <3> HIDE DEF s
    <3> QED  BY <1>10, <1>t, <1>g, <3>1, <3>2, WithinCallKeepsGone DEF RetryableError, TypeOK, Returned
  <2>2. CASE ~(call[c].att < RetryAttempts)
    BY <1>10, <1>a, <1>r, <1>t, <2>2, OutcomeTypes, ReturnKeepsGone DEF RetryableError
  <2> QED  BY <2>1, <2>2
<1>11. CASE Refused(c)
  <2> DEFINE o == RefusalOutcome(call[c].a, inbox[c].code)
  <2>1. o \in Outcome /\ o.kind \in {"notfound", "refused"}
        /\ (o.kind = "notfound" => MapsToNotFound(call[c].a, inbox[c].code))
    <3>1. o \in Outcome
      BY <1>a, OutcomeTypes
    <3>2. o.kind \in {"notfound", "refused"}
      BY <1>a, OutcomeKinds
    <3> QED  BY <1>a, <3>1, <3>2, OutcomeKinds
  <2>2. o.kind = "notfound" => call[c].a.op \in {"delete", "observe"} /\ Dead(call[c].a.uid)
    BY <1>11, <1>g, <2>1 DEF Refused, MapsToNotFound, AnswerTruth
  <2>3. held' = held \/ held' = [held EXCEPT ![c] = NoHeld]
    BY <1>11 DEF Refused
  <2>4. \E h : h = NoHeld /\ h.uid < nextUid
    BY <1>a, <1>h
  <2>5. Return(c, o)
    BY <1>11 DEF Refused
  <2> HIDE DEF o
  <2> QED  BY <1>11, <2>1, <2>2, <2>3, <2>4, <2>5, <1>t, ReturnKeepsGone DEF Refused
<1>12. CASE DirectResult(c)
  <2>1. PICK o \in Outcome :
          /\ Return(c, o)
          /\ o.kind # "notfound"
          /\ o.kind = "ok" => inbox[c].kind \in {"ok", "deleted"}
    BY <1>12, <1>a, <1>b, OutcomeTypes, OutcomeKinds, UnverifiedOutcome DEF DirectResult
  <2>2. o.kind = "ok" /\ call[c].a.op = "delete" => Dead(call[c].a.uid)
    BY <1>g, <2>1 DEF AnswerTruth
  <2> DEFINE h == [uid |-> inbox[c].rep.uid, gen |-> inbox[c].rep.gen]
  <2>3. h.uid < nextUid
    BY <1>g
  <2>4. held' = held \/ held' = [held EXCEPT ![c] = h]
    BY <1>12 DEF DirectResult
  <2> HIDE DEF h
  <2> QED  BY <1>12, <2>1, <2>2, <2>3, <2>4, <1>t, ReturnKeepsGone DEF DirectResult
<1>13. CASE UnverifiableResult(c)
  <2>1. PICK o \in Outcome : Return(c, o) /\ o.kind \notin {"ok", "notfound"}
    BY <1>13, <1>a, UnverifiedOutcome DEF UnverifiableResult
  <2> QED  BY <1>13, <2>1, <1>t, ReturnKeepsGone DEF UnverifiableResult
<1>14. CASE OperationAccepted(c)
  <2> DEFINE s == [call[c] EXCEPT !.pc = "poll", !.op = inbox[c].op]
  <2>1. /\ s.pc = "poll" /\ s.id = call[c].id /\ s.a = call[c].a /\ s.digest = call[c].digest
        /\ s.op = inbox[c].op
    BY <1>a DEF CallState
  <2>2. call' = [call EXCEPT ![c] = s]
    BY <1>14 DEF OperationAccepted
  <2> HIDE DEF s
  <2> QED  BY <1>14, <1>t, <1>g, <2>1, <2>2, WithinCallKeepsGone DEF OperationAccepted, TypeOK, Returned
<1>15. CASE PollDone(c)
  <2> DEFINE rep == ops[call[c].op].rep
             o == [NoOutcome EXCEPT !.kind = "ok", !.rep = rep, !.op = call[c].op,
                                    !.status = "success"]
             h == [uid |-> rep.uid, gen |-> rep.gen]
  <2>1. call[c].op \in 1..MaxCalls /\ call[c].pc = "poll" /\ ops[call[c].op].st = "done"
    BY <1>15 DEF PollDone, TypeInv
  <2>2. rep \in Rep /\ rep.uid < nextUid
    BY <1>t, <2>1 DEF TypeOK, Operation, GoneInv, UidsIssued
  <2>3. o \in Outcome /\ o.kind = "ok" /\ h.uid < nextUid
    <3>1. o \in Outcome
      BY <1>a, <2>2, OutcomeTypes
    <3>2. o.kind = "ok"
      BY <1>a, <2>2, OutcomeKinds
    <3> QED  BY <2>2, <3>1, <3>2
  <2>4. call[c].a.op = "delete" => Dead(call[c].a.uid)
    BY <1>g, <1>k, <2>1 DEF AcceptedUnder, GoneInv, OperationTruth
  <2>5. Return(c, o) /\ held' = [held EXCEPT ![c] = h]
    BY <1>15 DEF PollDone
  <2> HIDE DEF o, h
  <2> QED  BY <1>15, <2>1, <2>3, <2>4, <2>5, <1>t, ReturnKeepsGone DEF PollDone
<1>16. CASE PollEnds(c)
  <2>1. PICK o \in Outcome :
          /\ Return(c, o) /\ o.kind # "ok"
          /\ o.kind = "notfound" => MapsToNotFound(call[c].a, o.code)
          /\ \/ ops[call[c].op].st = "failed" /\ o.code = ops[call[c].op].code
             \/ o.code \in {"unavailable", "operation_not_found", "none"}
    BY <1>16, PollEndsOutcome
  <2>2. /\ call[c].pc = "poll" /\ UNCHANGED <<hostVars, net, inbox, nextCall>>
        /\ held' = held \/ held' = [held EXCEPT ![c] = NoHeld]
    BY <1>16, PollEndsOutcome
  <2>3. call[c].op \in 1..MaxCalls
    BY <2>2 DEF TypeInv
  <2>4. AcceptedUnder(call[c].op, KeyOf(c))
    BY <1>g, <2>2
  <2>5. call[c].a.op # "observe"
    BY <1>k, <2>3, <2>4 DEF AcceptedUnder, GoneInv, Named, NamesUid, TypeInv
  <2>6. call[c].a.op = "delete" /\ ops[call[c].op].st = "failed"
          /\ ops[call[c].op].code = "resource_not_found" => Dead(call[c].a.uid)
    BY <1>k, <2>3, <2>4 DEF AcceptedUnder, GoneInv, OperationTruth
  <2>7. o.kind = "notfound" => call[c].a.op \in {"delete", "observe"} /\ Dead(call[c].a.uid)
    BY <2>1, <2>5, <2>6 DEF MapsToNotFound
  <2>8. \E h : h = NoHeld /\ h.uid < nextUid
    BY <1>a, <1>h
  <2> QED  BY <2>1, <2>2, <2>7, <2>8, <1>t, ReturnKeepsGone
<1> QED
  BY <1>1, <1>2, <1>3, <1>4, <1>5, <1>6, <1>7, <1>8, <1>9, <1>10, <1>11, <1>12, <1>13,
     <1>14, <1>15, <1>16 DEF ClientStep, PollEnds

\* How the name moves: uids are issued upwards and a dead incarnation stays dead.
NameMoves == nextUid <= nextUid' /\ live'.uid < nextUid' /\ live'.uid \in {live.uid, 0, nextUid}

\* A dead incarnation stays dead while the name moves on.
LEMMA DeadStays ==
  ASSUME TypeOK, NameMoves, nextUid' \in Nat, NEW u \in Uid, Dead(u)
  PROVE  Dead(u)'
<1>1. u \in Nat /\ nextUid \in Nat
  BY BoundsAssumption DEF TypeOK, Uid
<1> QED  BY <1>1 DEF Dead, NameMoves

\* A mutation moves the name, and leaves only its own incarnation dead.
LEMMA PerformMovesName ==
  ASSUME TypeOK, live.uid < nextUid, NEW w \in Wire, w.op # "observe", RoomFor(w),
         NEW id, NEW k, Perform(id, k, w)
  PROVE  /\ NameMoves
         /\ w.op = "delete" => live'.uid = 0
         /\ w.op # "delete" => Written(w).uid < nextUid'
<1>1. nextUid \in Nat /\ nextUid > 0 /\ live.uid \in Nat /\ live \in Rep
  BY BoundsAssumption DEF TypeOK, Rep, Uid
<1>2. CASE w.op = "delete"
  BY <1>1, <1>2 DEF Perform, EffectKind, NoRep, NameMoves
<1>3. CASE w.op # "delete" /\ w.gen = 0
  <2>1. Written(w).uid = nextUid /\ nextUid' = nextUid + 1 /\ live' = Written(w)
    BY <1>3 DEF Perform, EffectKind, Written
  <2> QED  BY <1>1, <1>3, <2>1 DEF NameMoves
<1>4. CASE w.op # "delete" /\ w.gen # 0
  <2>1. Written(w).uid = live.uid
    BY <1>1, <1>4 DEF Written, Rep
  <2>2. nextUid' = nextUid /\ live' = Written(w)
    BY <1>4 DEF Perform, EffectKind
  <2> QED  BY <1>1, <1>4, <2>1, <2>2 DEF NameMoves
<1> QED  BY <1>2, <1>3, <1>4

\* What a dead incarnation was told to be stays true as the name moves on.
LEMMA TruthStays ==
  ASSUME TypeOK, NameMoves, nextUid' \in Nat, NEW ans, NEW op, NEW u \in Uid,
         AnswerTruth(ans, op, u)
  PROVE  AnswerTruth(ans, op, u)'
  BY DeadStays DEF AnswerTruth

\* A step of the Host, given that what it adds is true.
LEMMA HostStepKeepsGone ==
  ASSUME TypeInv, TypeInv', GoneInv, NameMoves,
         UNCHANGED <<call, held>>,
         net' \subseteq net,
         \A id \in 1..MaxCalls : \A k : AcceptedUnder(id, k) => AcceptedUnder(id, k)',
         \A id \in 1..MaxCalls :
           /\ ops'[id].key.uid < nextUid' /\ ops'[id].rep.uid < nextUid'
           /\ ops'[id].st # "none" => NamesUid(ops'[id].key, ops'[id].wire),
         OperationTruth',
         \A rec \in records' : rec \in records \/
           (/\ rec.key.uid < nextUid' /\ rec.ans.rep.uid < nextUid'
            /\ AnswerTruth(rec.ans, rec.key.op, rec.key.uid)'
            /\ rec.ans.kind = "accepted" => AcceptedUnder(rec.ans.op, rec.key)'),
         \A c \in Clients : inbox'[c] = inbox[c] \/
           (/\ inbox'[c].rep.uid < nextUid'
            /\ AnswerTruth(inbox[c], call[c].a.op, call[c].a.uid)'
            /\ inbox'[c].kind = "accepted" => AcceptedUnder(inbox[c].op, KeyOf(c))')
  PROVE  GoneInv'
<1>t. TypeOK
  BY DEF TypeInv
<1>n. /\ nextUid \in Nat /\ nextUid' \in Nat /\ nextUid <= nextUid'
      /\ \A u \in Uid : u \in Nat /\ (u < nextUid => u < nextUid')
  <2>1. nextUid \in 1..(MaxUid + 1) /\ nextUid' \in 1..(MaxUid + 1)
    BY DEF TypeInv, TypeOK
  <2>2. \A u \in Uid : u \in Nat
    BY BoundsAssumption DEF Uid
  <2> QED  BY <2>1, <2>2, BoundsAssumption DEF NameMoves
<1>u. /\ \A c \in Clients : call[c].a.uid \in Uid /\ held[c].uid \in Uid /\ inbox[c].rep.uid \in Uid
      /\ \A r \in net : r.key.uid \in Uid
      /\ \A rec \in records : rec.key.uid \in Uid /\ rec.ans.rep.uid \in Uid
  <2>1. \A c \in Clients : call[c].a.uid \in Uid /\ held[c].uid \in Uid
    BY <1>t DEF TypeOK, CallState, Args
  <2>2. \A c \in Clients : inbox[c].rep.uid \in Uid
    BY <1>t DEF TypeOK, Answer, Rep
  <2>3. \A r \in net : r.key.uid \in Uid
    BY <1>t DEF TypeOK, Request, Key
  <2>4. \A rec \in records : rec.key.uid \in Uid /\ rec.ans.rep.uid \in Uid
    BY <1>t DEF TypeOK, Key, Answer, Rep
  <2> QED  BY <2>1, <2>2, <2>3, <2>4
<1>1. UidsIssued'
  BY <1>n, <1>u DEF GoneInv, UidsIssued, NameMoves
<1>2. Named'
  BY DEF GoneInv, Named
<1>3. \A c \in Clients : KeyOf(c)' = KeyOf(c)
  BY DEF KeyOf, incarnationKey
<1>4. OwnKey'
  BY <1>3, <1>t DEF GoneInv, OwnKey, TypeOK, Request
<1>5. RecordTruth'
  <2>1. ASSUME NEW rec \in records'
        PROVE  /\ AnswerTruth(rec.ans, rec.key.op, rec.key.uid)'
               /\ rec.ans.kind = "accepted" => AcceptedUnder(rec.ans.op, rec.key)'
    <3>1. CASE rec \in records
      <4>1. /\ AnswerTruth(rec.ans, rec.key.op, rec.key.uid)
            /\ rec.ans.kind = "accepted" =>
                 AcceptedUnder(rec.ans.op, rec.key) /\ rec.ans.op \in 1..MaxCalls
        BY <3>1 DEF GoneInv, RecordTruth, TypeInv
      <4> QED  BY <1>t, <1>n, <1>u, <3>1, <4>1, TruthStays
    <3> QED  BY <3>1
  <2> QED  BY <2>1 DEF RecordTruth
<1>6. ASSUME NEW c \in Clients
      PROVE  /\ AnswerTruth(inbox[c], call[c].a.op, call[c].a.uid)'
             /\ inbox'[c].kind = "accepted" => AcceptedUnder(inbox[c].op, KeyOf(c))'
             /\ call[c].pc = "poll" => AcceptedUnder(call[c].op, KeyOf(c))'
             /\ Returned(c, "notfound")' => call[c].a.op \in {"delete", "observe"}
             /\ Returned(c, "ok")' /\ call[c].a.op = "delete" => Dead(call[c].a.uid)'
             /\ Returned(c, "notfound")' => Dead(call[c].a.uid)'
  <2>1. /\ AnswerTruth(inbox[c], call[c].a.op, call[c].a.uid)
        /\ inbox[c].kind = "accepted" =>
             AcceptedUnder(inbox[c].op, KeyOf(c)) /\ inbox[c].op \in 1..MaxCalls
        /\ call[c].pc = "poll" => AcceptedUnder(call[c].op, KeyOf(c)) /\ call[c].op \in 1..MaxCalls
        /\ Returned(c, "notfound") => call[c].a.op \in {"delete", "observe"}
        /\ Returned(c, "ok") /\ call[c].a.op = "delete" => Dead(call[c].a.uid)
        /\ Returned(c, "notfound") => Dead(call[c].a.uid)
    BY DEF GoneInv, ClientTruth, DeleteSuccessMeansGone, NotFoundMeansGone, TypeInv
  <2>2. Dead(call[c].a.uid) => Dead(call[c].a.uid)'
    BY <1>t, <1>n, <1>u, DeadStays
  <2>3. AnswerTruth(inbox[c], call[c].a.op, call[c].a.uid)'
    <3>1. CASE inbox'[c] = inbox[c]
      BY <2>1, <2>2, <3>1 DEF AnswerTruth
    <3> QED  BY <3>1
  <2>4. inbox'[c].kind = "accepted" => AcceptedUnder(inbox[c].op, KeyOf(c))'
    <3>1. CASE inbox'[c] = inbox[c]
      BY <1>3, <2>1, <3>1
    <3> QED  BY <3>1
  <2> QED  BY <1>3, <2>1, <2>2, <2>3, <2>4 DEF Returned
<1> QED
  BY <1>1, <1>2, <1>4, <1>5, <1>6
     DEF GoneInv, ClientTruth, DeleteSuccessMeansGone, NotFoundMeansGone

\* The Host answers request r: the caller that hears it is in the very call
\* whose key r carries, so what is true of the key is true of the call.
LEMMA AnswerKeepsGone ==
  ASSUME TypeInv, TypeInv', GoneInv, NameMoves,
         NEW r \in net, NEW ans \in Answer, Deliver(r, ans),
         net' = net \ {r}, UNCHANGED <<call, held>>,
         records' = records \/ Record(r, ans),
         \A id \in 1..MaxCalls : \A k : AcceptedUnder(id, k) => AcceptedUnder(id, k)',
         \A id \in 1..MaxCalls :
           /\ ops'[id].key.uid < nextUid' /\ ops'[id].rep.uid < nextUid'
           /\ ops'[id].st # "none" => NamesUid(ops'[id].key, ops'[id].wire),
         OperationTruth',
         ans.rep.uid < nextUid',
         AnswerTruth(ans, r.key.op, r.key.uid)',
         ans.kind = "accepted" => AcceptedUnder(ans.op, r.key)'
  PROVE  GoneInv'
<1>t. TypeOK
  BY DEF TypeInv
<1>1. r.key.uid < nextUid'
  <2>1. r.key.uid < nextUid /\ r.key.uid \in Uid
    BY <1>t DEF GoneInv, UidsIssued, TypeOK, Request, Key
  <2>2. nextUid \in 1..(MaxUid + 1) /\ nextUid' \in 1..(MaxUid + 1) /\ nextUid <= nextUid'
    BY DEF TypeInv, TypeOK, NameMoves
  <2> QED  BY <2>1, <2>2, BoundsAssumption DEF Uid
<1>2. \A rec \in records' : rec \in records \/
       (/\ rec.key.uid < nextUid' /\ rec.ans.rep.uid < nextUid'
        /\ AnswerTruth(rec.ans, rec.key.op, rec.key.uid)'
        /\ rec.ans.kind = "accepted" => AcceptedUnder(rec.ans.op, rec.key)')
  <2>1. \A rec \in records' : rec \in records \/ (rec.key = r.key /\ rec.ans = ans)
    BY DEF Record
  <2> QED  BY <1>1, <2>1
<1>3. \A c \in Clients : inbox'[c] = inbox[c] \/
       (/\ inbox'[c].rep.uid < nextUid'
        /\ AnswerTruth(inbox[c], call[c].a.op, call[c].a.uid)'
        /\ inbox'[c].kind = "accepted" => AcceptedUnder(inbox[c].op, KeyOf(c))')
  <2>1. ASSUME NEW c \in Clients, inbox'[c] # inbox[c]
        PROVE  /\ inbox'[c].rep.uid < nextUid'
               /\ AnswerTruth(inbox[c], call[c].a.op, call[c].a.uid)'
               /\ inbox'[c].kind = "accepted" => AcceptedUnder(inbox[c].op, KeyOf(c))'
    <3>1. c = r.client /\ inbox'[c] = ans /\ call[c].id = r.call
      BY <1>t, <2>1, DeliverFrame
    <3>2. r.key = KeyOf(c)
      BY <3>1 DEF GoneInv, OwnKey
    <3>3. KeyOf(c)' = KeyOf(c) /\ r.key.op = call[c].a.op /\ r.key.uid = call[c].a.uid
      BY <3>2 DEF KeyOf, incarnationKey
    <3> QED  BY <3>1, <3>2, <3>3
  <2> QED  BY <2>1
<1> QED  BY <1>2, <1>3, HostStepKeepsGone

\* A refused fence that says resource_not_found is right about the named uid.
LEMMA RefusalTruth ==
  ASSUME TypeOK, UidsIssued, NEW r \in net, NamesUid(r.key, r.wire),
         RefusalCode(r.wire) = "resource_not_found",
         r.key.op \in {"delete", "observe"}
  PROVE  Dead(r.key.uid)
<1>1. live.uid = 0
  BY DEF RefusalCode
<1>2. r.key.uid > 0 /\ r.key.uid < nextUid
  BY DEF NamesUid, UidsIssued
<1> QED  BY <1>1, <1>2 DEF Dead

\* What is true of the Operations stays true while none of them moves.
LEMMA OperationsStill ==
  ASSUME TypeInv, TypeInv', GoneInv, NameMoves, NEW I \in SUBSET (1..MaxCalls),
         \A id \in I : ops'[id] = ops[id]
  PROVE  \A id \in I :
           /\ \A k : AcceptedUnder(id, k) => AcceptedUnder(id, k)'
           /\ ops'[id].key.uid < nextUid' /\ ops'[id].rep.uid < nextUid'
           /\ ops'[id].st # "none" => NamesUid(ops'[id].key, ops'[id].wire)
           /\ ops'[id].key.op = "delete" /\ ops'[id].st = "done" => Dead(ops[id].key.uid)'
           /\ ops'[id].key.op = "delete" /\ ops'[id].st = "failed"
                /\ ops'[id].code = "resource_not_found" => Dead(ops[id].key.uid)'
<1> SUFFICES ASSUME NEW id \in I
             PROVE  /\ \A k : AcceptedUnder(id, k) => AcceptedUnder(id, k)'
                    /\ ops'[id].key.uid < nextUid' /\ ops'[id].rep.uid < nextUid'
                    /\ ops'[id].st # "none" => NamesUid(ops'[id].key, ops'[id].wire)
                    /\ ops'[id].key.op = "delete" /\ ops'[id].st = "done"
                         => Dead(ops[id].key.uid)'
                    /\ ops'[id].key.op = "delete" /\ ops'[id].st = "failed"
                         /\ ops'[id].code = "resource_not_found" => Dead(ops[id].key.uid)'
  OBVIOUS
<1>1. /\ ops[id].key.uid \in Uid /\ ops[id].rep.uid \in Uid
      /\ nextUid \in 1..(MaxUid + 1) /\ nextUid' \in 1..(MaxUid + 1) /\ nextUid <= nextUid'
  BY DEF TypeInv, TypeOK, Operation, Key, Rep, NameMoves
<1>2. ops[id].key.uid < nextUid' /\ ops[id].rep.uid < nextUid' /\ nextUid' \in Nat
  BY <1>1, BoundsAssumption DEF GoneInv, UidsIssued, Uid
<1>3. Dead(ops[id].key.uid) => Dead(ops[id].key.uid)'
  <2>1. \A u \in Uid : Dead(u) => Dead(u)'
    BY <1>2, DeadStays DEF TypeInv
  <2> QED  BY <1>1, <2>1 DEF Dead
<1> QED  BY <1>2, <1>3 DEF AcceptedUnder, GoneInv, Named, OperationTruth

\* GoneInv, one Host action at a time: what the Host says is true when it says it.
LEMMA HostKeepsGone ==
  ASSUME TypeInv, CleanInv, GoneInv, HostStep
  PROVE  GoneInv'
<1>t. TypeOK /\ TypeInv'
  BY HostKeepsType DEF TypeInv
<1>a. /\ live \in Rep /\ live.uid < nextUid /\ nextUid \in Nat \ {0} /\ nextUid' \in Nat
      /\ ops \in [1..MaxCalls -> Operation]
  <2>1. nextUid \in 1..(MaxUid + 1) /\ nextUid' \in 1..(MaxUid + 1)
    BY <1>t DEF TypeInv, TypeOK
  <2> QED  BY <1>t, <2>1, BoundsAssumption DEF TypeOK, GoneInv, UidsIssued
<1>b. /\ "key_reused" \in Code /\ "conflict" \in Code
      /\ \A w \in Wire : RefusalCode(w) \in Code
  BY DEF Code, RefusalCode
<1>k. /\ NoRep.uid = 0
      /\ RetryAnswer.kind = "retry" /\ RetryAnswer.rep.uid = 0
      /\ DeletedAnswer.kind = "deleted" /\ DeletedAnswer.rep.uid = 0
      /\ \A rep \in Rep : OkAnswer(rep).kind = "ok" /\ OkAnswer(rep).rep = rep
      /\ \A id \in 1..MaxCalls : /\ AcceptedAnswer(id).kind = "accepted"
                                /\ AcceptedAnswer(id).op = id /\ AcceptedAnswer(id).rep.uid = 0
      /\ \A code \in Code : /\ ErrorAnswer(code).kind = "error"
                            /\ ErrorAnswer(code).code = code /\ ErrorAnswer(code).rep.uid = 0
  BY DEF RetryAnswer, DeletedAnswer, OkAnswer, AcceptedAnswer, ErrorAnswer, NoAnswer, NoRep
<1>s. UNCHANGED <<live, nextUid>> => NameMoves
  BY <1>a DEF NameMoves
<1>o. NameMoves /\ ops' = ops =>
        /\ \A id \in 1..MaxCalls : \A k : AcceptedUnder(id, k) => AcceptedUnder(id, k)'
        /\ \A id \in 1..MaxCalls :
             /\ ops'[id].key.uid < nextUid' /\ ops'[id].rep.uid < nextUid'
             /\ ops'[id].st # "none" => NamesUid(ops'[id].key, ops'[id].wire)
        /\ OperationTruth'
  BY <1>t, OperationsStill DEF OperationTruth
<1>1. ASSUME NEW r \in net, HostReplay(r)  PROVE GoneInv'
  <2>1. PICK rec \in Replayable(r) :
          Deliver(r, IF rec.wire = r.wire THEN rec.ans ELSE ErrorAnswer("key_reused"))
    BY <1>1 DEF HostReplay
  <2> DEFINE ans == IF rec.wire = r.wire THEN rec.ans ELSE ErrorAnswer("key_reused")
  <2>2. rec \in records /\ rec.key = r.key /\ rec.ans \in Answer
    BY <1>t DEF Replayable, TypeOK
  <2>3. UNCHANGED hostVars /\ NameMoves
    BY <1>1, <1>s DEF HostReplay, hostVars
  <2>4. ans \in Answer
    BY <1>b, <2>2, AnswerTypes
  <2>5. ans.rep.uid < nextUid'
    BY <1>a, <1>b, <1>k, <2>2, <2>3 DEF GoneInv, UidsIssued, hostVars
  <2>6. AnswerTruth(ans, r.key.op, r.key.uid)
    BY <1>b, <1>k, <2>2 DEF GoneInv, RecordTruth, AnswerTruth
  <2>7. AnswerTruth(ans, r.key.op, r.key.uid)'
    BY <2>3, <2>6 DEF AnswerTruth, Dead, hostVars
  <2>8. ans.kind = "accepted" => AcceptedUnder(ans.op, r.key)'
    BY <1>b, <1>k, <2>2, <2>3 DEF GoneInv, RecordTruth, AcceptedUnder, hostVars
  <2>9. Deliver(r, ans)
    BY <2>1
  <2> HIDE DEF ans
  <2> QED
    BY <1>1, <1>t, <1>o, <2>3, <2>4, <2>5, <2>7, <2>8, <2>9, AnswerKeepsGone
       DEF HostReplay, hostVars
<1>2. ASSUME NEW r \in net, HostBusy(r)  PROVE GoneInv'
  <2>1. UNCHANGED <<records, ops, call, held>> /\ NameMoves /\ nextUid' = nextUid
        /\ net' = net \ {r} /\ Deliver(r, RetryAnswer)
    BY <1>2, <1>s DEF HostBusy, hostVars
  <2>2. AnswerTruth(RetryAnswer, r.key.op, r.key.uid)'
    BY <1>k DEF AnswerTruth
  <2> QED  BY <1>t, <1>a, <1>k, <1>o, <2>1, <2>2, ConstantTypes, AnswerKeepsGone
<1>3. ASSUME NEW r \in net, HostRefuse(r)  PROVE GoneInv'
  <2>1. /\ UNCHANGED <<live, nextUid, records, ops, call, held>> /\ NameMoves
        /\ net' = net \ {r} /\ Deliver(r, ErrorAnswer(RefusalCode(r.wire)))
    BY <1>3, <1>s DEF HostRefuse, hostVars
  <2>2. RefusalCode(r.wire) \in Code
    BY <1>t, <1>b, RequestTypes
  <2>3. PICK ans \in Answer : /\ Deliver(r, ans) /\ ans.kind = "error"
                              /\ ans.code = RefusalCode(r.wire) /\ ans.rep.uid = 0
    BY <1>k, <2>1, <2>2, AnswerTypes
  <2>4. AnswerTruth(ans, r.key.op, r.key.uid)
    BY <1>t, <2>3, RefusalTruth DEF AnswerTruth, GoneInv, Named
  <2>5. AnswerTruth(ans, r.key.op, r.key.uid)'
    BY <2>1, <2>4 DEF AnswerTruth, Dead
  <2> QED  BY <1>t, <1>a, <1>o, <2>1, <2>3, <2>5, AnswerKeepsGone
<1>4. ASSUME NEW r \in net, HostPerform(r)  PROVE GoneInv'
  <2>1. /\ r.wire \in Wire /\ r.wire.op # "observe" /\ RoomFor(r.wire)
        /\ Perform(r.call, r.key, r.wire) /\ UNCHANGED <<ops, call, held>> /\ net' = net \ {r}
    BY <1>4, <1>t, RequestTypes DEF HostPerform
  <2>2. /\ NameMoves
        /\ r.wire.op = "delete" => live'.uid = 0
        /\ r.wire.op # "delete" => Written(r.wire).uid < nextUid'
    BY <1>t, <1>a, <2>1, PerformMovesName
  <2>3. r.wire.op # "delete" => Written(r.wire) \in Rep
    BY <1>t, <2>1, WrittenType
  <2>4. PICK ans \in Answer :
          /\ Record(r, ans) /\ Deliver(r, ans) /\ ans.rep.uid < nextUid'
          /\ ans.kind = (IF r.wire.op = "delete" THEN "deleted" ELSE "ok")
    <3>1. CASE r.wire.op = "delete"
      <4>1. nextUid' > 0
        BY <1>a, <2>2 DEF NameMoves
      <4>2. Record(r, DeletedAnswer) /\ Deliver(r, DeletedAnswer)
        BY <1>4, <3>1 DEF HostPerform
      <4> QED  BY <1>a, <1>k, <3>1, <4>1, <4>2, ConstantTypes
    <3>2. CASE r.wire.op # "delete"
      <4>1. Record(r, OkAnswer(Written(r.wire))) /\ Deliver(r, OkAnswer(Written(r.wire)))
        BY <1>4, <3>2 DEF HostPerform
      <4> QED  BY <1>k, <2>2, <2>3, <3>2, <4>1, AnswerTypes
    <3> QED  BY <3>1, <3>2
  <2>6. AnswerTruth(ans, r.key.op, r.key.uid)'
    <3>1. r.key.op = r.wire.op /\ (r.key.op = "delete" => r.key.uid > 0) /\ r.key.uid < nextUid
      BY DEF GoneInv, Named, NamesUid, UidsIssued
    <3>2. r.key.uid \in Nat /\ (r.key.uid < nextUid => r.key.uid < nextUid')
      BY <1>t, <1>a, <2>2, RequestTypes, BoundsAssumption DEF Key, Uid, NameMoves
    <3> QED  BY <2>2, <2>4, <3>1, <3>2 DEF AnswerTruth, Dead
  <2> QED  BY <1>t, <1>o, <2>1, <2>2, <2>4, <2>6, AnswerKeepsGone
<1>5. ASSUME NEW r \in net, HostObserve(r)  PROVE GoneInv'
  <2>1. /\ r.wire.op = "observe" /\ UNCHANGED <<live, nextUid, ops, call, held>> /\ NameMoves
        /\ net' = net \ {r} /\ Record(r, OkAnswer(live)) /\ Deliver(r, OkAnswer(live))
    BY <1>5, <1>s DEF HostObserve
  <2>2. r.key.op = "observe"
    BY <2>1 DEF GoneInv, Named, NamesUid
  <2>3. OkAnswer(live) \in Answer /\ OkAnswer(live).rep.uid < nextUid' /\ OkAnswer(live).kind = "ok"
    BY <1>a, <1>k, <2>1, AnswerTypes
  <2>4. AnswerTruth(OkAnswer(live), r.key.op, r.key.uid)'
    BY <2>1, <2>2, <2>3 DEF AnswerTruth
  <2> QED  BY <1>t, <1>o, <2>1, <2>3, <2>4, AnswerKeepsGone
<1>6. ASSUME NEW r \in net, HostAccept(r)  PROVE GoneInv'
  <2> DEFINE o == [st |-> "pending", wire |-> r.wire, key |-> r.key, bound |-> live.uid,
                   rep |-> NoRep, code |-> "none"]
  <2>1. /\ UNCHANGED <<live, nextUid, call, held>> /\ NameMoves /\ net' = net \ {r}
        /\ ops' = [ops EXCEPT ![r.call] = o] /\ r.call \in 1..MaxCalls
        /\ Record(r, AcceptedAnswer(r.call)) /\ Deliver(r, AcceptedAnswer(r.call))
    BY <1>6, <1>s DEF HostAccept, TypeInv
  <2>2. /\ o.st = "pending" /\ o.key = r.key /\ o.wire = r.wire /\ o.rep.uid = 0
        /\ NamesUid(r.key, r.wire) /\ r.key.uid < nextUid
    BY <1>k DEF GoneInv, Named, UidsIssued
  <2>3. ops'[r.call].st = "pending" /\ ops'[r.call].key = r.key /\ ops'[r.call].wire = r.wire
        /\ ops'[r.call].rep.uid = 0
    BY <1>a, <2>1, <2>2
  <2>4. \A id \in (1..MaxCalls) \ {r.call} : ops'[id] = ops[id]
    BY <1>a, <2>1
  <2> HIDE DEF o
  <2>5. ops[r.call].st = "none"
    BY DEF CleanInv, OneRequest, Clean
  <2>6. \A id \in 1..MaxCalls : \A k : AcceptedUnder(id, k) => AcceptedUnder(id, k)'
    BY <2>4, <2>5 DEF AcceptedUnder
  <2>7. \A id \in 1..MaxCalls :
          /\ ops'[id].key.uid < nextUid' /\ ops'[id].rep.uid < nextUid'
          /\ ops'[id].st # "none" => NamesUid(ops'[id].key, ops'[id].wire)
    <3>1. /\ ops'[r.call].key.uid < nextUid' /\ ops'[r.call].rep.uid < nextUid'
          /\ NamesUid(ops'[r.call].key, ops'[r.call].wire)
      BY <1>a, <2>1, <2>2, <2>3
    <3>2. (1..MaxCalls) \ {r.call} \in SUBSET (1..MaxCalls)
      OBVIOUS
    <3>3. \A id \in (1..MaxCalls) \ {r.call} :
            /\ ops'[id].key.uid < nextUid' /\ ops'[id].rep.uid < nextUid'
            /\ ops'[id].st # "none" => NamesUid(ops'[id].key, ops'[id].wire)
      BY <1>t, <2>1, <2>4, <3>2, OperationsStill
    <3> QED  BY <3>1, <3>3
  <2>8. OperationTruth'
    <3>1. (1..MaxCalls) \ {r.call} \in SUBSET (1..MaxCalls)
      OBVIOUS
    <3>2. \A id \in (1..MaxCalls) \ {r.call} :
            /\ ops'[id].key.op = "delete" /\ ops'[id].st = "done" => Dead(ops[id].key.uid)'
            /\ ops'[id].key.op = "delete" /\ ops'[id].st = "failed"
                 /\ ops'[id].code = "resource_not_found" => Dead(ops[id].key.uid)'
      BY <1>t, <2>1, <2>4, <3>1, OperationsStill
    <3>3. ops'[r.call].st = "pending"
      BY <2>3
    <3> QED  BY <3>2, <3>3 DEF OperationTruth
  <2>9. AcceptedUnder(r.call, r.key)'
    BY <2>3 DEF AcceptedUnder
  <2>10. /\ AcceptedAnswer(r.call) \in Answer /\ AcceptedAnswer(r.call).kind = "accepted"
         /\ AcceptedAnswer(r.call).op = r.call /\ AcceptedAnswer(r.call).rep.uid < nextUid'
    BY <1>a, <1>k, <2>1, AnswerTypes
  <2>11. AnswerTruth(AcceptedAnswer(r.call), r.key.op, r.key.uid)'
    BY <2>10 DEF AnswerTruth
  <2> QED
    BY <1>t, <2>1, <2>6, <2>7, <2>8, <2>9, <2>10, <2>11, AnswerKeepsGone
<1>op. ASSUME NEW id \in 1..MaxCalls, ops[id].st # "none", NameMoves,
              UNCHANGED <<records, net, inbox, call, held>>,
              \A i \in (1..MaxCalls) \ {id} : ops'[i] = ops[i],
              ops'[id].st # "none", ops'[id].key = ops[id].key, ops'[id].wire = ops[id].wire,
              ops'[id].rep.uid < nextUid',
              ops'[id].key.op = "delete" /\
                (ops'[id].st = "done" \/
                 (ops'[id].st = "failed" /\ ops'[id].code = "resource_not_found"))
                => Dead(ops[id].key.uid)'
       PROVE  GoneInv'
  <2>1. ops[id].key.uid < nextUid'
    <3>1. ops[id].key.uid < nextUid /\ ops[id].key.uid \in Uid
      BY <1>a DEF GoneInv, UidsIssued, Operation, Key
    <3> QED  BY <1>a, <1>op, <3>1, BoundsAssumption DEF Uid, NameMoves
  <2>2. NamesUid(ops'[id].key, ops'[id].wire)
    BY <1>op DEF GoneInv, Named
  <2>3. \A i \in 1..MaxCalls : \A k : AcceptedUnder(i, k) => AcceptedUnder(i, k)'
    BY <1>op DEF AcceptedUnder
  <2>4. \A i \in 1..MaxCalls :
          /\ ops'[i].key.uid < nextUid' /\ ops'[i].rep.uid < nextUid'
          /\ ops'[i].st # "none" => NamesUid(ops'[i].key, ops'[i].wire)
    BY <1>t, <1>op, <2>1, <2>2, OperationsStill
  <2>5. OperationTruth'
    <3>1. ASSUME NEW i \in 1..MaxCalls
          PROVE  /\ ops'[i].key.op = "delete" /\ ops'[i].st = "done" => Dead(ops[i].key.uid)'
                 /\ ops'[i].key.op = "delete" /\ ops'[i].st = "failed"
                      /\ ops'[i].code = "resource_not_found" => Dead(ops[i].key.uid)'
      <4>1. CASE i = id
        BY <1>op, <4>1 DEF Dead
      <4>2. CASE i # id
        BY <1>t, <1>op, <4>2, OperationsStill
      <4> QED  BY <4>1, <4>2
    <3> QED  BY <3>1 DEF OperationTruth
  <2> QED  BY <1>t, <1>op, <2>3, <2>4, <2>5, HostStepKeepsGone
<1>7. ASSUME NEW id \in 1..MaxCalls, HostCommit(id)  PROVE GoneInv'
  <2> DEFINE o == ops[id]
  <2>1. /\ o \in Operation /\ o.st = "pending" /\ o.wire \in Wire /\ o.wire.op # "observe"
        /\ o.key.uid \in Nat /\ o.rep.uid < nextUid /\ o.key.uid < nextUid
        /\ NamesUid(o.key, o.wire)
    BY <1>7, <1>a, BoundsAssumption
       DEF HostCommit, Operation, Key, Uid, TypeInv, GoneInv, UidsIssued, Named
  <2>2. CASE live.uid = o.bound /\ FenceHolds(o.wire)
    <3> DEFINE rep == IF o.wire.op = "delete" THEN NoRep ELSE Written(o.wire)
               n == [o EXCEPT !.st = "done", !.rep = rep]
    <3>1. /\ RoomFor(o.wire) /\ Perform(id, o.key, o.wire) /\ ops' = [ops EXCEPT ![id] = n]
          /\ UNCHANGED <<records, net, inbox, call, held>>
      BY <1>7, <2>2 DEF HostCommit
    <3>2. /\ NameMoves
          /\ o.wire.op = "delete" => live'.uid = 0
          /\ o.wire.op # "delete" => Written(o.wire).uid < nextUid'
      BY <1>t, <1>a, <2>1, <3>1, PerformMovesName
    <3>3. nextUid <= nextUid'
      BY <3>2 DEF NameMoves
    <3>4. rep.uid < nextUid'
      BY <1>a, <1>k, <3>2, <3>3
    <3> HIDE DEF rep
    <3>5. n.st = "done" /\ n.key = o.key /\ n.wire = o.wire /\ n.rep = rep
      BY <2>1 DEF Operation
    <3> HIDE DEF n
    <3>6. ops'[id] = n /\ \A i \in (1..MaxCalls) \ {id} : ops'[i] = ops[i]
      BY <1>a, <3>1
    <3>7. o.key.op = "delete" => Dead(ops[id].key.uid)'
      <4>1. o.key.op = "delete" => live'.uid = 0 /\ o.key.uid > 0 /\ o.key.uid < nextUid'
        BY <1>a, <2>1, <3>2, <3>3 DEF NamesUid
      <4>2. ops'[id].key.uid = o.key.uid
        BY <3>5, <3>6
      <4> QED  BY <4>1, <4>2 DEF Dead
    <3> QED  BY <1>op, <2>1, <3>1, <3>2, <3>4, <3>5, <3>6, <3>7
  <2>3. CASE ~(live.uid = o.bound /\ FenceHolds(o.wire))
    <3> DEFINE n == [o EXCEPT !.st = "failed", !.code = RefusalCode(o.wire)]
    <3>1. /\ ops' = [ops EXCEPT ![id] = n] /\ UNCHANGED <<live, nextUid>>
          /\ UNCHANGED <<records, net, inbox, call, held>>
      BY <1>7, <2>3 DEF HostCommit
    <3>2. /\ n.st = "failed" /\ n.key = o.key /\ n.wire = o.wire /\ n.rep = o.rep
          /\ n.code = RefusalCode(o.wire)
      BY <2>1 DEF Operation
    <3> HIDE DEF n
    <3>3. ops'[id] = n /\ \A i \in (1..MaxCalls) \ {id} : ops'[i] = ops[i]
      BY <1>a, <3>1
    <3>4. o.key.op = "delete" /\ RefusalCode(o.wire) = "resource_not_found"
            => Dead(ops[id].key.uid)'
      <4>1. RefusalCode(o.wire) = "resource_not_found" => live.uid = 0
        BY DEF RefusalCode
      <4>2. ops'[id].key.uid = o.key.uid /\ live'.uid = live.uid /\ nextUid' = nextUid
        BY <3>1, <3>2, <3>3
      <4> QED  BY <2>1, <4>1, <4>2 DEF Dead, NamesUid
    <3> QED  BY <1>s, <1>op, <2>1, <3>1, <3>2, <3>3, <3>4
  <2> QED  BY <2>2, <2>3
<1>8. ASSUME NEW id \in 1..MaxCalls, HostCommitFails(id)  PROVE GoneInv'
  <2> DEFINE o == [ops[id] EXCEPT !.st = "failed", !.code = "conflict"]
  <2>1. /\ o.st = "failed" /\ o.code = "conflict" /\ o.key = ops[id].key /\ o.wire = ops[id].wire
        /\ o.rep = ops[id].rep /\ ops[id].st = "pending"
    BY <1>8, <1>a DEF HostCommitFails, Operation
  <2>2. ops' = [ops EXCEPT ![id] = o]
    BY <1>8 DEF HostCommitFails
  <2> HIDE DEF o
  <2>3. ops'[id] = o /\ \A i \in (1..MaxCalls) \ {id} : ops'[i] = ops[i]
    BY <1>a, <2>2
  <2>4. ops[id].rep.uid < nextUid
    BY DEF GoneInv, UidsIssued
  <2> QED  BY <1>8, <1>s, <1>op, <2>1, <2>3, <2>4 DEF HostCommitFails
<1>9. ASSUME NEW id \in 1..MaxCalls, HostForgets(id)  PROVE GoneInv'
  <2> DEFINE o == [ops[id] EXCEPT !.st = "expired"]
  <2>1. /\ o.st = "expired" /\ o.key = ops[id].key /\ o.wire = ops[id].wire
        /\ o.rep = ops[id].rep /\ ops[id].st # "none"
    BY <1>9, <1>a DEF HostForgets, Operation
  <2>2. ops' = [ops EXCEPT ![id] = o]
    BY <1>9, <1>a DEF HostForgets, Operation
  <2> HIDE DEF o
  <2>3. ops'[id] = o /\ \A i \in (1..MaxCalls) \ {id} : ops'[i] = ops[i]
    BY <1>a, <2>2
  <2>4. ops[id].rep.uid < nextUid
    BY DEF GoneInv, UidsIssued
  <2> QED  BY <1>9, <1>s, <1>op, <2>1, <2>3, <2>4 DEF HostForgets
<1> QED  BY <1>1, <1>2, <1>3, <1>4, <1>5, <1>6, <1>7, <1>8, <1>9 DEF HostStep

\* GoneInv holds initially: nothing was said.
LEMMA InitGone == Init => GoneInv
<1> SUFFICES ASSUME Init PROVE GoneInv
  OBVIOUS
<1>1. /\ NoRep.uid = 0 /\ NoHeld.uid = 0 /\ NoArgs.uid = 0 /\ NoAnswer.kind = "none"
      /\ NoAnswer.rep.uid = 0 /\ NoKey.uid = 0
      /\ NoOperation.st = "none" /\ NoOperation.key = NoKey /\ NoOperation.rep = NoRep
  BY DEF NoRep, NoHeld, NoArgs, NoAnswer, NoKey, NoOperation
<1>2. /\ live = NoRep /\ nextUid = 1 /\ net = {} /\ records = {}
      /\ \A id \in 1..MaxCalls : ops[id] = NoOperation
      /\ \A c \in Clients : /\ inbox[c] = NoAnswer /\ held[c] = NoHeld
                            /\ call[c].pc = "idle" /\ call[c].a = NoArgs
  BY DEF Init
<1>3. UidsIssued /\ Named /\ OwnKey /\ RecordTruth /\ OperationTruth
  BY <1>1, <1>2 DEF UidsIssued, Named, OwnKey, RecordTruth, OperationTruth
<1>4. ClientTruth /\ DeleteSuccessMeansGone /\ NotFoundMeansGone
  BY <1>1, <1>2 DEF ClientTruth, DeleteSuccessMeansGone, NotFoundMeansGone, AnswerTruth, Returned
<1> QED  BY <1>3, <1>4 DEF GoneInv

\* What the Host and the clients say of an incarnation is true wherever it is
\* on its way, whether or not the Host retires replay records.
THEOREM GoneInductive == Spec => []GoneInv
<1>1. ASSUME TypeInv, CleanInv, GoneInv, [Next]_vars  PROVE GoneInv'
  <2>1. CASE UNCHANGED vars
    <3>1. UNCHANGED <<hostVars, net, inbox, call, held>>
      BY <2>1 DEF vars, hostVars
    <3>2. \A c \in Clients : KeyOf(c)' = KeyOf(c)
      BY <3>1 DEF KeyOf, incarnationKey
    <3>3. UidsIssued' /\ Named' /\ RecordTruth' /\ OperationTruth'
      BY <1>1, <3>1 DEF GoneInv, UidsIssued, Named, RecordTruth, OperationTruth, AnswerTruth,
                        AcceptedUnder, Dead, hostVars
    <3>4. OwnKey'
      BY <1>1, <3>1, <3>2 DEF GoneInv, OwnKey, TypeInv, TypeOK, Request
    <3>5. ClientTruth' /\ DeleteSuccessMeansGone' /\ NotFoundMeansGone'
      BY <1>1, <3>1, <3>2 DEF GoneInv, ClientTruth, AnswerTruth, AcceptedUnder, Dead, hostVars,
                              Returned, DeleteSuccessMeansGone, NotFoundMeansGone
    <3> QED  BY <3>3, <3>4, <3>5 DEF GoneInv
  <2> QED  BY <1>1, <2>1, ClientKeepsGone, HostKeepsGone DEF Next
<1> QED  BY <1>1, InitGone, TypesInductive, CleanInductive, PTL DEF Spec

\* DeleteResource returning nil means the incarnation named by the uid is gone.
THEOREM DeleteSuccessIsTrue == Spec => []DeleteSuccessMeansGone
<1>1. GoneInv => DeleteSuccessMeansGone
  BY DEF GoneInv
<1> QED  BY <1>1, GoneInductive, PTL

\* ErrNotFound from a delete or an observe means the named incarnation is gone.
THEOREM NotFoundIsTrue == Spec => []NotFoundMeansGone
<1>1. GoneInv => NotFoundMeansGone
  BY DEF GoneInv
<1> QED  BY <1>1, GoneInductive, PTL


-----------------------------------------------------------------------------
(***************************************************************************)
(* Second part: what the Host's effects amount to.  What a key stands for,  *)
(* what takes effect once, and which incarnation a create returns; all of  *)
(* it on top of the invariants above.                                      *)
(***************************************************************************)

-----------------------------------------------------------------------------
(* What a client's step does.                                                *)

\* Client c starts a call.
Starts(c) ==
  /\ call[c].pc \in {"idle", "done"}
  /\ call'[c].a \in LegalArgs(c) /\ call'[c].digest = NoRep /\ call'[c].out = NoOutcome
  /\ call'[c].pc = (IF call'[c].a.op = "apply" THEN "prepare" ELSE "send")
  /\ call'[c].base = nextUid /\ call'[c].live0 = live.uid

\* It has what its update or create is prepared against.
Prepares(c) ==
  /\ call[c].pc = "prepare" /\ call'[c].pc = "send"
  /\ call'[c].a = call[c].a /\ call'[c].base = call[c].base /\ call'[c].live0 = call[c].live0

\* What the call returns was in the answer it heard, or in the Operation it waits for.
Heard(c, rep) ==
  \/ call[c].pc = "wait" /\ inbox[c].kind \in {"ok", "deleted"} /\ rep = inbox[c].rep
  \/ call[c].pc = "poll" /\ ops[call[c].op].st = "done" /\ rep = ops[call[c].op].rep

\* It goes on within its call.
GoesOn(c) ==
  /\ call[c].pc # "idle" /\ call'[c].pc \in {"send", "wait", "poll", "done"}
  /\ call'[c].a = call[c].a /\ call'[c].digest = call[c].digest
  /\ call'[c].base = call[c].base /\ call'[c].live0 = call[c].live0
  /\ call'[c].pc = "poll" => inbox[c].kind = "accepted" /\ call'[c].op = inbox[c].op
  /\ Returned(c, "ok")' => Heard(c, call'[c].out.rep)

\* Returning is going on, when what is returned was heard.
LEMMA ReturnGoesOn ==
  ASSUME TypeOK, NEW c \in Clients, NEW o, Return(c, o), call[c].pc # "idle",
         o.kind = "ok" => Heard(c, o.rep)
  PROVE  GoesOn(c) /\ \A d \in Clients : d # c => call'[d] = call[d]
<1>1. call[c] \in CallState /\ call \in [Clients -> CallState]
  BY DEF TypeOK
<1>2. PICK s : s = [call[c] EXCEPT !.pc = "done", !.out = o]
  OBVIOUS
<1>3. /\ s.pc = "done" /\ s.out = o /\ s.a = call[c].a /\ s.digest = call[c].digest
      /\ s.base = call[c].base /\ s.live0 = call[c].live0
  BY <1>1, <1>2 DEF CallState
<1>4. call' = [call EXCEPT ![c] = s]
  BY <1>2 DEF Return
<1>5. call'[c] = s /\ \A d \in Clients : d # c => call'[d] = call[d]
  BY <1>1, <1>4
<1> QED
  BY <1>3, <1>5 DEF GoesOn, Returned

\* A step of a client, in sum.
LEMMA ClientFrame ==
  ASSUME TypeOK, NEW c \in Clients, ClientStep(c)
  PROVE  /\ UNCHANGED hostVars
         /\ \A d \in Clients : inbox'[d] = inbox[d] \/ inbox'[d] = NoAnswer
         /\ \A r \in net' :
              \/ r \in net
              \/ /\ call[c].pc = "send" /\ r.key = KeyOf(c)
                 /\ r.wire = WireOf(call[c].a, call[c].digest)
         /\ \A d \in Clients : d # c => call'[d] = call[d]
         /\ call'[c] = call[c] \/ Starts(c) \/ Prepares(c) \/ GoesOn(c)
<1>1. call \in [Clients -> CallState] /\ call[c] \in CallState /\ inbox \in [Clients -> Answer]
  BY DEF TypeOK
<1>2. UNCHANGED hostVars
  BY DEF ClientStep, StartCall, GetResource, PrepareResource, PrepareRefused, PrepareFails,
         SendRequest, RetryCancelled, TransportError, BodyUnreadable, RetryableError, Refused,
         DirectResult, UnverifiableResult, OperationAccepted, PollDone, PollFailed, PollRefused,
         PollAbandoned, EndWait
<1>3. \A d \in Clients : inbox'[d] = inbox[d] \/ inbox'[d] = NoAnswer
  <2>1. inbox' = inbox \/ inbox' = [inbox EXCEPT ![c] = NoAnswer]
    BY DEF ClientStep, StartCall, GetResource, PrepareResource, PrepareRefused, PrepareFails,
           SendRequest, RetryCancelled, TransportError, BodyUnreadable, RetryableError, Refused,
           DirectResult, UnverifiableResult, OperationAccepted, PollDone, PollFailed, PollRefused,
           PollAbandoned, EndWait
  <2> QED  BY <1>1, <2>1
<1>4. \A r \in net' :
        \/ r \in net
        \/ call[c].pc = "send" /\ r.key = KeyOf(c) /\ r.wire = WireOf(call[c].a, call[c].digest)
  <2>1. net' = net \/ SendRequest(c)
    BY DEF ClientStep, StartCall, GetResource, PrepareResource, PrepareRefused, PrepareFails,
           RetryCancelled, TransportError, BodyUnreadable, RetryableError, Refused,
           DirectResult, UnverifiableResult, OperationAccepted, PollDone, PollFailed, PollRefused,
           PollAbandoned, EndWait
  <2> QED  BY <2>1 DEF SendRequest
<1>s. ASSUME NEW s, call' = [call EXCEPT ![c] = s]
      PROVE  call'[c] = s /\ \A d \in Clients : d # c => call'[d] = call[d]
  BY <1>1, <1>s
<1>o. /\ NoOutcome.kind = "none" /\ NoOutcome \in Outcome
      /\ \A rep, id : /\ [NoOutcome EXCEPT !.kind = "ok", !.rep = rep, !.status = "success"].rep = rep
                      /\ [NoOutcome EXCEPT !.kind = "ok", !.rep = rep, !.op = id,
                                           !.status = "success"].rep = rep
  BY ConstantTypes DEF NoOutcome
<1>n. /\ [NoOutcome EXCEPT !.kind = "plain"].kind # "ok"
      /\ \A code : [NoOutcome EXCEPT !.kind = "refused", !.code = code].kind # "ok"
      /\ \A st : [NoOutcome EXCEPT !.kind = "plain", !.status = st].kind # "ok"
      /\ \A a, code : RefusalOutcome(a, code).kind # "ok"
      /\ \A a, id, code : AcceptedFailure(a, id, code).kind # "ok"
  BY DEF NoOutcome, RefusalOutcome, AcceptedFailure
<1>5. ASSUME ~GetResource(c)
      PROVE  /\ \A d \in Clients : d # c => call'[d] = call[d]
             /\ Starts(c) \/ Prepares(c) \/ GoesOn(c)
  <2>1. CASE StartCall(c)
    <3>1. PICK a, s :
            /\ a \in LegalArgs(c)
            /\ s = [pc |-> IF a.op = "apply" THEN "prepare" ELSE "send",
                    id |-> nextCall, a |-> a, digest |-> NoRep, att |-> 1, op |-> 0,
                    base |-> nextUid, live0 |-> live.uid, out |-> NoOutcome]
            /\ call' = [call EXCEPT ![c] = s]
      BY <2>1 DEF StartCall
    <3>2. call[c].pc \in {"idle", "done"}
      BY <2>1 DEF StartCall
    <3>3. call'[c] = s /\ \A d \in Clients : d # c => call'[d] = call[d]
      BY <1>s, <3>1
    <3> QED  BY <3>1, <3>2, <3>3 DEF Starts
  <2>2. CASE PrepareResource(c)
    <3>1. PICK s : s = [call[c] EXCEPT !.pc = "send",
                          !.digest = [uid |-> live.uid, gen |-> live.gen, spec |-> call[c].a.spec]]
      OBVIOUS
    <3>2. call' = [call EXCEPT ![c] = s] /\ call[c].pc = "prepare"
      BY <2>2, <3>1 DEF PrepareResource
    <3>3. s.pc = "send" /\ s.a = call[c].a /\ s.base = call[c].base /\ s.live0 = call[c].live0
      BY <1>1, <3>1 DEF CallState
    <3> QED  BY <1>s, <3>2, <3>3 DEF Prepares
  <2>3. CASE SendRequest(c)
    <3>1. PICK s : s = [call[c] EXCEPT !.pc = "wait"]
      OBVIOUS
    <3>2. call' = [call EXCEPT ![c] = s] /\ call[c].pc = "send"
      BY <2>3, <3>1 DEF SendRequest
    <3>3. /\ s.pc = "wait" /\ s.a = call[c].a /\ s.base = call[c].base /\ s.live0 = call[c].live0
          /\ s.digest = call[c].digest
      BY <1>1, <3>1 DEF CallState
    <3> QED  BY <1>s, <3>2, <3>3 DEF GoesOn, Returned
  <2>4. CASE RetryableError(c)
    <3>1. PICK s : s = [call[c] EXCEPT !.pc = "send", !.att = call[c].att + 1]
      OBVIOUS
    <3>2. call[c].pc = "wait"
          /\ \/ call' = [call EXCEPT ![c] = s]
             \/ Return(c, [NoOutcome EXCEPT !.kind = "refused", !.code = "unavailable"])
      BY <2>4, <3>1 DEF RetryableError
    <3>3. /\ s.pc = "send" /\ s.a = call[c].a /\ s.base = call[c].base /\ s.live0 = call[c].live0
          /\ s.digest = call[c].digest
      BY <1>1, <3>1 DEF CallState
    <3>4. CASE call' = [call EXCEPT ![c] = s]
      BY <1>s, <3>2, <3>3, <3>4 DEF GoesOn, Returned
    <3>5. CASE Return(c, [NoOutcome EXCEPT !.kind = "refused", !.code = "unavailable"])
      BY <1>n, <3>2, <3>5, ReturnGoesOn
    <3> QED  BY <3>2, <3>4, <3>5
  <2>5. CASE OperationAccepted(c)
    <3>1. PICK s : s = [call[c] EXCEPT !.pc = "poll", !.op = inbox[c].op]
      OBVIOUS
    <3>2. call' = [call EXCEPT ![c] = s] /\ call[c].pc = "wait" /\ inbox[c].kind = "accepted"
      BY <2>5, <3>1 DEF OperationAccepted
    <3>3. /\ s.pc = "poll" /\ s.a = call[c].a /\ s.base = call[c].base /\ s.live0 = call[c].live0
          /\ s.digest = call[c].digest /\ s.op = inbox[c].op
      BY <1>1, <3>1 DEF CallState
    <3> QED  BY <1>s, <3>2, <3>3 DEF GoesOn, Returned
  <2>6. CASE DirectResult(c)
    <3>1. /\ call[c].pc = "wait" /\ inbox[c].kind \in {"ok", "deleted"}
          /\ \/ Return(c, [NoOutcome EXCEPT !.kind = "ok", !.rep = inbox[c].rep,
                                            !.status = "success"])
             \/ Return(c, AcceptedFailure(call[c].a, 0, "none"))
      BY <2>6 DEF DirectResult
    <3>2. CASE Return(c, [NoOutcome EXCEPT !.kind = "ok", !.rep = inbox[c].rep,
                                           !.status = "success"])
      <4>1. PICK o : o = [NoOutcome EXCEPT !.kind = "ok", !.rep = inbox[c].rep,
                                           !.status = "success"]
        OBVIOUS
      <4>2. o.rep = inbox[c].rep
        BY <1>o, <4>1
      <4>3. Return(c, o)
        BY <3>2, <4>1
      <4> QED  BY <3>1, <4>2, <4>3, ReturnGoesOn DEF Heard
    <3>3. CASE Return(c, AcceptedFailure(call[c].a, 0, "none"))
      <4>1. AcceptedFailure(call[c].a, 0, "none").kind # "ok"
        BY <1>n
      <4> QED  BY <3>1, <3>3, <4>1, ReturnGoesOn
    <3> QED  BY <3>1, <3>2, <3>3
  <2>7. CASE PollDone(c)
    <3>1. /\ call[c].pc = "poll" /\ ops[call[c].op].st = "done"
          /\ Return(c, [NoOutcome EXCEPT !.kind = "ok", !.rep = ops[call[c].op].rep,
                                         !.op = call[c].op, !.status = "success"])
      BY <2>7 DEF PollDone
    <3>2. PICK o : o = [NoOutcome EXCEPT !.kind = "ok", !.rep = ops[call[c].op].rep,
                                         !.op = call[c].op, !.status = "success"]
      OBVIOUS
    <3>3. o.rep = ops[call[c].op].rep
      BY <1>o, <3>2
    <3>4. Return(c, o)
      BY <3>1, <3>2
    <3> QED  BY <3>1, <3>3, <3>4, ReturnGoesOn DEF Heard
  <2>8. CASE PollEnds(c)
    <3>1. call[c].pc = "poll"
      BY <2>8 DEF PollEnds, PollFailed, PollRefused, PollAbandoned
    <3>2. PICK code : EndWait(c, code)
      BY <2>8 DEF PollEnds, PollFailed, PollRefused, PollAbandoned
    <3>3. Return(c, AcceptedFailure(call[c].a, call[c].op, code))
      BY <3>2 DEF EndWait
    <3>4. AcceptedFailure(call[c].a, call[c].op, code).kind # "ok"
      BY <1>n
    <3> QED  BY <3>1, <3>3, <3>4, ReturnGoesOn
  <2>9. CASE PrepareRefused(c) \/ PrepareFails(c) \/ RetryCancelled(c) \/ TransportError(c)
    <3>1. CASE PrepareRefused(c)
      BY <1>n, <3>1, ReturnGoesOn DEF PrepareRefused
    <3>2. CASE PrepareFails(c)
      BY <1>n, <3>2, ReturnGoesOn DEF PrepareFails
    <3>3. CASE RetryCancelled(c)
      BY <1>n, <3>3, ReturnGoesOn DEF RetryCancelled
    <3>4. CASE TransportError(c)
      BY <1>n, <3>4, ReturnGoesOn DEF TransportError
    <3> QED  BY <2>9, <3>1, <3>2, <3>3, <3>4
  <2>10. CASE BodyUnreadable(c) \/ Refused(c) \/ UnverifiableResult(c)
    <3>1. CASE BodyUnreadable(c)
      BY <1>n, <3>1, ReturnGoesOn DEF BodyUnreadable
    <3>2. CASE Refused(c)
      BY <1>n, <3>2, ReturnGoesOn DEF Refused
    <3>3. CASE UnverifiableResult(c)
      <4>1. call[c].pc = "wait" /\ Return(c, AcceptedFailure(call[c].a, 0, "none"))
        BY <3>3 DEF UnverifiableResult
      <4>2. AcceptedFailure(call[c].a, 0, "none").kind # "ok"
        BY <1>n
      <4> QED  BY <4>1, <4>2, ReturnGoesOn
    <3> QED  BY <2>10, <3>1, <3>2, <3>3
  <2>11. \/ StartCall(c) \/ PrepareResource(c) \/ SendRequest(c) \/ RetryableError(c)
         \/ OperationAccepted(c) \/ DirectResult(c) \/ PollDone(c) \/ PollEnds(c)
         \/ (PrepareRefused(c) \/ PrepareFails(c) \/ RetryCancelled(c) \/ TransportError(c))
         \/ (BodyUnreadable(c) \/ Refused(c) \/ UnverifiableResult(c))
    BY <1>5 DEF ClientStep, PollEnds
  <2> QED
    BY <2>1, <2>2, <2>3, <2>4, <2>5, <2>6, <2>7, <2>8, <2>9, <2>10, <2>11
<1>6. GetResource(c) => call' = call
  BY DEF GetResource
<1> QED
  BY <1>2, <1>3, <1>4, <1>5, <1>6

-----------------------------------------------------------------------------
(* What a step of the Host does.                                             *)

\* Request r is answered ans, and nobody but its caller hears of it.
Answered(r, ans) ==
  /\ net' = net \ {r} /\ call' = call
  /\ \A c \in Clients :
       \/ inbox'[c] = inbox[c]
       \/ /\ c = r.client /\ call[c].pc = "wait" /\ call[c].id = r.call
          /\ inbox'[c] = ans

\* The answers that change nothing at the Host.
Says(r, ans) ==
  \/ \E rec \in Replayable(r) :
       ans = (IF rec.wire = r.wire THEN rec.ans ELSE ErrorAnswer("key_reused"))
  \/ ans = RetryAnswer
  \/ Replayable(r) = {} /\ ans = ErrorAnswer(RefusalCode(r.wire))

\* The answers that are recorded.
Performs(r, ans) ==
  /\ r.wire.op # "observe" /\ RoomFor(r.wire) /\ Perform(r.call, r.key, r.wire)
  /\ ans = (IF r.wire.op = "delete" THEN DeletedAnswer ELSE OkAnswer(Written(r.wire)))
  /\ ops' = ops
Observes(r, ans) ==
  /\ r.wire.op = "observe" /\ ans = OkAnswer(live)
  /\ UNCHANGED <<live, nextUid, ops, effects>>
Accepts(r, ans) ==
  /\ r.wire.op # "observe" /\ ans = AcceptedAnswer(r.call)
  /\ ops'[r.call] = [st |-> "pending", wire |-> r.wire, key |-> r.key, bound |-> live.uid,
                     rep |-> NoRep, code |-> "none"]
  /\ \A i \in 1..MaxCalls : i # r.call => ops'[i] = ops[i]
  /\ UNCHANGED <<live, nextUid, effects>>
Grants(r, ans) ==
  /\ Replayable(r) = {} /\ FenceHolds(r.wire) /\ Record(r, ans)
  /\ Performs(r, ans) \/ Observes(r, ans) \/ Accepts(r, ans)

\* Operation id moves on: it commits, or it ends or expires without a mutation.
Commits(id) ==
  /\ ops[id].st = "pending" /\ ops'[id].st = "done"
  /\ FenceHolds(ops[id].wire) /\ RoomFor(ops[id].wire)
  /\ Perform(id, ops[id].key, ops[id].wire)
  /\ ops'[id].rep = (IF ops[id].wire.op = "delete" THEN NoRep ELSE Written(ops[id].wire))
Ends(id) ==
  /\ ops'[id].st \in {"failed", "expired"} /\ ops'[id].rep = ops[id].rep
  /\ UNCHANGED <<live, nextUid, effects>>
Settles(id) ==
  /\ UNCHANGED <<records, net, inbox, call>>
  /\ ops[id].st # "none" /\ ops'[id].key = ops[id].key /\ ops'[id].wire = ops[id].wire
  /\ \A i \in 1..MaxCalls : i # id => ops'[i] = ops[i]
  /\ Commits(id) \/ Ends(id)

\* The Operations of the model are a function of their ids.
LEMMA OperationSet ==
  ASSUME TypeOK, NEW id \in 1..MaxCalls, NEW o, ops' = [ops EXCEPT ![id] = o]
  PROVE  ops'[id] = o /\ \A i \in 1..MaxCalls : i # id => ops'[i] = ops[i]
  BY DEF TypeOK

\* What is accepted is the request.
LEMMA AcceptedFields ==
  ASSUME NEW r, NEW ans, Accepts(r, ans)
  PROVE  /\ ops'[r.call].st = "pending" /\ ops'[r.call].rep = NoRep
         /\ ops'[r.call].wire = r.wire /\ ops'[r.call].key = r.key
<1>1. PICK n : n = [st |-> "pending", wire |-> r.wire, key |-> r.key, bound |-> live.uid,
                    rep |-> NoRep, code |-> "none"]
  OBVIOUS
<1>2. n.st = "pending" /\ n.rep = NoRep /\ n.wire = r.wire /\ n.key = r.key
  BY <1>1
<1>3. ops'[r.call] = n
  BY <1>1 DEF Accepts
<1> QED  BY <1>2, <1>3

\* A step of the Host, in sum.
LEMMA HostFrame ==
  ASSUME TypeInv, HostStep
  PROVE  \/ \E r \in net, ans \in Answer : Answered(r, ans) /\ UNCHANGED hostVars /\ Says(r, ans)
         \/ \E r \in net, ans \in Answer : Answered(r, ans) /\ Grants(r, ans)
         \/ \E id \in 1..MaxCalls : Settles(id)
<1>1. TypeOK
  BY DEF TypeInv
<1>2. ASSUME NEW r \in net, NEW ans \in Answer, Deliver(r, ans), net' = net \ {r}, call' = call
      PROVE  Answered(r, ans)
  BY <1>1, <1>2, DeliverFrame DEF Answered
<1>3. ASSUME NEW r \in net, HostReplay(r)
      PROVE  \E ans \in Answer : Answered(r, ans) /\ UNCHANGED hostVars /\ Says(r, ans)
  <2>1. PICK rec \in Replayable(r) :
          Deliver(r, IF rec.wire = r.wire THEN rec.ans ELSE ErrorAnswer("key_reused"))
    BY <1>3 DEF HostReplay
  <2>2. PICK ans : ans = (IF rec.wire = r.wire THEN rec.ans ELSE ErrorAnswer("key_reused"))
    OBVIOUS
  <2>3. rec.ans \in Answer /\ ErrorAnswer("key_reused") \in Answer
    BY <1>1, AnswerTypes DEF TypeOK, Replayable, Code
  <2>4. ans \in Answer /\ Deliver(r, ans) /\ Says(r, ans)
    BY <2>1, <2>2, <2>3 DEF Says
  <2> QED  BY <1>2, <1>3, <2>4 DEF HostReplay
<1>4. ASSUME NEW r \in net, HostBusy(r)
      PROVE  \E ans \in Answer : Answered(r, ans) /\ UNCHANGED hostVars /\ Says(r, ans)
  BY <1>2, <1>4, ConstantTypes DEF HostBusy, Says
<1>5. ASSUME NEW r \in net, HostRefuse(r)
      PROVE  \E ans \in Answer : Answered(r, ans) /\ UNCHANGED hostVars /\ Says(r, ans)
  <2>1. ErrorAnswer(RefusalCode(r.wire)) \in Answer
    BY AnswerTypes DEF RefusalCode, Code
  <2> QED  BY <1>2, <1>5, <2>1 DEF HostRefuse, Says
<1>6. ASSUME NEW r \in net, HostPerform(r)
      PROVE  \E ans \in Answer : Answered(r, ans) /\ Grants(r, ans)
  <2>1. PICK ans : ans = (IF r.wire.op = "delete" THEN DeletedAnswer ELSE OkAnswer(Written(r.wire)))
    OBVIOUS
  <2>2. Record(r, ans) /\ Deliver(r, ans) /\ Performs(r, ans)
    BY <1>6, <2>1 DEF HostPerform, Performs
  <2>3. ans \in Answer
    <3>1. r.wire.op # "delete" => Written(r.wire) \in Rep
      BY <1>1, <1>6, RequestTypes, WrittenType DEF HostPerform
    <3> QED  BY <2>1, <3>1, AnswerTypes, ConstantTypes
  <2> QED  BY <1>2, <1>6, <2>2, <2>3 DEF HostPerform, Grants
<1>7. ASSUME NEW r \in net, HostObserve(r)
      PROVE  \E ans \in Answer : Answered(r, ans) /\ Grants(r, ans)
  <2>1. OkAnswer(live) \in Answer
    BY <1>1, AnswerTypes DEF TypeOK
  <2> QED  BY <1>2, <1>7, <2>1 DEF HostObserve, Grants, Observes
<1>8. ASSUME NEW r \in net, HostAccept(r)
      PROVE  \E ans \in Answer : Answered(r, ans) /\ Grants(r, ans)
  <2>1. r.call \in 1..MaxCalls
    BY DEF TypeInv
  <2>2. AcceptedAnswer(r.call) \in Answer
    BY <2>1, AnswerTypes
  <2>3. Accepts(r, AcceptedAnswer(r.call))
    <3>1. PICK n : n = [st |-> "pending", wire |-> r.wire, key |-> r.key, bound |-> live.uid,
                        rep |-> NoRep, code |-> "none"]
      OBVIOUS
    <3>2. ops' = [ops EXCEPT ![r.call] = n]
      BY <1>8, <3>1 DEF HostAccept
    <3>3. ops'[r.call] = n /\ \A i \in 1..MaxCalls : i # r.call => ops'[i] = ops[i]
      BY <1>1, <2>1, <3>2, OperationSet
    <3> QED  BY <1>8, <3>1, <3>3 DEF HostAccept, Accepts
  <2> QED  BY <1>2, <1>8, <2>2, <2>3 DEF HostAccept, Grants
<1>9. ASSUME NEW id \in 1..MaxCalls, HostCommit(id)  PROVE Settles(id)
  <2>1. ops[id] \in Operation
    BY <1>1 DEF TypeOK
  <2>2. CASE live.uid = ops[id].bound /\ FenceHolds(ops[id].wire)
    <3>1. PICK rep : rep = (IF ops[id].wire.op = "delete" THEN NoRep ELSE Written(ops[id].wire))
      OBVIOUS
    <3>2. PICK o : o = [ops[id] EXCEPT !.st = "done", !.rep = rep]
      OBVIOUS
    <3>3. o.st = "done" /\ o.rep = rep /\ o.key = ops[id].key /\ o.wire = ops[id].wire
      BY <2>1, <3>2 DEF Operation
    <3>4. /\ ops' = [ops EXCEPT ![id] = o] /\ RoomFor(ops[id].wire)
          /\ Perform(id, ops[id].key, ops[id].wire) /\ ops[id].st = "pending"
          /\ UNCHANGED <<records, net, inbox, call>>
      BY <1>9, <2>2, <3>1, <3>2 DEF HostCommit
    <3>5. ops'[id] = o /\ \A i \in 1..MaxCalls : i # id => ops'[i] = ops[i]
      BY <1>1, <3>4, OperationSet
    <3> QED  BY <2>2, <3>1, <3>3, <3>4, <3>5 DEF Settles, Commits
  <2>3. CASE ~(live.uid = ops[id].bound /\ FenceHolds(ops[id].wire))
    <3>1. PICK o : o = [ops[id] EXCEPT !.st = "failed", !.code = RefusalCode(ops[id].wire)]
      OBVIOUS
    <3>2. o.st = "failed" /\ o.rep = ops[id].rep /\ o.key = ops[id].key /\ o.wire = ops[id].wire
      BY <2>1, <3>1 DEF Operation
    <3>3. /\ ops' = [ops EXCEPT ![id] = o] /\ ops[id].st = "pending"
          /\ UNCHANGED <<live, nextUid, effects, records, net, inbox, call>>
      BY <1>9, <2>3, <3>1 DEF HostCommit
    <3>4. ops'[id] = o /\ \A i \in 1..MaxCalls : i # id => ops'[i] = ops[i]
      BY <1>1, <3>3, OperationSet
    <3> QED  BY <3>2, <3>3, <3>4 DEF Settles, Ends
  <2> QED  BY <2>2, <2>3
<1>10. ASSUME NEW id \in 1..MaxCalls, HostCommitFails(id)  PROVE Settles(id)
  <2>1. PICK o : o = [ops[id] EXCEPT !.st = "failed", !.code = "conflict"]
    OBVIOUS
  <2>2. o.st = "failed" /\ o.rep = ops[id].rep /\ o.key = ops[id].key /\ o.wire = ops[id].wire
    BY <1>1, <2>1 DEF TypeOK, Operation
  <2>3. /\ ops' = [ops EXCEPT ![id] = o] /\ ops[id].st = "pending"
        /\ UNCHANGED <<live, nextUid, effects, records, net, inbox, call>>
    BY <1>10, <2>1 DEF HostCommitFails
  <2>4. ops'[id] = o /\ \A i \in 1..MaxCalls : i # id => ops'[i] = ops[i]
    BY <1>1, <2>3, OperationSet
  <2> QED  BY <2>2, <2>3, <2>4 DEF Settles, Ends
<1>11. ASSUME NEW id \in 1..MaxCalls, HostForgets(id)  PROVE Settles(id)
  <2>1. PICK o : o = [ops[id] EXCEPT !.st = "expired"]
    OBVIOUS
  <2>2. o.st = "expired" /\ o.rep = ops[id].rep /\ o.key = ops[id].key /\ o.wire = ops[id].wire
    BY <1>1, <2>1 DEF TypeOK, Operation
  <2>3. /\ ops' = [ops EXCEPT ![id] = o] /\ ops[id].st # "none"
        /\ UNCHANGED <<live, nextUid, effects, records, net, inbox, call>>
    BY <1>1, <1>11, <2>1 DEF HostForgets, TypeOK, Operation
  <2>4. ops'[id] = o /\ \A i \in 1..MaxCalls : i # id => ops'[i] = ops[i]
    BY <1>1, <2>3, OperationSet
  <2> QED  BY <2>2, <2>3, <2>4 DEF Settles, Ends
<1>12. CASE \E r \in net : HostReplay(r) \/ HostBusy(r) \/ HostRefuse(r)
  BY <1>3, <1>4, <1>5, <1>12
<1>13. CASE \E r \in net : HostPerform(r) \/ HostObserve(r) \/ HostAccept(r)
  BY <1>6, <1>7, <1>8, <1>13
<1>14. CASE \E id \in 1..MaxCalls : HostCommit(id) \/ HostCommitFails(id) \/ HostForgets(id)
  BY <1>9, <1>10, <1>11, <1>14
<1> QED  BY <1>12, <1>13, <1>14 DEF HostStep

-----------------------------------------------------------------------------
(* A key stands for one request.                                             *)

\* The request a key stands for: everything that travels is in the key.
WireOfKey(k) ==
  [op |-> k.op, uid |-> IF k.op = "apply" THEN k.uid ELSE 0, gen |-> k.gen,
   spec |-> k.body.spec, digest |-> k.body.digest]

\* The key is the request wherever the two are kept together; so no answer is
\* a refused reuse, and an update acts on the incarnation its key names.
KeyedInv ==
  /\ \A r \in net : r.wire = WireOfKey(r.key)
  /\ \A rec \in records : rec.wire = WireOfKey(rec.key) /\ rec.ans.code = "none"
  /\ \A id \in 1..MaxCalls : ops[id].st # "none" => ops[id].wire = WireOfKey(ops[id].key)
  /\ KeyNamesOneRequest
  /\ UpdateTouchesOnlyNamed

\* The codes of the Host's answers.
LEMMA AnswerCodes ==
  /\ NoAnswer.code = "none" /\ DeletedAnswer.code = "none" /\ RetryAnswer.code = "none"
  /\ \A rep : OkAnswer(rep).code = "none"
  /\ \A id : AcceptedAnswer(id).code = "none"
  /\ \A code : ErrorAnswer(code).code = code
  BY DEF NoAnswer, DeletedAnswer, RetryAnswer, OkAnswer, AcceptedAnswer, ErrorAnswer

\* What a granted request is answered has no code.
LEMMA GrantedCode ==
  ASSUME NEW r, NEW ans, Grants(r, ans)
  PROVE  ans.code = "none"
  BY AnswerCodes DEF Grants, Performs, Observes, Accepts

\* A mutation has one effect, and an update that names an incarnation has it there.
LEMMA EffectNames ==
  ASSUME NEW id, NEW k, NEW w, Perform(id, k, w), FenceHolds(w), w = WireOfKey(k)
  PROVE  /\ effects \subseteq effects'
         /\ \A e, f \in effects' \ effects : e = f
         /\ \A e \in effects' :
              \/ e \in effects
              \/ /\ e.key = k
                 /\ e.kind = "update" /\ k.op = "apply" /\ k.uid # 0 => e.uid = k.uid
<1>1. PICK n : /\ n = [call |-> id, key |-> k, kind |-> EffectKind(w),
                       uid |-> IF EffectKind(w) = "create" THEN nextUid ELSE live.uid,
                       gen |-> w.gen]
               /\ effects' = effects \cup {n}
  BY DEF Perform
<1>2. n.key = k /\ n.kind = EffectKind(w)
  BY <1>1
<1>3. n.kind = "update" => n.uid = live.uid /\ w.gen # 0
  BY <1>1 DEF EffectKind
<1>4. w.gen # 0 /\ w.uid # 0 => w.uid = live.uid
  BY DEF FenceHolds
<1>5. k.op = "apply" => w.uid = k.uid
  BY DEF WireOfKey
<1> QED  BY <1>1, <1>2, <1>3, <1>4, <1>5

\* A client sends what its key stands for.
LEMMA ClientKeepsKeyed ==
  ASSUME TypeOK, KeyedInv, NEW c \in Clients, ClientStep(c)
  PROVE  KeyedInv'
<1>1. /\ UNCHANGED hostVars
      /\ \A d \in Clients : inbox'[d] = inbox[d] \/ inbox'[d] = NoAnswer
  BY ClientFrame
<1>2. \A r \in net' :
        \/ r \in net
        \/ r.key = KeyOf(c) /\ r.wire = WireOf(call[c].a, call[c].digest)
  BY ClientFrame
<1>3. WireOf(call[c].a, call[c].digest) = WireOfKey(KeyOf(c))
  BY DEF WireOf, WireOfKey, KeyOf, incarnationKey
<1>4. \A r \in net' : r.wire = WireOfKey(r.key)
  BY <1>2, <1>3 DEF KeyedInv
<1>5. KeyNamesOneRequest'
  BY <1>1, AnswerCodes DEF KeyedInv, KeyNamesOneRequest
<1>6. UpdateTouchesOnlyNamed'
  BY <1>1 DEF KeyedInv, UpdateTouchesOnlyNamed, hostVars
<1> QED  BY <1>1, <1>4, <1>5, <1>6 DEF KeyedInv, hostVars

\* The Host finds under a key the request the key stands for.
LEMMA HostKeepsKeyed ==
  ASSUME TypeInv, CleanInv, KeyedInv, HostStep
  PROVE  KeyedInv'
<1>1. ASSUME NEW r \in net, NEW ans, Answered(r, ans), UNCHANGED hostVars, Says(r, ans)
      PROVE  KeyedInv'
  <2>1. \A rec \in Replayable(r) : rec.wire = r.wire /\ rec.ans.code = "none"
    BY DEF KeyedInv, Replayable
  <2>2. ans.code # "key_reused"
    BY <1>1, <2>1, AnswerCodes DEF Says, RefusalCode
  <2>3. KeyNamesOneRequest'
    BY <1>1, <2>2 DEF Answered, KeyedInv, KeyNamesOneRequest
  <2>4. \A q \in net' : q.wire = WireOfKey(q.key)
    BY <1>1 DEF Answered, KeyedInv
  <2>5. UpdateTouchesOnlyNamed'
    BY <1>1 DEF KeyedInv, UpdateTouchesOnlyNamed, hostVars
  <2> QED  BY <1>1, <2>3, <2>4, <2>5 DEF KeyedInv, hostVars
<1>2. ASSUME NEW r \in net, NEW ans, Answered(r, ans), Grants(r, ans)
      PROVE  KeyedInv'
  <2>1. ans.code = "none" /\ r.wire = WireOfKey(r.key) /\ r.call \in 1..MaxCalls
    BY <1>2, GrantedCode DEF KeyedInv, TypeInv
  <2>2. KeyNamesOneRequest'
    BY <1>2, <2>1 DEF Answered, KeyedInv, KeyNamesOneRequest
  <2>3. \A q \in net' : q.wire = WireOfKey(q.key)
    BY <1>2 DEF Answered, KeyedInv
  <2>4. \A rec \in records' : rec.wire = WireOfKey(rec.key) /\ rec.ans.code = "none"
    <3>1. PICK n : n = [key |-> r.key, wire |-> r.wire, ans |-> ans]
      OBVIOUS
    <3>2. \A rec \in records' : rec \in records \/ rec = n
      BY <1>2, <3>1 DEF Grants, Record
    <3>3. n.wire = WireOfKey(n.key) /\ n.ans.code = "none"
      BY <2>1, <3>1
    <3>4. \A rec \in records : rec.wire = WireOfKey(rec.key) /\ rec.ans.code = "none"
      BY DEF KeyedInv
    <3> QED  BY <3>2, <3>3, <3>4
  <2>5. \A id \in 1..MaxCalls : ops'[id].st # "none" => ops'[id].wire = WireOfKey(ops'[id].key)
    <3>1. \A id \in 1..MaxCalls : ops[id].st # "none" => ops[id].wire = WireOfKey(ops[id].key)
      BY DEF KeyedInv
    <3>2. CASE Accepts(r, ans)
      <4>1. ops'[r.call].wire = r.wire /\ ops'[r.call].key = r.key
        BY <3>2, AcceptedFields
      <4>2. \A id \in 1..MaxCalls : id # r.call => ops'[id] = ops[id]
        BY <3>2 DEF Accepts
      <4> QED  BY <2>1, <3>1, <4>1, <4>2
    <3>3. CASE ~Accepts(r, ans)
      <4>1. ops' = ops
        BY <1>2, <3>3 DEF Grants, Performs, Observes
      <4> QED  BY <3>1, <4>1
    <3> QED  BY <3>2, <3>3
  <2>6. UpdateTouchesOnlyNamed'
    <3>1. CASE Performs(r, ans)
      <4>1. Perform(r.call, r.key, r.wire) /\ FenceHolds(r.wire)
        BY <1>2, <3>1 DEF Performs, Grants
      <4>2. \A e \in effects' :
              \/ e \in effects
              \/ /\ e.key = r.key
                 /\ e.kind = "update" /\ r.key.op = "apply" /\ r.key.uid # 0
                      => e.uid = r.key.uid
        BY <2>1, <4>1, EffectNames
      <4> QED  BY <4>2 DEF KeyedInv, UpdateTouchesOnlyNamed
    <3>2. CASE ~Performs(r, ans)
      BY <1>2, <3>2 DEF Grants, Observes, Accepts, KeyedInv, UpdateTouchesOnlyNamed
    <3> QED  BY <3>1, <3>2
  <2> QED  BY <2>2, <2>3, <2>4, <2>5, <2>6 DEF KeyedInv
<1>3. ASSUME NEW id \in 1..MaxCalls, Settles(id)
      PROVE  KeyedInv'
  <2>1. UNCHANGED <<records, net, inbox>> /\ ops[id].wire = WireOfKey(ops[id].key)
    BY <1>3 DEF Settles, KeyedInv
  <2>2. \A i \in 1..MaxCalls : ops'[i].st # "none" => ops'[i].wire = WireOfKey(ops'[i].key)
    BY <1>3, <2>1 DEF Settles, KeyedInv
  <2>3. UpdateTouchesOnlyNamed'
    <3>1. CASE Commits(id)
      <4>1. \A e \in effects' :
              \/ e \in effects
              \/ /\ e.key = ops[id].key
                 /\ e.kind = "update" /\ ops[id].key.op = "apply" /\ ops[id].key.uid # 0
                      => e.uid = ops[id].key.uid
        BY <2>1, <3>1, EffectNames DEF Commits
      <4> QED  BY <4>1 DEF KeyedInv, UpdateTouchesOnlyNamed
    <3>2. CASE Ends(id)
      BY <3>2 DEF Ends, KeyedInv, UpdateTouchesOnlyNamed
    <3> QED  BY <1>3, <3>1, <3>2 DEF Settles
  <2>4. KeyNamesOneRequest'
    BY <2>1 DEF KeyedInv, KeyNamesOneRequest
  <2> QED  BY <2>1, <2>2, <2>3, <2>4 DEF KeyedInv
<1> QED  BY <1>1, <1>2, <1>3, HostFrame

\* A key stands for one request in every reachable state.
THEOREM KeyedInductive == Spec => []KeyedInv
<1>1. Init => KeyedInv
  <2> SUFFICES ASSUME Init PROVE KeyedInv
    OBVIOUS
  <2>1. /\ net = {} /\ records = {} /\ effects = {}
        /\ \A id \in 1..MaxCalls : ops[id].st = "none"
        /\ \A c \in Clients : inbox[c] = NoAnswer
    BY DEF Init, NoOperation
  <2> QED  BY <2>1, AnswerCodes DEF KeyedInv, KeyNamesOneRequest, UpdateTouchesOnlyNamed
<1>2. ASSUME TypeInv, CleanInv, KeyedInv, [Next]_vars  PROVE KeyedInv'
  <2>1. CASE UNCHANGED vars
    BY <1>2, <2>1 DEF vars, KeyedInv, KeyNamesOneRequest, UpdateTouchesOnlyNamed
  <2>2. TypeOK
    BY <1>2 DEF TypeInv
  <2> QED  BY <1>2, <2>1, <2>2, ClientKeepsKeyed, HostKeepsKeyed DEF Next
<1> QED  BY <1>1, <1>2, TypesInductive, CleanInductive, PTL DEF Spec

\* The Host never has to refuse a request as the reuse of another one's key.
THEOREM KeyNamesOneRequestAlways == Spec => []KeyNamesOneRequest
<1>1. KeyedInv => KeyNamesOneRequest
  BY DEF KeyedInv
<1> QED  BY <1>1, KeyedInductive, PTL

\* An update that named its incarnation changed that one and no other.
THEOREM UpdateTouchesOnlyNamedAlways == Spec => []UpdateTouchesOnlyNamed
<1>1. KeyedInv => UpdateTouchesOnlyNamed
  BY DEF KeyedInv
<1> QED  BY <1>1, KeyedInductive, PTL

-----------------------------------------------------------------------------
(* A delete takes effect once.                                               *)

\* The key of a delete has no body: its principal, uid and fence are all of it.
Bodyless(k) == k.op = "delete" => k.body = [spec |-> NoSpec, digest |-> NoRep]

DeletesAreBodyless ==
  /\ \A c \in Clients :
       /\ call[c].pc = "prepare" => call[c].a.op = "apply"
       /\ call[c].a.op = "delete" => call[c].a.spec = NoSpec /\ call[c].digest = NoRep
  /\ \A r \in net : Bodyless(r.key)
  /\ \A id \in 1..MaxCalls : ops[id].st # "none" => Bodyless(ops[id].key)
  /\ \A e \in effects : Bodyless(e.key)

\* A delete that was accepted or performed has left a record under its key.
Recorded(k) == \E rec \in records : rec.key = k

DeletesAreRecorded ==
  /\ \A e \in effects : e.key.op = "delete" => Recorded(e.key)
  /\ \A id \in 1..MaxCalls :
       ops[id].st # "none" /\ ops[id].key.op = "delete" => Recorded(ops[id].key)

\* One Operation is accepted for it, and it waits only until the one effect.
DeletesAreSingle ==
  /\ \A i, j \in 1..MaxCalls :
       /\ ops[i].st # "none" /\ ops[j].st # "none"
       /\ ops[i].key.op = "delete" /\ ops[i].key = ops[j].key
       => i = j
  /\ \A id \in 1..MaxCalls :
       /\ ops[id].key.op = "delete" => ops[id].rep.uid = 0
       /\ ops[id].key.op = "delete" /\ ops[id].st = "pending"
            => \A e \in effects : e.key # ops[id].key
  /\ \A e, f \in effects : e.key.op = "delete" /\ e.key = f.key => e = f

OnceInv == DeletesAreBodyless /\ DeletesAreRecorded /\ DeletesAreSingle

\* The keys of the same delete are equal.
LEMMA SameDeleteSameKey ==
  ASSUME NEW k \in Key, NEW l \in Key, Bodyless(k), Bodyless(l), SameDelete(k, l)
  PROVE  k = l
  BY DEF Key, Bodyless, SameDelete

\* The record of a delete reports no incarnation, so it is never retired.
LEMMA DeleteRecordsStay ==
  ASSUME TypeInv, GoneInv, DeletesAreSingle, NEW r \in net, r.key.op = "delete",
         Replayable(r) = {}
  PROVE  ~Recorded(r.key)
<1>1. ASSUME NEW rec \in records, rec.key = r.key  PROVE ~Retired(rec.ans)
  <2>1. rec.ans.kind # "ok"
    BY <1>1 DEF GoneInv, RecordTruth, AnswerTruth
  <2>2. rec.ans.kind = "accepted" => ops[rec.ans.op].rep.uid = 0
    <3>1. rec.ans.kind = "accepted" => /\ rec.ans.op \in 1..MaxCalls
                                       /\ ops[rec.ans.op].key = r.key
      BY <1>1 DEF GoneInv, RecordTruth, AcceptedUnder, TypeInv
    <3> QED  BY <3>1 DEF DeletesAreSingle
  <2>3. ReportedUid(rec.ans) = 0
    BY <2>1, <2>2 DEF ReportedUid
  <2> QED  BY <2>3 DEF Retired
<1> QED  BY <1>1 DEF Replayable, Recorded

\* The empty values of the model say nothing of a delete.
LEMMA NothingDeleted ==
  NoArgs.op = "observe" /\ NoKey.op = "observe" /\ NoRep.uid = 0
  BY DEF NoArgs, NoKey, NoRep

\* A client asks for a delete without a body.
LEMMA ClientKeepsOnce ==
  ASSUME TypeOK, OnceInv, NEW c \in Clients, ClientStep(c)
  PROVE  OnceInv'
<1>1. /\ UNCHANGED hostVars
      /\ \A d \in Clients : d # c => call'[d] = call[d]
      /\ call'[c] = call[c] \/ Starts(c) \/ Prepares(c) \/ GoesOn(c)
  BY ClientFrame
<1>2. \A r \in net' :
        \/ r \in net
        \/ call[c].pc = "send" /\ r.key = KeyOf(c)
  BY ClientFrame
<1>3. Bodyless(KeyOf(c))
  BY DEF OnceInv, DeletesAreBodyless, Bodyless, KeyOf, incarnationKey
<1>4. \A r \in net' : Bodyless(r.key)
  BY <1>2, <1>3 DEF OnceInv, DeletesAreBodyless
<1>5. /\ call'[c].pc = "prepare" => call'[c].a.op = "apply"
      /\ call'[c].a.op = "delete" => call'[c].a.spec = NoSpec /\ call'[c].digest = NoRep
  <2>1. /\ call[c].pc = "prepare" => call[c].a.op = "apply"
        /\ call[c].a.op = "delete" => call[c].a.spec = NoSpec /\ call[c].digest = NoRep
    BY DEF OnceInv, DeletesAreBodyless
  <2>2. CASE Starts(c)
    <3>1. \A a \in LegalArgs(c) : a.op = "delete" => a.spec = NoSpec
      BY DEF LegalArgs, ApplyArgs, ImportArgs, StatusActionArgs, DeleteArgs
    <3> QED  BY <2>2, <3>1 DEF Starts
  <2>3. CASE Prepares(c)
    BY <2>1, <2>3 DEF Prepares
  <2>4. CASE GoesOn(c)
    BY <2>1, <2>4 DEF GoesOn
  <2> QED  BY <1>1, <2>1, <2>2, <2>3, <2>4
<1>6. \A d \in Clients :
        /\ call'[d].pc = "prepare" => call'[d].a.op = "apply"
        /\ call'[d].a.op = "delete" => call'[d].a.spec = NoSpec /\ call'[d].digest = NoRep
  BY <1>1, <1>5 DEF OnceInv, DeletesAreBodyless
<1>7. DeletesAreBodyless'
  BY <1>1, <1>4, <1>6 DEF OnceInv, DeletesAreBodyless, hostVars
<1>8. DeletesAreRecorded' /\ DeletesAreSingle'
  BY <1>1 DEF OnceInv, DeletesAreRecorded, DeletesAreSingle, Recorded, hostVars
<1> QED  BY <1>7, <1>8 DEF OnceInv

\* What a mutation adds to the history.
LEMMA PerformAdds ==
  ASSUME NEW id, NEW k, NEW w, Perform(id, k, w)
  PROVE  \E n : n.key = k /\ effects' = effects \cup {n}
<1>1. PICK n : /\ n = [call |-> id, key |-> k, kind |-> EffectKind(w),
                       uid |-> IF EffectKind(w) = "create" THEN nextUid ELSE live.uid,
                       gen |-> w.gen]
               /\ effects' = effects \cup {n}
  BY DEF Perform
<1> QED  BY <1>1

\* The Host looks the record up first.
LEMMA HostKeepsOnce ==
  ASSUME TypeInv, CleanInv, GoneInv, OnceInv, HostStep
  PROVE  OnceInv'
<1> USE DEF OnceInv
<1>1. ASSUME NEW r \in net, NEW ans, Answered(r, ans), UNCHANGED hostVars
      PROVE  OnceInv'
  <2>1. DeletesAreBodyless'
    BY <1>1 DEF Answered, DeletesAreBodyless, hostVars
  <2>2. DeletesAreRecorded' /\ DeletesAreSingle'
    BY <1>1 DEF DeletesAreRecorded, DeletesAreSingle, Recorded, hostVars
  <2> QED  BY <2>1, <2>2
<1>2. ASSUME NEW r \in net, NEW ans, Answered(r, ans), Grants(r, ans)
      PROVE  OnceInv'
  <2>1. /\ r.call \in 1..MaxCalls /\ Bodyless(r.key) /\ net' = net \ {r} /\ call' = call
        /\ ops[r.call].st = "none"
    BY <1>2 DEF TypeInv, DeletesAreBodyless, Answered, CleanInv, OneRequest, Clean
  <2>2. r.key.op = "delete" => ~Recorded(r.key)
    BY <1>2, DeleteRecordsStay DEF Grants
  <2>3. \A k : Recorded(k) \/ k = r.key => Recorded(k)'
    <3>1. PICK n : n.key = r.key /\ records' = {rec \in records : rec.key # r.key} \cup {n}
      BY <1>2 DEF Grants, Record
    <3> QED  BY <3>1 DEF Recorded
  <2>4. /\ effects' = effects
        \/ \E n : n.key = r.key /\ effects' = effects \cup {n}
    BY <1>2, PerformAdds DEF Grants, Performs, Observes, Accepts
  <2>5. \A e \in effects' : e \in effects \/ e.key = r.key
    BY <2>4
  <2>6. \A e, f \in effects' : e = f \/ e \in effects \/ f \in effects
    BY <2>4
  <2>7. \A id \in 1..MaxCalls :
          \/ ops'[id] = ops[id]
          \/ /\ id = r.call /\ ops'[id].key = r.key /\ ops'[id].rep.uid = 0
             /\ effects' = effects
    BY <1>2, AcceptedFields, NothingDeleted DEF Grants, Performs, Observes, Accepts
  <2>8. DeletesAreBodyless'
    BY <2>1, <2>5, <2>7 DEF DeletesAreBodyless
  <2>9. DeletesAreRecorded'
    BY <2>3, <2>5, <2>7 DEF DeletesAreRecorded
  <2>10. \A e \in effects : e.key.op = "delete" => e.key # r.key
    BY <2>2 DEF DeletesAreRecorded
  <2>11. \A id \in 1..MaxCalls :
           ops[id].st # "none" /\ ops[id].key.op = "delete" => ops[id].key # r.key
    BY <2>2 DEF DeletesAreRecorded
  <2>12. ASSUME NEW i \in 1..MaxCalls, NEW j \in 1..MaxCalls,
                ops'[i].st # "none", ops'[j].st # "none",
                ops'[i].key.op = "delete", ops'[i].key = ops'[j].key
         PROVE  i = j
    <3>1. CASE ops'[i] = ops[i] /\ ops'[j] = ops[j]
      BY <2>12, <3>1 DEF DeletesAreSingle
    <3>2. CASE ops'[i] # ops[i]
      BY <2>7, <2>11, <2>12, <3>2
    <3>3. CASE ops'[j] # ops[j]
      BY <2>7, <2>11, <2>12, <3>3
    <3> QED  BY <3>1, <3>2, <3>3
  <2>13. ASSUME NEW id \in 1..MaxCalls, ops'[id].key.op = "delete"
         PROVE  /\ ops'[id].rep.uid = 0
                /\ ops'[id].st = "pending" => \A e \in effects' : e.key # ops'[id].key
    <3>1. CASE ops'[id] = ops[id]
      <4>1. /\ ops[id].rep.uid = 0
            /\ ops[id].st = "pending" => \A e \in effects : e.key # ops[id].key
        BY <2>13, <3>1 DEF DeletesAreSingle
      <4>2. ops[id].st = "pending" => ops[id].key # r.key
        BY <2>11, <2>13, <3>1
      <4> QED  BY <2>5, <3>1, <4>1, <4>2
    <3>2. CASE ops'[id] # ops[id]
      BY <2>7, <2>10, <2>13, <3>2
    <3> QED  BY <3>1, <3>2
  <2>14. ASSUME NEW e \in effects', NEW f \in effects', e.key.op = "delete", e.key = f.key
         PROVE  e = f
    <3>1. CASE e \in effects /\ f \in effects
      BY <2>14, <3>1 DEF DeletesAreSingle
    <3>2. CASE e \notin effects
      BY <2>5, <2>6, <2>10, <2>14, <3>2
    <3>3. CASE f \notin effects
      BY <2>5, <2>6, <2>10, <2>14, <3>3
    <3> QED  BY <3>1, <3>2, <3>3
  <2>15. DeletesAreSingle'
    BY <2>12, <2>13, <2>14 DEF DeletesAreSingle
  <2> QED  BY <2>8, <2>9, <2>15
<1>3. ASSUME NEW id \in 1..MaxCalls, Settles(id)
      PROVE  OnceInv'
  <2>1. /\ UNCHANGED <<records, net, call>>
        /\ ops[id].st # "none" /\ ops'[id].key = ops[id].key
        /\ \A i \in 1..MaxCalls : i # id => ops'[i] = ops[i]
    BY <1>3 DEF Settles
  <2>2. /\ ops'[id].st # "pending"
        /\ \/ effects' = effects
           \/ /\ ops[id].st = "pending"
              /\ \E n : n.key = ops[id].key /\ effects' = effects \cup {n}
    BY <1>3, PerformAdds DEF Settles, Commits, Ends
  <2>3. \A e \in effects' : e \in effects \/ (e.key = ops[id].key /\ ops[id].st = "pending")
    BY <2>2
  <2>4. \A e, f \in effects' : e = f \/ e \in effects \/ f \in effects
    BY <2>2
  <2>5. \A i \in 1..MaxCalls : ops'[i].key = ops[i].key /\ (ops'[i].st # "none" => ops[i].st # "none")
    BY <2>1
  <2>6. DeletesAreBodyless'
    BY <2>1, <2>3, <2>5 DEF DeletesAreBodyless
  <2>7. \A k : Recorded(k)' <=> Recorded(k)
    BY <2>1 DEF Recorded
  <2>8. DeletesAreRecorded'
    BY <2>1, <2>3, <2>5, <2>7 DEF DeletesAreRecorded
  <2>9. ops[id].key.op = "delete" => ops'[id].rep.uid = 0
    <3>1. ops[id].key.op = "delete" => ops[id].wire.op = "delete" /\ ops[id].rep.uid = 0
      BY <2>1 DEF GoneInv, Named, NamesUid, DeletesAreSingle
    <3> QED  BY <1>3, <3>1, NothingDeleted DEF Settles, Commits, Ends
  <2>10. ASSUME NEW i \in 1..MaxCalls, ops'[i].key.op = "delete"
         PROVE  /\ ops'[i].rep.uid = 0
                /\ ops'[i].st = "pending" => \A e \in effects' : e.key # ops'[i].key
    <3>1. CASE i = id
      BY <2>1, <2>2, <2>9, <2>10, <3>1
    <3>2. CASE i # id
      <4>1. /\ ops'[i] = ops[i] /\ ops[i].rep.uid = 0
            /\ ops[i].st = "pending" => \A e \in effects : e.key # ops[i].key
        BY <2>1, <2>10, <3>2 DEF DeletesAreSingle
      <4>2. ops[i].st = "pending" => ops[i].key # ops[id].key
        BY <2>1, <2>10, <3>2, <4>1 DEF DeletesAreSingle
      <4> QED  BY <2>3, <4>1, <4>2
    <3> QED  BY <3>1, <3>2
  <2>11. ASSUME NEW e \in effects', NEW f \in effects', e.key.op = "delete", e.key = f.key
         PROVE  e = f
    <3>1. \A g \in effects :
            ops[id].st = "pending" /\ ops[id].key.op = "delete" => g.key # ops[id].key
      BY DEF DeletesAreSingle
    <3>2. CASE e \in effects /\ f \in effects
      BY <2>11, <3>2 DEF DeletesAreSingle
    <3>3. CASE e \notin effects
      BY <2>3, <2>4, <2>11, <3>1, <3>3
    <3>4. CASE f \notin effects
      BY <2>3, <2>4, <2>11, <3>1, <3>4
    <3> QED  BY <3>2, <3>3, <3>4
  <2>12. \A i, j \in 1..MaxCalls :
           /\ ops'[i].st # "none" /\ ops'[j].st # "none"
           /\ ops'[i].key.op = "delete" /\ ops'[i].key = ops'[j].key
           => i = j
    BY <2>5 DEF DeletesAreSingle
  <2>13. DeletesAreSingle'
    BY <2>10, <2>11, <2>12 DEF DeletesAreSingle
  <2> QED  BY <2>6, <2>8, <2>13
<1> QED  BY <1>1, <1>2, <1>3, HostFrame

\* What was recorded of a delete stays recorded, and it took effect once.
THEOREM OnceInductive == Spec => []OnceInv
<1>1. Init => OnceInv
  <2> SUFFICES ASSUME Init PROVE OnceInv
    OBVIOUS
  <2>1. /\ net = {} /\ records = {} /\ effects = {}
        /\ \A id \in 1..MaxCalls : ops[id].st = "none" /\ ops[id].key.op = "observe"
        /\ \A c \in Clients : call[c].pc = "idle" /\ call[c].a.op = "observe"
    BY NothingDeleted DEF Init, NoOperation
  <2> QED  BY <2>1 DEF OnceInv, DeletesAreBodyless, DeletesAreRecorded, DeletesAreSingle
<1>2. ASSUME TypeInv, CleanInv, GoneInv, OnceInv, [Next]_vars  PROVE OnceInv'
  <2>1. CASE UNCHANGED vars
    BY <1>2, <2>1 DEF vars, OnceInv, DeletesAreBodyless, DeletesAreRecorded, DeletesAreSingle,
                      Recorded
  <2>2. TypeOK
    BY <1>2 DEF TypeInv
  <2> QED  BY <1>2, <2>1, <2>2, ClientKeepsOnce, HostKeepsOnce DEF Next
<1> QED  BY <1>1, <1>2, TypesInductive, CleanInductive, GoneInductive, PTL DEF Spec

\* The effects of the same delete are one effect.
LEMMA EffectsOfOneKey ==
  ASSUME TypeOK, OnceInv, NEW e \in effects, NEW k \in Key, Bodyless(k), SameDelete(e.key, k)
  PROVE  e.key = k
<1>1. e.key \in Key /\ Bodyless(e.key)
  BY DEF TypeOK, Effect, OnceInv, DeletesAreBodyless
<1> QED  BY <1>1, SameDeleteSameKey

\* The same delete takes effect at most once, whatever is retried, delayed,
\* accepted as an Operation or forgotten.
THEOREM DeleteEffectOnceAlways == Spec => []DeleteEffectOnce
<1>1. TypeOK /\ OnceInv => DeleteEffectOnce
  <2> SUFFICES ASSUME TypeOK, OnceInv, NEW e \in effects, NEW f \in effects,
                      SameDelete(e.key, f.key)
               PROVE  e = f
    BY DEF DeleteEffectOnce
  <2>1. f.key \in Key /\ Bodyless(f.key)
    BY DEF TypeOK, Effect, OnceInv, DeletesAreBodyless
  <2>2. e.key = f.key /\ e.key.op = "delete"
    BY <2>1, EffectsOfOneKey DEF SameDelete
  <2> QED  BY <2>2 DEF OnceInv, DeletesAreSingle
<1> QED  BY <1>1, TypeCorrect, OnceInductive, PTL

\* A delete that has taken effect is never answered resource_not_found.
LEMMA StepReplays ==
  ASSUME TypeInv, GoneInv, KeyedInv, OnceInv, Next, NEW c \in Clients,
         inbox'[c] # inbox[c], inbox'[c].code = "resource_not_found",
         call[c].a.op = "delete", NEW e \in effects
  PROVE  ~SameDelete(e.key, KeyOf(c))
<1>t. TypeOK
  BY DEF TypeInv
<1>1. ASSUME NEW d \in Clients, ClientStep(d)  PROVE FALSE
  BY <1>t, <1>1, ClientFrame, AnswerCodes
<1>2. PICK r \in net, ans \in Answer : Answered(r, ans) /\ (Says(r, ans) \/ Grants(r, ans))
  <2>1. HostStep
    BY <1>1 DEF Next
  <2>2. ~\E id \in 1..MaxCalls : Settles(id)
    BY DEF Settles
  <2> QED  BY <2>1, <2>2, HostFrame
<1>3. c = r.client /\ call[c].id = r.call /\ ans.code = "resource_not_found"
  BY <1>2 DEF Answered
<1>4. r.key = KeyOf(c)
  BY <1>3 DEF GoneInv, OwnKey
<1>5. Replayable(r) = {}
  <2>1. ~Grants(r, ans)
    BY <1>3, GrantedCode
  <2>2. \A rec \in Replayable(r) : rec.ans.code = "none"
    BY DEF KeyedInv, Replayable
  <2>3. Says(r, ans)
    BY <1>2, <2>1
  <2>4. ans.code # "none" /\ ans.code # "key_reused"
    BY <1>3
  <2> QED  BY <2>2, <2>3, <2>4, AnswerCodes DEF Says
<1>6. r.key.op = "delete"
  BY <1>4 DEF KeyOf, incarnationKey
<1>7. ~Recorded(r.key)
  BY <1>5, <1>6, DeleteRecordsStay DEF OnceInv
<1>8. r.key \in Key /\ Bodyless(r.key)
  BY <1>t, RequestTypes DEF OnceInv, DeletesAreBodyless
<1>9. SameDelete(e.key, r.key) => e.key = r.key
  BY <1>t, <1>8, EffectsOfOneKey
<1> QED  BY <1>4, <1>6, <1>7, <1>9 DEF OnceInv, DeletesAreRecorded

\* The retry after a lost response is answered from the record.
THEOREM RetriedDeleteReplaysAlways == Spec => RetriedDeleteReplays
<1>1. ASSUME TypeInv, GoneInv, KeyedInv, OnceInv, [Next]_vars
      PROVE  [\A c \in Clients :
                /\ inbox'[c] # inbox[c]
                /\ inbox'[c].code = "resource_not_found"
                /\ call[c].a.op = "delete"
                => \A e \in effects : ~SameDelete(e.key, KeyOf(c))]_vars
  BY <1>1, StepReplays
<1> QED
  BY <1>1, TypesInductive, GoneInductive, KeyedInductive, OnceInductive, PTL
     DEF Spec, RetriedDeleteReplays

-----------------------------------------------------------------------------
(* A create returns no ghost, if the Host retires records.                   *)

\* The incarnation was issued during the call, or held the name as it began.
Fresh(c, u) == u >= call[c].base \/ u = call[c].live0

\* An apply or an import: what it returns holds the name.
Makes(k) == k.op \in {"apply", "import"}

\* The name is always fresh to every call, so what is said of the name is.
NameIsFresh ==
  \A c \in Clients :
    call[c].pc # "idle" =>
      call[c].base <= nextUid /\ (live.uid # 0 => Fresh(c, live.uid))

NewsIsFresh ==
  \A c \in Clients :
    Makes(call[c].a) =>
      /\ inbox[c].kind = "ok" => Fresh(c, inbox[c].rep.uid)
      /\ inbox[c].kind = "accepted" /\ ops[inbox[c].op].st = "done"
           => Fresh(c, ops[inbox[c].op].rep.uid)
      /\ call[c].pc = "poll" /\ ops[call[c].op].st = "done"
           => Fresh(c, ops[call[c].op].rep.uid)
      /\ Returned(c, "ok") => Fresh(c, call[c].out.rep.uid)

\* What such a call was answered names an incarnation: the one to be retired with.
NewsNames ==
  /\ \A rec \in records : Makes(rec.key) /\ rec.ans.kind = "ok" => rec.ans.rep.uid # 0
  /\ \A id \in 1..MaxCalls :
       Makes(ops[id].key) /\ ops[id].st = "done" => ops[id].rep.uid # 0

FreshInv == NameIsFresh /\ NewsIsFresh /\ NewsNames

\* The numbers of the model.
LEMMA UidNumbers ==
  ASSUME TypeOK
  PROVE  /\ nextUid \in Nat /\ nextUid > 0 /\ live.uid \in Nat
         /\ \A c \in Clients : call[c].base \in Nat /\ call[c].live0 \in Nat
<1>1. nextUid \in 1..(MaxUid + 1) /\ live.uid \in Uid
  BY DEF TypeOK, Rep
<1>2. \A c \in Clients : call[c].base \in 1..(MaxUid + 1) /\ call[c].live0 \in Uid
  BY DEF TypeOK, CallState
<1> QED  BY <1>1, <1>2, BoundsAssumption DEF Uid

\* What a mutation writes is the next incarnation, or the one that holds the name.
LEMMA WrittenUid ==
  ASSUME TypeOK, NEW w, FenceHolds(w)
  PROVE  /\ Written(w).uid = nextUid \/ (Written(w).uid = live.uid /\ live.uid # 0)
         /\ Written(w).uid # 0
<1>1. live \in Rep /\ nextUid \in Nat /\ nextUid > 0
  BY UidNumbers DEF TypeOK
<1>2. CASE w.gen = 0
  BY <1>1, <1>2 DEF Written
<1>3. CASE w.gen # 0
  <2>1. live.uid # 0
    BY <1>3 DEF FenceHolds
  <2>2. Written(w).uid = live.uid
    BY <1>1, <1>3 DEF Written, Rep
  <2> QED  BY <2>1, <2>2
<1> QED  BY <1>2, <1>3

\* It is fresh to every call, and so is the name after it.
LEMMA WrittenIsFresh ==
  ASSUME TypeOK, NameIsFresh, NEW id, NEW k, NEW w, FenceHolds(w), Perform(id, k, w),
         call' = call
  PROVE  /\ NameIsFresh'
         /\ \A c \in Clients : call[c].pc # "idle" => Fresh(c, Written(w).uid)
<1>1. /\ nextUid \in Nat /\ live.uid \in Nat
      /\ \A c \in Clients : call[c].base \in Nat /\ call[c].live0 \in Nat
  BY UidNumbers
<1>2. Written(w).uid = nextUid \/ (Written(w).uid = live.uid /\ live.uid # 0)
  BY WrittenUid
<1>3. \A c \in Clients : call[c].pc # "idle" => Fresh(c, Written(w).uid)
  BY <1>1, <1>2 DEF NameIsFresh, Fresh
<1>4. nextUid' \in Nat /\ nextUid <= nextUid'
  BY <1>1 DEF Perform
<1>5. live'.uid = 0 \/ live'.uid = Written(w).uid
  BY DEF Perform, NoRep
<1>6. NameIsFresh'
  BY <1>1, <1>3, <1>4, <1>5 DEF NameIsFresh, Fresh
<1> QED  BY <1>3, <1>6

\* A client goes by what it was told.
LEMMA ClientKeepsFresh ==
  ASSUME TypeInv, CleanInv, GoneInv, FreshInv, NEW c \in Clients, ClientStep(c)
  PROVE  FreshInv'
<1>t. TypeOK
  BY DEF TypeInv
<1>1. /\ UNCHANGED hostVars
      /\ \A d \in Clients : inbox'[d] = inbox[d] \/ inbox'[d] = NoAnswer
      /\ \A d \in Clients : d # c => call'[d] = call[d]
      /\ call'[c] = call[c] \/ Starts(c) \/ Prepares(c) \/ GoesOn(c)
  BY <1>t, ClientFrame
<1>2. NoAnswer.kind = "none"
  BY DEF NoAnswer
<1>3. NewsNames'
  BY <1>1 DEF FreshInv, NewsNames, hostVars
<1>4. NameIsFresh'
  <2>1. nextUid \in Nat /\ nextUid' = nextUid /\ live' = live
    BY <1>t, <1>1, UidNumbers DEF hostVars
  <2>2. ASSUME NEW d \in Clients, call'[d].pc # "idle"
        PROVE  call'[d].base <= nextUid /\ (live.uid # 0 => Fresh(d, live.uid)')
    <3>1. CASE Starts(c) /\ d = c
      BY <2>1, <3>1 DEF Starts, Fresh
    <3>2. CASE ~(Starts(c) /\ d = c)
      <4>1. /\ call[d].pc # "idle"
            /\ call'[d].base = call[d].base /\ call'[d].live0 = call[d].live0
        BY <1>1, <2>2, <3>2 DEF Prepares, GoesOn
      <4> QED  BY <2>1, <4>1 DEF FreshInv, NameIsFresh, Fresh
    <3> QED  BY <3>1, <3>2
  <2> QED  BY <2>1, <2>2 DEF NameIsFresh
<1>5. NewsIsFresh'
  <2>1. ASSUME NEW d \in Clients, Makes(call'[d].a)
        PROVE  /\ inbox'[d].kind = "ok" => Fresh(d, inbox[d].rep.uid)'
               /\ inbox'[d].kind = "accepted" /\ ops[inbox'[d].op].st = "done"
                    => Fresh(d, ops[inbox[d].op].rep.uid)'
               /\ call'[d].pc = "poll" /\ ops[call'[d].op].st = "done"
                    => Fresh(d, ops[call[d].op].rep.uid)'
               /\ Returned(d, "ok")' => Fresh(d, call[d].out.rep.uid)'
    <3>1. inbox[d].kind # "none" => call[d].pc = "wait"
      BY DEF CleanInv, OneRequest
    <3>2. ops' = ops /\ (inbox'[d].kind # "none" => inbox'[d] = inbox[d])
      BY <1>1, <1>2 DEF hostVars
    <3>3. CASE call'[d] = call[d]
      <4>1. /\ Makes(call[d].a)
            /\ \A u : Fresh(d, u) => Fresh(d, u)'
            /\ Returned(d, "ok")' => Returned(d, "ok")
        BY <2>1, <3>3 DEF Fresh, Returned
      <4>2. /\ inbox[d].kind = "ok" => Fresh(d, inbox[d].rep.uid)
            /\ inbox[d].kind = "accepted" /\ ops[inbox[d].op].st = "done"
                 => Fresh(d, ops[inbox[d].op].rep.uid)
            /\ call[d].pc = "poll" /\ ops[call[d].op].st = "done"
                 => Fresh(d, ops[call[d].op].rep.uid)
            /\ Returned(d, "ok") => Fresh(d, call[d].out.rep.uid)
        BY <4>1 DEF FreshInv, NewsIsFresh
      <4> QED  BY <3>2, <3>3, <4>1, <4>2 DEF Fresh
    <3>4. CASE d = c /\ Starts(c)
      <4>1. /\ call'[d].pc \notin {"poll", "done"}
            /\ inbox'[d].kind = "none"
        BY <3>1, <3>2, <3>4 DEF Starts
      <4> QED  BY <4>1 DEF Returned
    <3>5. CASE d = c /\ Prepares(c)
      <4>1. call'[d].pc = "send" /\ inbox'[d].kind = "none"
        BY <3>1, <3>2, <3>5 DEF Prepares
      <4> QED  BY <4>1 DEF Returned
    <3>6. CASE d = c /\ GoesOn(c)
      <4>1. Makes(call[d].a) /\ \A u : Fresh(d, u) => Fresh(d, u)'
        BY <2>1, <3>6 DEF GoesOn, Fresh
      <4>2. /\ inbox[d].kind = "ok" => Fresh(d, inbox[d].rep.uid)
            /\ inbox[d].kind = "accepted" /\ ops[inbox[d].op].st = "done"
                 => Fresh(d, ops[inbox[d].op].rep.uid)
            /\ call[d].pc = "poll" /\ ops[call[d].op].st = "done"
                 => Fresh(d, ops[call[d].op].rep.uid)
        BY <4>1 DEF FreshInv, NewsIsFresh
      <4>3. inbox[d].kind # "deleted"
        BY <4>1 DEF GoneInv, ClientTruth, AnswerTruth, Makes
      <4>4. Returned(d, "ok")' => Fresh(d, call[d].out.rep.uid)'
        <5>1. Returned(d, "ok")' => Heard(d, call'[d].out.rep)
          BY <3>6 DEF GoesOn
        <5>2. \A rep : Heard(d, rep) => Fresh(d, rep.uid)
          BY <4>2, <4>3 DEF Heard
        <5> QED  BY <4>1, <5>1, <5>2 DEF Fresh
      <4>5. call'[d].pc = "poll" /\ ops[call'[d].op].st = "done"
              => Fresh(d, ops[call[d].op].rep.uid)'
        <5>1. call'[d].pc = "poll" => inbox[d].kind = "accepted" /\ call'[d].op = inbox[d].op
          BY <3>6 DEF GoesOn
        <5>2. call'[d].pc = "poll" /\ ops[call'[d].op].st = "done"
                => Fresh(d, ops[call'[d].op].rep.uid)
          BY <4>2, <5>1
        <5> QED  BY <3>2, <4>1, <5>2 DEF Fresh
      <4>6. /\ inbox'[d].kind = "ok" => Fresh(d, inbox[d].rep.uid)'
            /\ inbox'[d].kind = "accepted" /\ ops[inbox'[d].op].st = "done"
                 => Fresh(d, ops[inbox[d].op].rep.uid)'
        BY <3>2, <4>1, <4>2 DEF Fresh
      <4> QED  BY <4>4, <4>5, <4>6
    <3> QED  BY <1>1, <3>3, <3>4, <3>5, <3>6
  <2>2. ops' = ops
    BY <1>1 DEF hostVars
  <2> QED  BY <2>1, <2>2 DEF NewsIsFresh
<1> QED  BY <1>3, <1>4, <1>5 DEF FreshInv

\* What is replayed to such a call still holds the name.
LEMMA ReplayIsFresh ==
  ASSUME RetireRecords, TypeInv, GoneInv, FreshInv, NEW r \in net, NEW rec \in Replayable(r),
         Makes(r.key), NEW c \in Clients, call[c].pc # "idle"
  PROVE  /\ rec.ans.kind = "ok" => Fresh(c, rec.ans.rep.uid)
         /\ rec.ans.kind = "accepted" /\ ops[rec.ans.op].st = "done"
              => Fresh(c, ops[rec.ans.op].rep.uid)
<1>1. rec \in records /\ rec.key = r.key /\ ~Retired(rec.ans)
  BY DEF Replayable
<1>2. live.uid # 0 => Fresh(c, live.uid)
  BY DEF FreshInv, NameIsFresh
<1>3. ReportedUid(rec.ans) # 0 => ReportedUid(rec.ans) = live.uid
  BY <1>1 DEF Retired
<1>4. CASE rec.ans.kind = "ok"
  <2>1. rec.ans.rep.uid # 0 /\ ReportedUid(rec.ans) = rec.ans.rep.uid
    BY <1>1, <1>4 DEF FreshInv, NewsNames, ReportedUid
  <2> QED  BY <1>2, <1>3, <1>4, <2>1
<1>5. CASE rec.ans.kind = "accepted" /\ ops[rec.ans.op].st = "done"
  <2>1. rec.ans.op \in 1..MaxCalls /\ ops[rec.ans.op].key = r.key
    BY <1>1, <1>5 DEF GoneInv, RecordTruth, AcceptedUnder, TypeInv
  <2>2. ops[rec.ans.op].rep.uid # 0
    BY <1>5, <2>1 DEF FreshInv, NewsNames
  <2>3. ReportedUid(rec.ans) = ops[rec.ans.op].rep.uid
    BY <1>5 DEF ReportedUid
  <2> QED  BY <1>2, <1>3, <1>5, <2>2, <2>3
<1> QED  BY <1>4, <1>5

\* A step of the Host that leaves the clients alone keeps what they were told,
\* given that what it tells one of them, and what becomes of an Operation, is fresh.
LEMMA NewsStaysFresh ==
  ASSUME TypeInv, CleanInv, GoneInv, NewsIsFresh, call' = call,
         \A c \in Clients :
           \/ inbox'[c] = inbox[c]
           \/ Makes(call[c].a) =>
                /\ inbox'[c].kind = "ok" => Fresh(c, inbox'[c].rep.uid)
                /\ inbox'[c].kind = "accepted" /\ ops'[inbox'[c].op].st = "done"
                     => Fresh(c, ops'[inbox'[c].op].rep.uid),
         \A id \in 1..MaxCalls :
           \/ ops'[id] = ops[id]
           \/ ops[id].st = "none"
           \/ \A c \in Clients :
                /\ call[c].pc # "idle" /\ Makes(call[c].a) /\ ops[id].key = KeyOf(c)
                /\ ops'[id].st = "done"
                => Fresh(c, ops'[id].rep.uid)
  PROVE  NewsIsFresh'
<1>1. \A c \in Clients : \A u : Fresh(c, u)' <=> Fresh(c, u)
  BY DEF Fresh
<1>2. ASSUME NEW c \in Clients, Makes(call[c].a), NEW id, AcceptedUnder(id, KeyOf(c)),
             id \in 1..MaxCalls, call[c].pc # "idle", ops'[id].st = "done",
             ops[id].st = "done" => Fresh(c, ops[id].rep.uid)
      PROVE  Fresh(c, ops'[id].rep.uid)
  <2>1. ops[id].st # "none" /\ ops[id].key = KeyOf(c)
    BY <1>2 DEF AcceptedUnder
  <2> QED  BY <1>2, <2>1
<1>3. ASSUME NEW c \in Clients, Makes(call[c].a)
      PROVE  /\ inbox'[c].kind = "ok" => Fresh(c, inbox'[c].rep.uid)
             /\ inbox'[c].kind = "accepted" /\ ops'[inbox'[c].op].st = "done"
                  => Fresh(c, ops'[inbox'[c].op].rep.uid)
             /\ call[c].pc = "poll" /\ ops'[call[c].op].st = "done"
                  => Fresh(c, ops'[call[c].op].rep.uid)
             /\ Returned(c, "ok") => Fresh(c, call[c].out.rep.uid)
  <2>1. /\ inbox[c].kind = "ok" => Fresh(c, inbox[c].rep.uid)
        /\ inbox[c].kind = "accepted" /\ ops[inbox[c].op].st = "done"
             => Fresh(c, ops[inbox[c].op].rep.uid)
        /\ call[c].pc = "poll" /\ ops[call[c].op].st = "done"
             => Fresh(c, ops[call[c].op].rep.uid)
        /\ Returned(c, "ok") => Fresh(c, call[c].out.rep.uid)
    BY <1>3 DEF NewsIsFresh
  <2>2. inbox[c].kind = "accepted" => /\ AcceptedUnder(inbox[c].op, KeyOf(c))
                                      /\ inbox[c].op \in 1..MaxCalls /\ call[c].pc # "idle"
    BY DEF GoneInv, ClientTruth, TypeInv, CleanInv, OneRequest
  <2>3. call[c].pc = "poll" => AcceptedUnder(call[c].op, KeyOf(c)) /\ call[c].op \in 1..MaxCalls
    BY DEF GoneInv, ClientTruth, TypeInv
  <2>4. call[c].pc = "poll" /\ ops'[call[c].op].st = "done" => Fresh(c, ops'[call[c].op].rep.uid)
    BY <1>2, <1>3, <2>1, <2>3
  <2>5. inbox[c].kind = "accepted" /\ ops'[inbox[c].op].st = "done"
          => Fresh(c, ops'[inbox[c].op].rep.uid)
    BY <1>2, <1>3, <2>1, <2>2
  <2>6. /\ inbox'[c].kind = "ok" => Fresh(c, inbox'[c].rep.uid)
        /\ inbox'[c].kind = "accepted" /\ ops'[inbox'[c].op].st = "done"
             => Fresh(c, ops'[inbox'[c].op].rep.uid)
    <3>1. CASE inbox'[c] = inbox[c]
      BY <2>1, <2>5, <3>1
    <3>2. CASE inbox'[c] # inbox[c]
      BY <1>3, <3>2
    <3> QED  BY <3>1, <3>2
  <2> QED  BY <2>1, <2>4, <2>6
<1>4. \A c \in Clients : Returned(c, "ok")' <=> Returned(c, "ok")
  BY DEF Returned
<1> QED  BY <1>1, <1>3, <1>4 DEF NewsIsFresh

\* What the Host says of the name is fresh when it says it.
LEMMA HostKeepsFresh ==
  ASSUME RetireRecords, TypeInv, CleanInv, GoneInv, FreshInv, HostStep
  PROVE  FreshInv'
<1>t. TypeOK /\ NameIsFresh /\ NewsIsFresh /\ NewsNames
  BY DEF TypeInv, FreshInv
<1>a. /\ \A rep : OkAnswer(rep).kind = "ok" /\ OkAnswer(rep).rep = rep
      /\ \A id : AcceptedAnswer(id).kind = "accepted" /\ AcceptedAnswer(id).op = id
      /\ \A code : ErrorAnswer(code).kind = "error"
      /\ DeletedAnswer.kind = "deleted" /\ RetryAnswer.kind = "retry"
  BY DEF OkAnswer, AcceptedAnswer, ErrorAnswer, DeletedAnswer, RetryAnswer, NoAnswer
<1>k. ASSUME NEW r \in net, NEW ans, Answered(r, ans), NEW c \in Clients, inbox'[c] # inbox[c]
      PROVE  /\ inbox'[c] = ans /\ call[c].pc # "idle"
             /\ Makes(call[c].a) => Makes(r.key)
  <2>1. c = r.client /\ call[c].id = r.call /\ inbox'[c] = ans /\ call[c].pc = "wait"
    BY <1>k DEF Answered
  <2>2. r.key = KeyOf(c)
    BY <2>1 DEF GoneInv, OwnKey
  <2> QED  BY <2>1, <2>2 DEF Makes, KeyOf, incarnationKey
<1>1. ASSUME NEW r \in net, NEW ans, Answered(r, ans), UNCHANGED hostVars, Says(r, ans)
      PROVE  FreshInv'
  <2>1. call' = call /\ ops' = ops
    BY <1>1 DEF Answered, hostVars
  <2>2. NameIsFresh' /\ NewsNames'
    BY <1>1, <1>t, <2>1 DEF NameIsFresh, NewsNames, Fresh, hostVars
  <2>3. ASSUME NEW c \in Clients, inbox'[c] # inbox[c], Makes(call[c].a)
        PROVE  /\ inbox'[c].kind = "ok" => Fresh(c, inbox'[c].rep.uid)
               /\ inbox'[c].kind = "accepted" /\ ops'[inbox'[c].op].st = "done"
                    => Fresh(c, ops'[inbox'[c].op].rep.uid)
    <3>1. inbox'[c] = ans /\ call[c].pc # "idle" /\ Makes(r.key)
      BY <1>1, <1>k, <2>3
    <3>2. \A rec \in Replayable(r) :
            /\ rec.ans.kind = "ok" => Fresh(c, rec.ans.rep.uid)
            /\ rec.ans.kind = "accepted" /\ ops[rec.ans.op].st = "done"
                 => Fresh(c, ops[rec.ans.op].rep.uid)
      BY <3>1, ReplayIsFresh
    <3>3. \/ ans.kind \in {"error", "retry"}
          \/ \E rec \in Replayable(r) : ans = rec.ans
      BY <1>1, <1>a DEF Says
    <3> QED  BY <2>1, <3>1, <3>2, <3>3
  <2>4. NewsIsFresh'
    BY <1>t, <2>1, <2>3, NewsStaysFresh
  <2> QED  BY <2>2, <2>4 DEF FreshInv
<1>2. ASSUME NEW r \in net, NEW ans, Answered(r, ans), Grants(r, ans)
      PROVE  FreshInv'
  <2>1. /\ call' = call /\ FenceHolds(r.wire) /\ r.call \in 1..MaxCalls
        /\ r.wire.op = r.key.op /\ ops[r.call].st = "none"
    BY <1>2 DEF Answered, Grants, TypeInv, GoneInv, Named, NamesUid, CleanInv, OneRequest, Clean
  <2>2. NameIsFresh'
    <3>1. CASE Performs(r, ans)
      BY <1>t, <2>1, <3>1, WrittenIsFresh DEF Performs
    <3>2. CASE ~Performs(r, ans)
      <4>1. live' = live /\ nextUid' = nextUid
        BY <1>2, <3>2 DEF Grants, Observes, Accepts
      <4> QED  BY <1>t, <2>1, <4>1 DEF NameIsFresh, Fresh
    <3> QED  BY <3>1, <3>2
  <2>3. \A id \in 1..MaxCalls : ops'[id] = ops[id] \/ (id = r.call /\ ops'[id].st = "pending")
    BY <1>2, AcceptedFields DEF Grants, Performs, Observes, Accepts
  <2>4. ans.kind = "ok" /\ Makes(r.key) => /\ Performs(r, ans) /\ ans.rep = Written(r.wire)
                                           /\ ans.rep.uid # 0
    <3>1. CASE Performs(r, ans)
      <4>1. Written(r.wire).uid # 0
        BY <1>t, <2>1, WrittenUid
      <4> QED  BY <1>a, <3>1, <4>1 DEF Performs
    <3>2. CASE Observes(r, ans)
      BY <2>1, <3>2 DEF Observes, Makes
    <3>3. CASE Accepts(r, ans)
      BY <1>a, <3>3 DEF Accepts
    <3> QED  BY <1>2, <3>1, <3>2, <3>3 DEF Grants
  <2>5. ans.kind = "accepted" => ans.op = r.call /\ ops'[r.call].st = "pending"
    BY <1>2, <1>a, AcceptedFields DEF Grants, Performs, Observes, Accepts
  <2>6. NewsNames'
    <3>1. PICK n : /\ n.key = r.key /\ n.ans = ans
                   /\ records' = {rec \in records : rec.key # r.key} \cup {n}
      BY <1>2 DEF Grants, Record
    <3>2. \A rec \in records' : Makes(rec.key) /\ rec.ans.kind = "ok" => rec.ans.rep.uid # 0
      BY <1>t, <2>4, <3>1 DEF NewsNames
    <3>3. \A id \in 1..MaxCalls : Makes(ops'[id].key) /\ ops'[id].st = "done" => ops'[id].rep.uid # 0
      BY <1>t, <2>3 DEF NewsNames
    <3> QED  BY <3>2, <3>3 DEF NewsNames
  <2>7. ASSUME NEW c \in Clients, inbox'[c] # inbox[c], Makes(call[c].a)
        PROVE  /\ inbox'[c].kind = "ok" => Fresh(c, inbox'[c].rep.uid)
               /\ inbox'[c].kind = "accepted" /\ ops'[inbox'[c].op].st = "done"
                    => Fresh(c, ops'[inbox'[c].op].rep.uid)
    <3>1. inbox'[c] = ans /\ call[c].pc # "idle" /\ Makes(r.key)
      BY <1>2, <1>k, <2>7
    <3>2. ans.kind = "ok" => Fresh(c, ans.rep.uid)
      BY <1>t, <2>1, <2>4, <3>1, WrittenIsFresh DEF Performs
    <3> QED  BY <2>5, <3>1, <3>2
  <2>8. NewsIsFresh'
    BY <1>t, <2>1, <2>3, <2>7, NewsStaysFresh
  <2> QED  BY <2>2, <2>6, <2>8 DEF FreshInv
<1>3. ASSUME NEW id \in 1..MaxCalls, Settles(id)
      PROVE  FreshInv'
  <2>1. /\ UNCHANGED <<records, net, inbox, call>>
        /\ ops[id].st # "none" /\ ops'[id].key = ops[id].key
        /\ \A i \in 1..MaxCalls : i # id => ops'[i] = ops[i]
        /\ ops[id].wire.op = ops[id].key.op
    BY <1>3 DEF Settles, GoneInv, Named, NamesUid
  <2>2. NameIsFresh'
    <3>1. CASE Commits(id)
      BY <1>t, <2>1, <3>1, WrittenIsFresh DEF Commits
    <3>2. CASE Ends(id)
      BY <1>t, <2>1, <3>2 DEF Ends, NameIsFresh, Fresh
    <3> QED  BY <1>3, <3>1, <3>2 DEF Settles
  <2>3. ops'[id].st = "done" /\ Makes(ops[id].key)
          => Commits(id) /\ ops'[id].rep = Written(ops[id].wire)
    BY <1>3, <2>1 DEF Settles, Commits, Ends, Makes
  <2>4. Commits(id) => Written(ops[id].wire).uid # 0
    BY <1>t, WrittenUid DEF Commits
  <2>5. NewsNames'
    BY <1>t, <2>1, <2>3, <2>4 DEF NewsNames
  <2>6. ASSUME NEW c \in Clients, call[c].pc # "idle", Makes(call[c].a), ops[id].key = KeyOf(c),
               ops'[id].st = "done"
        PROVE  Fresh(c, ops'[id].rep.uid)
    <3>1. Makes(ops[id].key)
      BY <2>6 DEF Makes, KeyOf, incarnationKey
    <3>2. /\ ops'[id].rep = Written(ops[id].wire) /\ FenceHolds(ops[id].wire)
          /\ Perform(id, ops[id].key, ops[id].wire)
      BY <2>3, <2>6, <3>1 DEF Commits
    <3>3. Fresh(c, Written(ops[id].wire).uid)
      BY <1>t, <2>1, <2>6, <3>2, WrittenIsFresh
    <3> QED  BY <3>2, <3>3
  <2>7. NewsIsFresh'
    BY <1>t, <2>1, <2>6, NewsStaysFresh
  <2> QED  BY <2>2, <2>5, <2>7 DEF FreshInv
<1> QED  BY <1>1, <1>2, <1>3, HostFrame

\* If the Host retires a record with the incarnation it reports, a create or an
\* adoption never returns an incarnation that was dead when the call was made.
THEOREM CreateReturnsNoGhostAlways ==
  ASSUME RetireRecords  PROVE Spec => []CreateReturnsNoGhost
<1>1. Init => FreshInv
  <2> SUFFICES ASSUME Init PROVE FreshInv
    OBVIOUS
  <2>1. /\ records = {}
        /\ \A id \in 1..MaxCalls : ops[id].st = "none"
        /\ \A c \in Clients : call[c].pc = "idle" /\ call[c].a.op = "observe"
    BY NothingDeleted DEF Init, NoOperation
  <2> QED  BY <2>1 DEF FreshInv, NameIsFresh, NewsIsFresh, NewsNames, Makes
<1>2. ASSUME TypeInv, CleanInv, GoneInv, FreshInv, [Next]_vars  PROVE FreshInv'
  <2>1. CASE UNCHANGED vars
    BY <1>2, <2>1 DEF vars, FreshInv, NameIsFresh, NewsIsFresh, NewsNames, Fresh, Returned
  <2> QED  BY <1>2, <2>1, ClientKeepsFresh, HostKeepsFresh DEF Next
<1>3. FreshInv => CreateReturnsNoGhost
  BY DEF FreshInv, NewsIsFresh, CreateReturnsNoGhost, Makes, Fresh
<1> QED
  BY <1>1, <1>2, <1>3, TypesInductive, CleanInductive, GoneInductive, PTL DEF Spec

=============================================================================
