------------------------ MODULE ArtifactUploadProofs ------------------------
(***************************************************************************)
(* What UploadArtifact may be trusted with, for any number of clients,     *)
(* blobs, manifests, sessions and retries.  The argument: a start is keyed *)
(* by a nonce of its own call, so the session and the missing blobs it is  *)
(* answered with, even by a record, are of this call; a commit is keyed by *)
(* the session, and what was committed in a session that was still open    *)
(* during the call was committed during the call.                          *)
(***************************************************************************)
EXTENDS ArtifactUpload, TLAPS

\* Session s was committed: by an Operation, or in an answer the Host replays.
Settled(s) ==
  \/ sess[s].op = "done"
  \/ \E rec \in records :
       rec.key.step = "commit" /\ rec.key.session = s /\ rec.ans.kind = "committed"

\* What call c may conclude of a session s the Host handed out in it, with the blobs
\* missing then.
Trusts(c, s, missing) ==
  /\ Settled(s) => sess[s].m \subseteq seen[c].committed
  /\ missing \subseteq seen[c].absent
  /\ ~seen[c].lost => \A m \in sess[s].m : BlobsOf[m] \ missing \subseteq stored

Known(s) == s # 0 /\ sess[s].st # "none"

\* The Host: one manifest a session, an open session that was committed still is,
\* and whoever is in a call has seen what is committed and what is absent.
HostOK ==
  /\ \A s \in 1..MaxSessions :
       /\ sess[s].st # "none" => \E m \in Manifests : sess[s].m = {m}
       /\ sess[s].st = "none" => sess[s].op = "none"
       /\ sess[s].st = "open" /\ Settled(s) => sess[s].m \subseteq committed
  /\ \A c \in Clients :
       /\ committed \subseteq seen[c].committed
       /\ call[c].pc # "idle" => Blobs \ stored \subseteq seen[c].absent

\* A call k of client c.
CallOK(c, k) ==
  /\ k.id < nextCall
  /\ k.pc = "blobs" => k.step \in {"start", "put"}
  /\ k.pc = "poll" => k.step = "commit"
  /\ k.pc = "blobs" \/ k.step \in {"put", "commit", "abandon"} => k.session # 0
  /\ k.session # 0 => Known(k.session)
  /\ k.step # "abandon" /\ k.session # 0 => Trusts(c, k.session, k.missing)
  /\ k.step = "commit" => k.missing = {}
  /\ k.step # "abandon" /\ k.out = "ok" => k.m \in seen[c].committed
  /\ k.out = "unprovided" => k.blob \subseteq seen[c].absent
  /\ k.out = "missing" => seen[c].lost

\* An answer on its way to call k of client c.
InboxOK(c, k, ans) ==
  /\ ans.kind # "none" => k.pc = "wait"
  /\ ans.kind = "session" =>
       k.step = "start" /\ Known(ans.session) /\ Trusts(c, ans.session, ans.missing)
  /\ ans.kind = "stored" => k.step = "put" /\ (~seen[c].lost => k.blob \subseteq stored)
  /\ ans.kind = "committed" => k.step = "commit" /\ ans.m \subseteq seen[c].committed
  /\ ans.kind = "accepted" => k.step = "commit"
  /\ ans.kind = "abandoned" => k.step = "abandon"
  /\ ans.kind = "missing" => seen[c].lost

\* A request of call k of its client, or of an earlier one.
Sent(r, k) ==
  r.call = k.id =>
    (k.step = "start" => r.step = "start") /\ (r.step # "start" => r.session = k.session)

NetOK(r) ==
  /\ r.call < nextCall
  /\ r.key.step = r.step
  /\ r.step = "start" => r.key.nonce = r.call
  /\ r.step # "start" => r.key.session = r.session /\ Known(r.session)

\* A recorded answer.
RecordOK(rec) ==
  /\ rec.key.step = "start" =>
       /\ rec.ans.kind = "session" /\ rec.key.nonce < nextCall /\ Known(rec.ans.session)
       /\ \A c \in Clients : call[c].pc # "idle" /\ call[c].id = rec.key.nonce
            => Trusts(c, rec.ans.session, rec.ans.missing)
  /\ rec.key.step = "commit" =>
       /\ Known(rec.key.session) /\ rec.ans.kind \in {"committed", "accepted"}
       /\ rec.ans.kind = "committed" => rec.ans.m = sess[rec.key.session].m
  /\ rec.key.step = "abandon" => rec.ans.kind = "abandoned"

UploadInv ==
  /\ TypeOK /\ HostOK
  /\ \A c \in Clients : CallOK(c, call[c]) /\ InboxOK(c, call[c], inbox[c])
  /\ \A r \in net : NetOK(r) /\ Sent(r, call[r.client])
  /\ \A rec \in records : RecordOK(rec)

-----------------------------------------------------------------------------
(* Types.                                                                    *)

\* The answers the Host makes: of one kind and nothing else,
LEMMA AnswersTyped ==
  /\ NoAnswer \in Answer
  /\ \A k \in {"stored", "accepted", "abandoned", "missing", "notfound", "retry"} :
       Plain(k) \in Answer /\ Plain(k).kind = k
<1>1. 0 \in Session
  BY UploadBoundsAssumption DEF Session
<1>2. NoAnswer \in Answer
  BY <1>1 DEF NoAnswer, Answer
<1> QED
  BY <1>1, <1>2 DEF Plain, NoAnswer, Answer

\* the digest of a commit,
CommittedAnswer(ms) == [NoAnswer EXCEPT !.kind = "committed", !.m = ms]

\* Such an answer is an answer.
LEMMA CommittedTyped ==
  ASSUME NEW ms \in SUBSET Manifests, NEW ans, ans = CommittedAnswer(ms)
  PROVE ans \in Answer /\ ans.kind = "committed" /\ ans.m = ms
<1>1. 0 \in Session
  BY UploadBoundsAssumption DEF Session
<1> QED
  BY <1>1 DEF CommittedAnswer, NoAnswer, Answer

\* a session with its missing blobs.
SessionAnswer(s, bs) == [NoAnswer EXCEPT !.kind = "session", !.session = s, !.missing = bs]

\* Such an answer is an answer.
LEMMA SessionTyped ==
  ASSUME NEW s \in 1..MaxSessions, NEW bs \in SUBSET Blobs, NEW ans, ans = SessionAnswer(s, bs)
  PROVE ans \in Answer /\ ans.kind = "session" /\ ans.session = s /\ ans.missing = bs
<1>1. s \in Session
  BY UploadBoundsAssumption DEF Session
<1> QED
  BY <1>1 DEF SessionAnswer, NoAnswer, Answer

\* Only the caller that still waits on this attempt hears of it.
LEMMA DeliverFacts ==
  ASSUME TypeOK, NEW r \in net, NEW ans \in Answer, Deliver(r, ans)
  PROVE /\ inbox' \in [Clients -> Answer]
        /\ \A c \in Clients :
             \/ inbox'[c] = inbox[c]
             \/ /\ c = r.client /\ inbox'[c] = ans /\ call[c].pc = "wait"
                /\ call[c].id = r.call /\ call[c].step = r.step /\ call[c].blob = r.blob
<1>1. r.client \in Clients /\ inbox \in [Clients -> Answer]
  BY DEF TypeOK, Request
<1> QED
  BY <1>1 DEF Deliver

\* The parts of the state, each with its type.
LEMMA StateTyped ==
  ASSUME TypeOK
  PROVE /\ call \in [Clients -> CallState] /\ inbox \in [Clients -> Answer]
        /\ sess \in [1..MaxSessions -> SessionState]
        /\ \A c \in Clients : call[c] \in CallState /\ inbox[c] \in Answer
        /\ \A s \in 1..MaxSessions : sess[s] \in SessionState /\ sess[s].m \subseteq Manifests
        /\ \A r \in net : r \in Request /\ r.client \in Clients /\ r.key \in Key
        /\ \A rec \in records : rec.key \in Key /\ rec.ans \in Answer
        /\ nextCall \in Nat /\ MaxCalls \in Nat /\ MaxSessions \in Nat
BY UploadBoundsAssumption DEF TypeOK, SessionState, Request

-----------------------------------------------------------------------------
(* A step of the Host.                                                       *)

\* Sessions keep their manifest, histories grow, blobs are kept or their loss is
\* noticed, and what is settled now was settled before or is noticed.
Frame ==
  /\ UNCHANGED <<call, nextCall>> /\ net' \subseteq net
  /\ \A s \in 1..MaxSessions :
       sess[s].st # "none" => sess'[s].st # "none" /\ sess'[s].m = sess[s].m
  /\ \A c \in Clients :
       /\ seen[c].committed \subseteq seen'[c].committed
       /\ seen[c].absent \subseteq seen'[c].absent
       /\ seen[c].lost => seen'[c].lost
       /\ ~seen'[c].lost => stored \subseteq stored'
       /\ \A s \in 1..MaxSessions :
            sess[s].st # "none" /\ Settled(s)'
              => Settled(s) \/ sess[s].m \subseteq seen'[c].committed

\* A session a call has heard of is one of the Host's.
LEMMA KnownInRange ==
  ASSUME NEW s \in Session, Known(s)
  PROVE s \in 1..MaxSessions
BY UploadBoundsAssumption DEF Session, Known

\* What a call concluded of a session stays true.
LEMMA TrustKept ==
  ASSUME Frame, NEW c \in Clients, NEW s \in Session, NEW missing, Known(s),
         Trusts(c, s, missing)
  PROVE Known(s)' /\ Trusts(c, s, missing)'
<1>1. s \in 1..MaxSessions /\ sess[s].st # "none"
  BY KnownInRange DEF Known
<1>2. sess'[s].st # "none" /\ sess'[s].m = sess[s].m
  BY <1>1 DEF Frame
<1>3. /\ seen[c].committed \subseteq seen'[c].committed
      /\ seen[c].absent \subseteq seen'[c].absent
      /\ seen[c].lost => seen'[c].lost
      /\ ~seen'[c].lost => stored \subseteq stored'
      /\ Settled(s)' => Settled(s) \/ sess[s].m \subseteq seen'[c].committed
  BY <1>1 DEF Frame
<1>4. Settled(s)' => sess'[s].m \subseteq seen'[c].committed
  BY <1>2, <1>3 DEF Trusts
<1>5. missing \subseteq seen'[c].absent
  BY <1>3 DEF Trusts
<1>6. ~seen'[c].lost => \A m \in sess'[s].m : BlobsOf[m] \ missing \subseteq stored'
  BY <1>2, <1>3 DEF Trusts
<1>7. Known(s)'
  BY <1>1, <1>2 DEF Known
<1> HIDE DEF Settled
<1> QED
  BY <1>4, <1>5, <1>6, <1>7 DEF Trusts

\* So a step of the Host keeps the invariant when what it changed is right: its own
\* state, the one answer it gave and the record it made.
LEMMA HostMove ==
  ASSUME UploadInv, Frame, TypeOK', HostOK',
         \A c \in Clients : inbox'[c] = inbox[c] \/ InboxOK(c, call[c], inbox[c])',
         \A rec \in records' : rec \in records \/ RecordOK(rec)'
  PROVE UploadInv'
<1>1. /\ TypeOK /\ UNCHANGED <<call, nextCall>> /\ net' \subseteq net
      /\ \A c \in Clients : CallOK(c, call[c]) /\ InboxOK(c, call[c], inbox[c])
      /\ \A r \in net : NetOK(r) /\ Sent(r, call[r.client])
      /\ \A rec \in records : RecordOK(rec)
  BY DEF UploadInv, Frame
<1>2. \A c \in Clients :
        /\ seen[c].committed \subseteq seen'[c].committed
        /\ seen[c].absent \subseteq seen'[c].absent
        /\ seen[c].lost => seen'[c].lost
        /\ ~seen'[c].lost => stored \subseteq stored'
  BY DEF Frame
<1>3. ASSUME NEW s \in Session, Known(s) PROVE Known(s)' /\ sess'[s].m = sess[s].m
  BY <1>3, KnownInRange DEF Frame, Known
<1>4. ASSUME NEW c \in Clients PROVE CallOK(c, call[c])'
  <2> DEFINE k == call[c]
  <2>1. k \in CallState /\ k.session \in Session /\ k' = k /\ CallOK(c, k)
    BY <1>1, StateTyped DEF CallState
  <2>2. k.session # 0 => Known(k.session)'
    BY <1>3, <2>1 DEF CallOK
  <2>3. k.step # "abandon" /\ k.session # 0 => Trusts(c, k.session, k.missing)'
    BY <2>1, TrustKept DEF CallOK
  <2> QED
    BY <1>1, <1>2, <2>1, <2>2, <2>3 DEF CallOK
<1>5. ASSUME NEW c \in Clients PROVE InboxOK(c, call[c], inbox[c])'
  <2>1. CASE InboxOK(c, call[c], inbox[c])'
    BY <2>1
  <2>2. CASE inbox'[c] = inbox[c]
    <3>1. PICK ans \in Answer : ans = inbox[c] /\ InboxOK(c, call[c], ans)
      BY <1>1, StateTyped
    <3>2. ans.session \in Session
      BY DEF Answer
    <3>3. ans.kind = "session" => Known(ans.session)' /\ Trusts(c, ans.session, ans.missing)'
      BY <3>1, <3>2, TrustKept DEF InboxOK
    <3>4. InboxOK(c, call[c], ans)'
      BY <1>1, <1>2, <3>1, <3>3 DEF InboxOK
    <3> QED
      BY <2>2, <3>1, <3>4
  <2> QED
    BY <2>1, <2>2
<1>6. ASSUME NEW r \in net' PROVE NetOK(r)' /\ Sent(r, call[r.client])'
  <2>1. r \in net /\ NetOK(r) /\ Sent(r, call[r.client]) /\ r.session \in Session
    BY <1>1, <1>6, StateTyped DEF Request
  <2>2. r.step # "start" => Known(r.session)'
    BY <1>3, <2>1 DEF NetOK
  <2> QED
    BY <1>1, <2>1, <2>2 DEF NetOK, Sent
<1>7. ASSUME NEW rec \in records' PROVE RecordOK(rec)'
  <2>1. CASE rec \in records
    <3>1. RecordOK(rec) /\ rec.key.session \in Session /\ rec.ans.session \in Session
      BY <1>1, <2>1, StateTyped DEF Key, Answer
    <3>2. rec.key.step = "start" =>
            /\ Known(rec.ans.session)'
            /\ \A c \in Clients : call[c].pc # "idle" /\ call[c].id = rec.key.nonce
                 => Trusts(c, rec.ans.session, rec.ans.missing)'
      <4>1. rec.key.step = "start" => Known(rec.ans.session)
        BY <3>1 DEF RecordOK
      <4>2. rec.key.step = "start" =>
              \A c \in Clients : call[c].pc # "idle" /\ call[c].id = rec.key.nonce
                => Trusts(c, rec.ans.session, rec.ans.missing)
        BY <3>1 DEF RecordOK
      <4> QED
        BY <1>3, <3>1, <4>1, <4>2, TrustKept
    <3>3. rec.key.step = "commit" =>
            Known(rec.key.session)' /\ sess'[rec.key.session].m = sess[rec.key.session].m
      BY <1>3, <3>1 DEF RecordOK
    <3> QED
      BY <1>1, <3>1, <3>2, <3>3 DEF RecordOK
  <2> QED
    BY <1>7, <2>1
<1> QED
  BY <1>4, <1>5, <1>6, <1>7 DEF UploadInv

\* Who hears of an answer, and what the invariant says of its call.
LEMMA Hearer ==
  ASSUME UploadInv, NEW r \in net, NEW ans \in Answer, Deliver(r, ans)
  PROVE /\ inbox' \in [Clients -> Answer]
        /\ \A c \in Clients :
             \/ inbox'[c] = inbox[c]
             \/ /\ inbox'[c] = ans /\ call[c].pc = "wait" /\ call[c].id = r.call
                /\ call[c].step = r.step /\ call[c].blob = r.blob /\ CallOK(c, call[c])
                /\ r.step # "start" => r.session = call[c].session
<1>1. TypeOK /\ Sent(r, call[r.client]) /\ \A c \in Clients : CallOK(c, call[c])
  BY DEF UploadInv
<1>2. /\ inbox' \in [Clients -> Answer]
      /\ \A c \in Clients :
           \/ inbox'[c] = inbox[c]
           \/ /\ c = r.client /\ inbox'[c] = ans /\ call[c].pc = "wait"
              /\ call[c].id = r.call /\ call[c].step = r.step /\ call[c].blob = r.blob
  BY <1>1, DeliverFacts
<1> QED
  BY <1>1, <1>2 DEF Sent

\* What the invariant says of a request and of the Host.
LEMMA RequestFacts ==
  ASSUME UploadInv, NEW r \in net
  PROVE /\ TypeOK /\ HostOK /\ NetOK(r) /\ r \in Request /\ r.client \in Clients
        /\ r.m \in Manifests /\ r.blob \subseteq Blobs /\ r.key \in Key /\ r.call \in Nat
        /\ r.step # "start" => r.session \in 1..MaxSessions /\ sess[r.session].st # "none"
<1>1. /\ TypeOK /\ HostOK /\ NetOK(r) /\ r \in Request /\ r.client \in Clients
      /\ r.m \in Manifests /\ r.blob \subseteq Blobs /\ r.key \in Key /\ r.session \in Session
      /\ r.call \in CallId
  BY StateTyped DEF UploadInv, Request
<1>2. r.call \in Nat
  BY <1>1 DEF CallId
<1>3. r.step # "start" => r.session \in 1..MaxSessions /\ sess[r.session].st # "none"
  BY <1>1, KnownInRange DEF NetOK, Known
<1> QED
  BY <1>1, <1>2, <1>3

\* A request that is consumed, with an answer, and changes nothing at the Host.
LEMMA QuietHost ==
  ASSUME UploadInv, NEW r \in net, NEW ans \in Answer, Deliver(r, ans), Consume(r),
         UNCHANGED hostVars,
         \A c \in Clients :
           call[c].pc = "wait" /\ call[c].id = r.call /\ call[c].step = r.step
           /\ call[c].blob = r.blob /\ CallOK(c, call[c])
           /\ (r.step # "start" => r.session = call[c].session)
             => InboxOK(c, call[c], ans)
  PROVE UploadInv'
<1>1. UNCHANGED <<stored, committed, sess, records, seen, call, nextCall>> /\ net' = net \ {r}
  BY DEF hostVars, Consume
<1>2. Frame
  <2>1. \A s : Settled(s)' <=> Settled(s)
    BY <1>1 DEF Settled
  <2> QED
    BY <1>1, <2>1 DEF Frame
<1>3. HostOK'
  <2>1. \A s : Settled(s)' <=> Settled(s)
    BY <1>1 DEF Settled
  <2> QED
    BY <1>1, <2>1 DEF UploadInv, HostOK
<1>4. inbox' \in [Clients -> Answer]
  BY Hearer
<1>5. TypeOK'
  BY <1>1, <1>4 DEF UploadInv, TypeOK
<1>6. ASSUME NEW c \in Clients PROVE inbox'[c] = inbox[c] \/ InboxOK(c, call[c], inbox[c])'
  <2>1. CASE inbox'[c] = inbox[c]
    BY <2>1
  <2>2. CASE inbox'[c] # inbox[c]
    <3>1. inbox'[c] = ans /\ InboxOK(c, call[c], ans)
      BY <2>2, Hearer
    <3>2. \A s : Settled(s)' <=> Settled(s)
      BY <1>1 DEF Settled
    <3>3. InboxOK(c, call[c], ans)'
      BY <1>1, <3>1, <3>2 DEF InboxOK, Trusts, Known
    <3> QED
      BY <3>1, <3>3
  <2> QED
    BY <2>1, <2>2
<1> QED
  BY <1>1, <1>2, <1>3, <1>5, <1>6, HostMove

\* The Host repeats an answer it has recorded: a start's, of this very call; a
\* commit's, of a session that was still open in this call.
LEMMA ReplayStep ==
  ASSUME UploadInv, NEW r \in net, HostReplay(r)
  PROVE UploadInv'
<1>1. PICK rec \in Recorded(r) : Deliver(r, rec.ans)
  BY DEF HostReplay
<1>2. /\ rec \in records /\ rec.key = r.key /\ rec.key.step = r.step /\ r.step \in Keyed
      /\ RecordOK(rec) /\ rec.ans \in Answer
  BY <1>1, RequestFacts, StateTyped DEF Recorded, UploadInv, NetOK
<1>3. ASSUME NEW c \in Clients, call[c].pc = "wait", call[c].id = r.call, call[c].step = r.step,
             CallOK(c, call[c]), r.step # "start" => r.session = call[c].session
      PROVE InboxOK(c, call[c], rec.ans)
  <2>1. CASE r.step = "start"
    <3>1. rec.ans.kind = "session" /\ Known(rec.ans.session) /\ rec.key.nonce = call[c].id
      BY <1>2, <1>3, <2>1, RequestFacts DEF RecordOK, NetOK
    <3>2. Trusts(c, rec.ans.session, rec.ans.missing)
      BY <1>2, <1>3, <2>1, <3>1 DEF RecordOK
    <3> QED
      BY <1>3, <2>1, <3>1, <3>2 DEF InboxOK
  <2>2. CASE r.step = "commit"
    <3>1. rec.key.session = call[c].session /\ call[c].session # 0
      BY <1>2, <1>3, <2>2, RequestFacts DEF NetOK, CallOK
    <3>2. rec.ans.kind \in {"committed", "accepted"}
      BY <1>2, <2>2 DEF RecordOK
    <3>3. rec.ans.kind = "committed" => rec.ans.m \subseteq seen[c].committed
      <4>1. rec.ans.kind = "committed" => Settled(call[c].session)
        BY <1>2, <2>2, <3>1 DEF Settled
      <4>2. rec.ans.kind = "committed" => rec.ans.m = sess[call[c].session].m
        BY <1>2, <2>2, <3>1 DEF RecordOK
      <4>3. Trusts(c, call[c].session, call[c].missing)
        BY <1>3, <2>2, <3>1 DEF CallOK
      <4> QED
        BY <4>1, <4>2, <4>3 DEF Trusts
    <3> QED
      BY <1>3, <2>2, <3>2, <3>3 DEF InboxOK
  <2>3. CASE r.step = "abandon"
    <3>1. rec.ans.kind = "abandoned"
      BY <1>2, <2>3 DEF RecordOK
    <3> QED
      BY <1>3, <2>3, <3>1 DEF InboxOK
  <2> QED
    BY <1>2, <2>1, <2>2, <2>3 DEF Keyed, Step
<1> QED
  BY <1>1, <1>2, <1>3, QuietHost DEF HostReplay

\* The Host asks for another attempt.
LEMMA BusyStep ==
  ASSUME UploadInv, NEW r \in net, HostBusy(r)
  PROVE UploadInv'
<1>1. Plain("retry") \in Answer /\ Plain("retry").kind = "retry"
  BY AnswersTyped
<1>2. \A c \in Clients : call[c].pc = "wait" => InboxOK(c, call[c], Plain("retry"))
  BY <1>1 DEF InboxOK
<1> QED
  BY <1>1, <1>2, QuietHost DEF HostBusy

\* A start: whatever session it is, the calls it may be for can trust the answer.
LEMMA StartStep ==
  ASSUME UploadInv, NEW r \in net, HostStart(r)
  PROVE UploadInv'
<1>1. /\ r.step = "start" /\ UNCHANGED <<stored, committed, seen, call, nextCall>>
      /\ net' = net \ {r}
  BY DEF HostStart, Consume
<1>2. PICK s \in 1..MaxSessions :
        /\ \/ sess[s].st = "open" /\ UNCHANGED sess
           \/ /\ sess[s].st = "none"
              /\ sess' = [sess EXCEPT ![s] = [st |-> "open", m |-> {r.m}, op |-> "none"]]
        /\ \E m \in sess'[s].m :
             LET ans == [NoAnswer EXCEPT !.kind = "session", !.session = s,
                                         !.missing = BlobsOf[m] \ stored]
             IN Deliver(r, ans) /\ records' = records \cup {[key |-> r.key, ans |-> ans]}
  BY DEF HostStart
<1>3. PICK m \in sess'[s].m :
        LET ans == [NoAnswer EXCEPT !.kind = "session", !.session = s,
                                    !.missing = BlobsOf[m] \ stored]
        IN Deliver(r, ans) /\ records' = records \cup {[key |-> r.key, ans |-> ans]}
  BY <1>2
<1>4. /\ TypeOK /\ HostOK /\ NetOK(r) /\ r.m \in Manifests /\ r.key \in Key
      /\ sess \in [1..MaxSessions -> SessionState] /\ s # 0 /\ nextCall \in Nat
  BY RequestFacts, StateTyped
<1>5. /\ sess' \in [1..MaxSessions -> SessionState] /\ sess'[s].st = "open"
      /\ \A t \in 1..MaxSessions : sess[t].st # "none" => sess'[t] = sess[t]
      /\ \A t \in 1..MaxSessions : t # s => sess'[t] = sess[t]
      /\ \/ sess[s].st = "open" /\ sess'[s] = sess[s]
         \/ sess[s].st = "none" /\ sess'[s] = [st |-> "open", m |-> {r.m}, op |-> "none"]
  <2>1. [st |-> "open", m |-> {r.m}, op |-> "none"] \in SessionState
    BY <1>4 DEF SessionState
  <2>2. CASE sess[s].st = "open" /\ UNCHANGED sess
    BY <1>4, <2>2
  <2>3. CASE /\ sess[s].st = "none"
             /\ sess' = [sess EXCEPT ![s] = [st |-> "open", m |-> {r.m}, op |-> "none"]]
    <3>1. sess'[s] = [st |-> "open", m |-> {r.m}, op |-> "none"]
      BY <1>4, <2>3
    <3>2. \A t \in 1..MaxSessions : t # s => sess'[t] = sess[t]
      BY <1>4, <2>3
    <3>3. sess' \in [1..MaxSessions -> SessionState]
      BY <1>4, <2>1, <2>3
    <3> QED
      BY <2>3, <3>1, <3>2, <3>3
  <2> QED
    BY <1>2, <2>2, <2>3
<1>6. \E n \in Manifests : sess'[s].m = {n}
  BY <1>4, <1>5 DEF HostOK
<1>7. sess'[s].m = {m} /\ m \in Manifests /\ BlobsOf[m] \subseteq Blobs
  BY <1>3, <1>6, ManifestsAssumption
<1>8. PICK missing \in SUBSET Blobs : missing = BlobsOf[m] \ stored
  BY <1>7
<1>9. PICK ans : ans = SessionAnswer(s, missing)
  OBVIOUS
<1>10. /\ ans \in Answer /\ ans.kind = "session" /\ ans.session = s /\ ans.missing = missing
       /\ Deliver(r, ans) /\ records' = records \cup {[key |-> r.key, ans |-> ans]}
  <2>1. ans \in Answer /\ ans.kind = "session" /\ ans.session = s /\ ans.missing = missing
    BY <1>9, SessionTyped
  <2>2. Deliver(r, ans) /\ records' = records \cup {[key |-> r.key, ans |-> ans]}
    BY <1>3, <1>8, <1>9 DEF SessionAnswer
  <2> QED
    BY <2>1, <2>2
<1>11. \A t : (\E rec \in records' : rec.key.step = "commit" /\ rec.key.session = t
                                     /\ rec.ans.kind = "committed")
          <=> (\E rec \in records : rec.key.step = "commit" /\ rec.key.session = t
                                    /\ rec.ans.kind = "committed")
  BY <1>10
<1>12. \A t \in 1..MaxSessions : sess[t].st # "none" => (Settled(t)' <=> Settled(t))
  BY <1>5, <1>11 DEF Settled
<1>13. sess[s].st = "none" => ~Settled(s)'
  <2>1. ASSUME sess[s].st = "none", NEW rec \in records, rec.key.step = "commit",
               rec.key.session = s
        PROVE FALSE
    BY <2>1 DEF UploadInv, RecordOK, Known
  <2> QED
    BY <1>5, <1>11, <2>1 DEF Settled
<1>14. Settled(s)' => sess'[s].m \subseteq committed
  BY <1>4, <1>5, <1>12, <1>13 DEF HostOK
<1>15. Frame
  BY <1>1, <1>5, <1>12 DEF Frame
<1>16. HostOK'
  <2>1. \A t \in 1..MaxSessions :
          /\ sess'[t].st # "none" => \E n \in Manifests : sess'[t].m = {n}
          /\ sess'[t].st = "none" => sess'[t].op = "none"
    BY <1>4, <1>5, <1>6 DEF HostOK
  <2>2. ASSUME NEW t \in 1..MaxSessions, sess'[t].st = "open", Settled(t)'
        PROVE sess'[t].m \subseteq committed
    BY <1>4, <1>5, <1>12, <1>14, <2>2 DEF HostOK
  <2> QED
    BY <1>1, <1>4, <2>1, <2>2 DEF HostOK
<1>17. ASSUME NEW c \in Clients, call[c].pc # "idle" PROVE Trusts(c, s, missing)' /\ Known(s)'
  <2>1. Settled(s)' => sess'[s].m \subseteq seen'[c].committed
    BY <1>1, <1>4, <1>14 DEF HostOK
  <2>2. missing \subseteq seen'[c].absent
    BY <1>1, <1>4, <1>8, <1>17 DEF HostOK
  <2>3. \A n \in sess'[s].m : BlobsOf[n] \ missing \subseteq stored'
    BY <1>1, <1>7, <1>8
  <2>4. Trusts(c, s, missing)'
    BY <2>1, <2>2, <2>3 DEF Trusts
  <2> QED
    BY <1>4, <1>5, <2>4 DEF Known
<1>18. ASSUME NEW c \in Clients PROVE inbox'[c] = inbox[c] \/ InboxOK(c, call[c], inbox[c])'
  <2>1. CASE inbox'[c] = inbox[c]
    BY <2>1
  <2>2. CASE inbox'[c] # inbox[c]
    <3>1. inbox'[c] = ans /\ call[c].pc = "wait" /\ call[c].step = "start"
      BY <1>1, <1>10, <2>2, Hearer
    <3>2. Trusts(c, s, missing)' /\ Known(s)'
      BY <1>17, <3>1
    <3>3. InboxOK(c, call[c], ans)'
      BY <1>1, <1>10, <3>1, <3>2 DEF InboxOK
    <3> QED
      BY <3>1, <3>3
  <2> QED
    BY <2>1, <2>2
<1>19. TypeOK'
  <2>1. [key |-> r.key, ans |-> ans] \in [key : Key, ans : Answer]
    BY <1>4, <1>10
  <2>2. records' \subseteq [key : Key, ans : Answer]
    BY <1>10, <1>4, <2>1 DEF TypeOK
  <2>3. inbox' \in [Clients -> Answer]
    BY <1>10, Hearer
  <2> QED
    BY <1>1, <1>4, <1>5, <2>2, <2>3 DEF TypeOK
<1>20. ASSUME NEW rec \in records' PROVE rec \in records \/ RecordOK(rec)'
  <2>1. CASE rec \in records
    BY <2>1
  <2>2. CASE rec \notin records
    <3>1. rec.key = r.key /\ rec.ans = ans
      BY <1>10, <2>2
    <3>2. rec.key.step = "start" /\ rec.key.nonce < nextCall
      BY <1>1, <1>4, <3>1 DEF NetOK
    <3>3. Known(s)'
      BY <1>4, <1>5 DEF Known
    <3>4. \A c \in Clients : call[c].pc # "idle" => Trusts(c, s, missing)'
      BY <1>17
    <3> QED
      BY <1>1, <1>10, <3>1, <3>2, <3>3, <3>4 DEF RecordOK
  <2> QED
    BY <2>1, <2>2
<1> QED
  BY <1>15, <1>16, <1>18, <1>19, <1>20, HostMove

\* A blob arrives.
LEMMA PutStep ==
  ASSUME UploadInv, NEW r \in net, HostPut(r)
  PROVE UploadInv'
<1>1. /\ r.step = "put" /\ UNCHANGED <<committed, sess, records, seen, call, nextCall>>
      /\ net' = net \ {r}
  BY DEF HostPut, Consume
<1>2. PICK ans : /\ \/ ans = Plain("stored") /\ stored' = stored \cup r.blob
                    \/ ans = Plain("notfound") /\ stored' = stored
                 /\ Deliver(r, ans)
  <2>1. CASE sess[r.session].st = "open"
    <3>1. PICK a : a = Plain("stored")
      OBVIOUS
    <3>2. stored' = stored \cup r.blob /\ Deliver(r, a)
      BY <2>1, <3>1 DEF HostPut
    <3> QED
      BY <3>1, <3>2
  <2>2. CASE sess[r.session].st # "open"
    <3>1. PICK a : a = Plain("notfound")
      OBVIOUS
    <3>2. stored' = stored /\ Deliver(r, a)
      BY <2>2, <3>1 DEF HostPut
    <3> QED
      BY <3>1, <3>2
  <2> QED
    BY <2>1, <2>2
<1>3. /\ ans \in Answer /\ ans.kind \in {"stored", "notfound"}
      /\ ans.kind = "stored" => r.blob \subseteq stored'
  <2>1. /\ Plain("stored") \in Answer /\ Plain("stored").kind = "stored"
        /\ Plain("notfound") \in Answer /\ Plain("notfound").kind = "notfound"
    BY AnswersTyped
  <2> QED
    BY <1>2, <2>1
<1>4. stored \subseteq stored' /\ stored' \subseteq Blobs
  BY <1>2, RequestFacts DEF TypeOK
<1>5. \A s : Settled(s)' <=> Settled(s)
  BY <1>1 DEF Settled
<1>6. Frame
  BY <1>1, <1>4, <1>5 DEF Frame
<1>7. HostOK'
  BY <1>1, <1>4, <1>5 DEF UploadInv, HostOK
<1>8. inbox' \in [Clients -> Answer]
  BY <1>2, <1>3, Hearer
<1>9. TypeOK'
  BY <1>1, <1>4, <1>8 DEF UploadInv, TypeOK
<1>10. ASSUME NEW c \in Clients PROVE inbox'[c] = inbox[c] \/ InboxOK(c, call[c], inbox[c])'
  <2>1. CASE inbox'[c] = inbox[c]
    BY <2>1
  <2>2. CASE inbox'[c] # inbox[c]
    <3>1. /\ inbox'[c] = ans /\ call[c].pc = "wait" /\ call[c].step = "put"
          /\ call[c].blob = r.blob
      BY <1>1, <1>2, <1>3, <2>2, Hearer
    <3>2. InboxOK(c, call[c], ans)'
      BY <1>1, <1>3, <3>1 DEF InboxOK
    <3> QED
      BY <3>1, <3>2
  <2> QED
    BY <2>1, <2>2
<1> QED
  BY <1>1, <1>6, <1>7, <1>9, <1>10, HostMove

\* A manifest is committed in a session that is open: everyone in a call sees it.
LEMMA CommitKeeps ==
  ASSUME UploadInv, NEW s \in 1..MaxSessions, sess[s].st = "open", Commit(sess[s].m),
         UNCHANGED <<stored, call, nextCall>>, net' \subseteq net,
         sess' \in [1..MaxSessions -> SessionState],
         \A t \in 1..MaxSessions : sess'[t].st = sess[t].st /\ sess'[t].m = sess[t].m
                                   /\ (t # s => sess'[t].op = sess[t].op),
         \A t \in 1..MaxSessions : t # s => (Settled(t)' <=> Settled(t))
  PROVE /\ Frame /\ HostOK' /\ committed' \subseteq Manifests
        /\ seen' \in [Clients -> [absent : SUBSET Blobs, committed : SUBSET Manifests,
                                  lost : BOOLEAN]]
        /\ \A c \in Clients : sess[s].m \subseteq seen'[c].committed
<1>1. TypeOK /\ HostOK /\ sess[s].m \subseteq Manifests
  BY StateTyped DEF UploadInv
<1>2. seen \in [Clients -> [absent : SUBSET Blobs, committed : SUBSET Manifests, lost : BOOLEAN]]
  BY <1>1 DEF TypeOK
<1>3. seen' = [c \in Clients |-> [seen[c] EXCEPT !.committed = @ \cup sess[s].m]]
  BY DEF Commit
<1>4. /\ seen' \in [Clients -> [absent : SUBSET Blobs, committed : SUBSET Manifests,
                                lost : BOOLEAN]]
      /\ \A c \in Clients :
           /\ seen'[c].committed = seen[c].committed \cup sess[s].m
           /\ seen'[c].absent = seen[c].absent /\ seen'[c].lost = seen[c].lost
  BY <1>1, <1>2, <1>3
<1>5. committed' = committed \cup sess[s].m
  BY DEF Commit
<1>6. Frame
  BY <1>4 DEF Frame
<1>7. HostOK'
  <2>1. \A t \in 1..MaxSessions :
          /\ sess'[t].st # "none" => \E m \in Manifests : sess'[t].m = {m}
          /\ sess'[t].st = "none" => sess'[t].op = "none"
    BY <1>1 DEF HostOK
  <2>2. \A t \in 1..MaxSessions : sess'[t].st = "open" /\ Settled(t)' => sess'[t].m \subseteq committed'
    BY <1>1, <1>5 DEF HostOK
  <2>3. \A c \in Clients :
          /\ committed' \subseteq seen'[c].committed
          /\ call'[c].pc # "idle" => Blobs \ stored' \subseteq seen'[c].absent
    BY <1>1, <1>4, <1>5 DEF HostOK
  <2> QED
    BY <2>1, <2>2, <2>3 DEF HostOK
<1> QED
  BY <1>1, <1>4, <1>5, <1>6, <1>7 DEF TypeOK

\* A direct commit.
LEMMA CommitStep ==
  ASSUME UploadInv, NEW r \in net, HostCommit(r)
  PROVE UploadInv'
<1> DEFINE s == r.session
<1>1. /\ r.step = "commit" /\ UNCHANGED <<stored, sess, call, nextCall>> /\ net' = net \ {r}
  BY DEF HostCommit, Consume
<1>2. /\ s \in 1..MaxSessions /\ sess[s].st # "none" /\ TypeOK /\ HostOK /\ NetOK(r) /\ r.key \in Key
      /\ sess[s].m \subseteq Manifests /\ sess \in [1..MaxSessions -> SessionState]
  BY <1>1, RequestFacts, StateTyped
<1>3. PICK ans : ans = CommittedAnswer(sess[s].m)
  OBVIOUS
<1>4. ans \in Answer /\ ans.kind = "committed" /\ ans.m = sess[s].m
  BY <1>2, <1>3, CommittedTyped
<1>5. CASE sess[s].st = "open" /\ Complete(s)
  <2>1. /\ Commit(sess[s].m) /\ Deliver(r, ans)
        /\ records' = records \cup {[key |-> r.key, ans |-> ans]}
    BY <1>3, <1>5 DEF HostCommit, CommittedAnswer
  <2>2. r.key.step = "commit" /\ r.key.session = s
    BY <1>1, <1>2 DEF NetOK
  <2>3. \A t \in 1..MaxSessions : t # s => (Settled(t)' <=> Settled(t))
    BY <1>1, <2>1, <2>2 DEF Settled
  <2>4. /\ Frame /\ HostOK' /\ committed' \subseteq Manifests
        /\ seen' \in [Clients -> [absent : SUBSET Blobs, committed : SUBSET Manifests,
                                  lost : BOOLEAN]]
        /\ \A c \in Clients : sess[s].m \subseteq seen'[c].committed
    <3>1. net' \subseteq net
      BY <1>1
    <3> HIDE DEF s
    <3> QED
      BY <1>1, <1>2, <1>5, <2>1, <2>3, <3>1, CommitKeeps
  <2>5. TypeOK'
    <3>1. records' \subseteq [key : Key, ans : Answer]
      BY <1>2, <1>4, <2>1 DEF TypeOK
    <3>2. inbox' \in [Clients -> Answer]
      BY <1>4, <2>1, Hearer
    <3> QED
      BY <1>1, <1>2, <2>4, <3>1, <3>2 DEF TypeOK
  <2>6. ASSUME NEW c \in Clients PROVE inbox'[c] = inbox[c] \/ InboxOK(c, call[c], inbox[c])'
    <3>1. CASE inbox'[c] # inbox[c]
      <4>1. inbox'[c] = ans /\ call[c].pc = "wait" /\ call[c].step = "commit"
        BY <1>1, <1>4, <2>1, <3>1, Hearer
      <4>2. InboxOK(c, call[c], ans)'
        BY <1>1, <1>4, <2>4, <4>1 DEF InboxOK
      <4> QED
        BY <4>1, <4>2
    <3> QED
      BY <3>1
  <2>7. ASSUME NEW rec \in records' PROVE rec \in records \/ RecordOK(rec)'
    <3>1. CASE rec \notin records
      <4>1. rec.key = r.key /\ rec.ans = ans
        BY <2>1, <3>1
      <4>2. Known(s) /\ Known(s)' /\ sess' = sess
        BY <1>1, <1>2 DEF Known
      <4> QED
        BY <1>1, <1>4, <2>2, <4>1, <4>2 DEF RecordOK
    <3> QED
      BY <3>1
  <2> QED
    BY <2>4, <2>5, <2>6, <2>7, HostMove
<1>6. CASE ~(sess[s].st = "open" /\ Complete(s))
  <2>1. PICK refusal : /\ refusal = Plain(IF sess[s].st = "open" THEN "missing" ELSE "notfound")
                       /\ Deliver(r, refusal) /\ UNCHANGED <<committed, seen, records>>
    BY <1>6 DEF HostCommit
  <2>2. /\ refusal \in Answer /\ refusal.kind \in {"missing", "notfound"}
        /\ refusal.kind = "missing" => ~Complete(s)
    <3>1. /\ Plain("missing") \in Answer /\ Plain("missing").kind = "missing"
          /\ Plain("notfound") \in Answer /\ Plain("notfound").kind = "notfound"
      BY AnswersTyped
    <3> QED
      BY <1>6, <2>1, <3>1
  <2>3. ASSUME NEW c \in Clients, call[c].pc = "wait", call[c].step = r.step, CallOK(c, call[c]),
               r.session = call[c].session
        PROVE InboxOK(c, call[c], refusal)
    <3>1. Trusts(c, s, {})
      BY <1>1, <2>3 DEF CallOK
    <3>2. ~Complete(s) => seen[c].lost
      BY <3>1 DEF Trusts, Complete
    <3> QED
      BY <2>2, <2>3, <3>2 DEF InboxOK
  <2> QED
    BY <1>1, <2>1, <2>2, <2>3, QuietHost DEF HostCommit, hostVars
<1> QED
  BY <1>5, <1>6

\* A commit that becomes an Operation.
LEMMA AcceptCommitStep ==
  ASSUME UploadInv, NEW r \in net, HostAcceptCommit(r)
  PROVE UploadInv'
<1> DEFINE s == r.session
<1>1. /\ r.step = "commit" /\ UNCHANGED <<stored, committed, seen, call, nextCall>>
      /\ net' = net \ {r} /\ sess[s].st = "open" /\ sess[s].op = "none"
      /\ sess' = [sess EXCEPT ![s].op = "pending"]
  BY DEF HostAcceptCommit, Consume
<1>2. /\ s \in 1..MaxSessions /\ TypeOK /\ HostOK /\ NetOK(r) /\ r.key \in Key
      /\ sess \in [1..MaxSessions -> SessionState]
  BY <1>1, RequestFacts, StateTyped
<1>3. PICK ans : ans = Plain("accepted") /\ ans \in Answer /\ ans.kind = "accepted"
  BY AnswersTyped
<1>4. Deliver(r, ans) /\ records' = records \cup {[key |-> r.key, ans |-> ans]}
  BY <1>3 DEF HostAcceptCommit
<1>5. /\ sess' \in [1..MaxSessions -> SessionState] /\ sess'[s].op = "pending"
      /\ \A t \in 1..MaxSessions :
           /\ sess'[t].st = sess[t].st /\ sess'[t].m = sess[t].m
           /\ t # s => sess'[t].op = sess[t].op
  BY <1>1, <1>2 DEF SessionState
<1>6. \A t \in 1..MaxSessions : Settled(t)' <=> Settled(t)
  BY <1>1, <1>3, <1>4, <1>5 DEF Settled
<1>7. Frame
  BY <1>1, <1>5, <1>6 DEF Frame
<1>8. HostOK'
  BY <1>1, <1>2, <1>5, <1>6 DEF HostOK
<1>9. TypeOK'
  <2>1. records' \subseteq [key : Key, ans : Answer]
    BY <1>2, <1>3, <1>4 DEF TypeOK
  <2>2. inbox' \in [Clients -> Answer]
    BY <1>3, <1>4, Hearer
  <2> QED
    BY <1>1, <1>2, <1>5, <2>1, <2>2 DEF TypeOK
<1>10. ASSUME NEW c \in Clients PROVE inbox'[c] = inbox[c] \/ InboxOK(c, call[c], inbox[c])'
  <2>1. CASE inbox'[c] # inbox[c]
    <3>1. inbox'[c] = ans /\ call[c].pc = "wait" /\ call[c].step = "commit"
      BY <1>1, <1>3, <1>4, <2>1, Hearer
    <3>2. InboxOK(c, call[c], ans)'
      BY <1>1, <1>3, <3>1 DEF InboxOK
    <3> QED
      BY <3>1, <3>2
  <2> QED
    BY <2>1
<1>11. ASSUME NEW rec \in records' PROVE rec \in records \/ RecordOK(rec)'
  <2>1. CASE rec \notin records
    <3>1. rec.key = r.key /\ rec.ans = ans /\ r.key.step = "commit" /\ r.key.session = s
      BY <1>1, <1>2, <1>4, <2>1 DEF NetOK
    <3>2. Known(s)'
      BY <1>1, <1>2, <1>5 DEF Known
    <3> HIDE DEF s
    <3> QED
      BY <1>1, <1>3, <3>1, <3>2 DEF RecordOK, Known
  <2> QED
    BY <2>1
<1> QED
  BY <1>7, <1>8, <1>9, <1>10, <1>11, HostMove

\* It ends.
LEMMA CommitOperationStep ==
  ASSUME UploadInv, NEW s \in 1..MaxSessions, HostCommitOperation(s)
  PROVE UploadInv'
<1>1. sess[s].op = "pending" /\ UNCHANGED <<stored, records, net, inbox, call, nextCall>>
  BY DEF HostCommitOperation
<1>2. TypeOK /\ HostOK /\ sess \in [1..MaxSessions -> SessionState]
  BY StateTyped DEF UploadInv
<1>3. PICK op \in {"done", "failed"} : sess' = [sess EXCEPT ![s].op = op]
  BY DEF HostCommitOperation
<1>4. /\ sess' \in [1..MaxSessions -> SessionState] /\ sess'[s].op = op
      /\ \A t \in 1..MaxSessions :
           /\ sess'[t].st = sess[t].st /\ sess'[t].m = sess[t].m
           /\ t # s => sess'[t].op = sess[t].op
  BY <1>2, <1>3 DEF SessionState
<1>5. \A t \in 1..MaxSessions : t # s => (Settled(t)' <=> Settled(t))
  BY <1>1, <1>4 DEF Settled
<1>6. /\ Frame /\ HostOK' /\ committed' \subseteq Manifests
      /\ seen' \in [Clients -> [absent : SUBSET Blobs, committed : SUBSET Manifests, lost : BOOLEAN]]
  <2>1. CASE sess[s].st = "open" /\ Complete(s)
    <3>1. Commit(sess[s].m)
      BY <2>1 DEF HostCommitOperation
    <3> QED
      BY <1>1, <1>4, <1>5, <2>1, <3>1, CommitKeeps
  <2>2. CASE ~(sess[s].st = "open" /\ Complete(s))
    <3>1. UNCHANGED <<committed, seen>> /\ sess' = [sess EXCEPT ![s].op = "failed"]
      BY <2>2 DEF HostCommitOperation
    <3>2. sess'[s].op = "failed"
      BY <1>2, <3>1
    <3>3. \A t \in 1..MaxSessions : Settled(t)' <=> Settled(t)
      BY <1>1, <1>4, <1>5, <3>2 DEF Settled
    <3>4. Frame
      BY <1>1, <1>4, <3>1, <3>3 DEF Frame
    <3>5. sess[s].st # "none"
      BY <1>1, <1>2 DEF HostOK
    <3>6. HostOK'
      BY <1>1, <1>2, <1>4, <3>1, <3>3, <3>5 DEF HostOK
    <3> QED
      BY <1>2, <3>1, <3>4, <3>6 DEF TypeOK
  <2> QED
    BY <2>1, <2>2
<1>7. TypeOK'
  BY <1>1, <1>2, <1>4, <1>6 DEF TypeOK
<1> QED
  BY <1>1, <1>6, <1>7, HostMove

\* A session is abandoned.
LEMMA AbandonStep ==
  ASSUME UploadInv, NEW r \in net, HostAbandon(r)
  PROVE UploadInv'
<1> DEFINE s == r.session
<1>1. /\ r.step = "abandon" /\ UNCHANGED <<stored, committed, seen, call, nextCall>>
      /\ net' = net \ {r} /\ sess' = [sess EXCEPT ![s].st = "gone"]
  BY DEF HostAbandon, Consume
<1>2. /\ s \in 1..MaxSessions /\ sess[s].st # "none" /\ TypeOK /\ HostOK /\ NetOK(r)
      /\ r.key \in Key /\ sess \in [1..MaxSessions -> SessionState]
  BY <1>1, RequestFacts, StateTyped
<1>3. PICK ans : ans = Plain("abandoned") /\ ans \in Answer /\ ans.kind = "abandoned"
  BY AnswersTyped
<1>4. Deliver(r, ans) /\ records' = records \cup {[key |-> r.key, ans |-> ans]}
  BY <1>3 DEF HostAbandon
<1>5. /\ sess' \in [1..MaxSessions -> SessionState] /\ sess'[s].st = "gone"
      /\ \A t \in 1..MaxSessions :
           /\ sess'[t].op = sess[t].op /\ sess'[t].m = sess[t].m
           /\ t # s => sess'[t].st = sess[t].st
  BY <1>1, <1>2 DEF SessionState
<1>6. \A t \in 1..MaxSessions : Settled(t)' <=> Settled(t)
  BY <1>1, <1>3, <1>4, <1>5 DEF Settled
<1>7. Frame
  BY <1>1, <1>5, <1>6 DEF Frame
<1>8. HostOK'
  BY <1>1, <1>2, <1>5, <1>6 DEF HostOK
<1>9. TypeOK'
  <2>1. records' \subseteq [key : Key, ans : Answer]
    BY <1>2, <1>3, <1>4 DEF TypeOK
  <2>2. inbox' \in [Clients -> Answer]
    BY <1>3, <1>4, Hearer
  <2> QED
    BY <1>1, <1>2, <1>5, <2>1, <2>2 DEF TypeOK
<1>10. ASSUME NEW c \in Clients PROVE inbox'[c] = inbox[c] \/ InboxOK(c, call[c], inbox[c])'
  <2>1. CASE inbox'[c] # inbox[c]
    <3>1. inbox'[c] = ans /\ call[c].pc = "wait" /\ call[c].step = "abandon"
      BY <1>1, <1>3, <1>4, <2>1, Hearer
    <3>2. InboxOK(c, call[c], ans)'
      BY <1>1, <1>3, <3>1 DEF InboxOK
    <3> QED
      BY <3>1, <3>2
  <2> QED
    BY <2>1
<1>11. ASSUME NEW rec \in records' PROVE rec \in records \/ RecordOK(rec)'
  <2>1. CASE rec \notin records
    <3>1. rec.key = r.key /\ rec.ans = ans /\ r.key.step = "abandon"
      BY <1>1, <1>2, <1>4, <2>1 DEF NetOK
    <3> QED
      BY <1>3, <3>1 DEF RecordOK
  <2> QED
    BY <2>1
<1> QED
  BY <1>1, <1>7, <1>8, <1>9, <1>10, <1>11, HostMove

\* A manifest is collected: the sessions it was committed in are gone with it.
LEMMA CollectManifestStep ==
  ASSUME UploadInv, NEW m \in Manifests, HostCollectManifest(m)
  PROVE UploadInv'
<1>1. /\ UNCHANGED <<stored, records, net, inbox, call, nextCall, seen>>
      /\ committed' = committed \ {m}
      /\ sess' = [s \in 1..MaxSessions |->
           IF sess[s].m = {m} THEN [sess[s] EXCEPT !.st = "gone"] ELSE sess[s]]
  BY DEF HostCollectManifest
<1>2. TypeOK /\ HostOK /\ sess \in [1..MaxSessions -> SessionState]
  BY StateTyped DEF UploadInv
<1>3. \A s \in 1..MaxSessions :
        /\ sess'[s] \in SessionState /\ sess'[s].m = sess[s].m /\ sess'[s].op = sess[s].op
        /\ sess'[s].st = IF sess[s].m = {m} THEN "gone" ELSE sess[s].st
  BY <1>1, <1>2 DEF SessionState
<1>4. \A s \in 1..MaxSessions : Settled(s)' <=> Settled(s)
  BY <1>1, <1>3 DEF Settled
<1>5. Frame
  BY <1>1, <1>3, <1>4 DEF Frame
<1>6. HostOK'
  <2>1. ASSUME NEW s \in 1..MaxSessions, sess'[s].st # "none"
        PROVE \E n \in Manifests : sess'[s].m = {n}
    BY <1>2, <1>3, <2>1 DEF HostOK
  <2>2. ASSUME NEW s \in 1..MaxSessions, sess'[s].st = "open", Settled(s)'
        PROVE sess'[s].m \subseteq committed'
    <3>1. sess[s].st = "open" /\ sess[s].m # {m} /\ Settled(s)
      BY <1>3, <1>4, <2>2
    <3>2. PICK n \in Manifests : sess[s].m = {n}
      BY <1>2, <3>1 DEF HostOK
    <3>3. {n} \subseteq committed
      BY <1>2, <3>1, <3>2 DEF HostOK
    <3> QED
      BY <1>1, <1>3, <3>1, <3>2, <3>3
  <2>3. \A s \in 1..MaxSessions : sess'[s].st = "none" => sess'[s].op = "none"
    BY <1>2, <1>3 DEF HostOK
  <2>4. \A c \in Clients :
          /\ committed' \subseteq seen'[c].committed
          /\ call'[c].pc # "idle" => Blobs \ stored' \subseteq seen'[c].absent
    BY <1>1, <1>2 DEF HostOK
  <2> QED
    BY <2>1, <2>2, <2>3, <2>4 DEF HostOK
<1>7. TypeOK'
  BY <1>1, <1>2, <1>3 DEF TypeOK
<1> QED
  BY <1>1, <1>5, <1>6, <1>7, HostMove

\* A blob is collected: everyone in a call notices.
LEMMA CollectBlobStep ==
  ASSUME UploadInv, NEW b \in Blobs, HostCollectBlob(b)
  PROVE UploadInv'
<1>1. /\ UNCHANGED <<committed, sess, records, net, inbox, call, nextCall>>
      /\ stored' = stored \ {b}
      /\ seen' = [c \in Clients |-> [seen[c] EXCEPT !.absent = @ \cup {b}, !.lost = TRUE]]
  BY DEF HostCollectBlob
<1>2. /\ TypeOK /\ HostOK
      /\ seen \in [Clients -> [absent : SUBSET Blobs, committed : SUBSET Manifests, lost : BOOLEAN]]
  BY DEF UploadInv, TypeOK
<1>3. /\ seen' \in [Clients -> [absent : SUBSET Blobs, committed : SUBSET Manifests,
                                lost : BOOLEAN]]
      /\ \A c \in Clients :
           /\ seen'[c].committed = seen[c].committed
           /\ seen'[c].absent = seen[c].absent \cup {b} /\ seen'[c].lost = TRUE
  BY <1>1, <1>2
<1>4. \A s : Settled(s)' <=> Settled(s)
  BY <1>1 DEF Settled
<1>5. Frame
  BY <1>1, <1>3, <1>4 DEF Frame
<1>6. HostOK'
  <2>1. ASSUME NEW c \in Clients
        PROVE /\ committed' \subseteq seen'[c].committed
              /\ call'[c].pc # "idle" => Blobs \ stored' \subseteq seen'[c].absent
    <3>1. /\ committed \subseteq seen[c].committed
          /\ call[c].pc # "idle" => Blobs \ stored \subseteq seen[c].absent
      BY <1>2 DEF HostOK
    <3>2. seen'[c].committed = seen[c].committed /\ seen'[c].absent = seen[c].absent \cup {b}
      BY <1>3
    <3>3. committed' = committed /\ call' = call /\ stored' = stored \ {b}
      BY <1>1
    <3> QED
      BY <3>1, <3>2, <3>3
  <2>2. ASSUME NEW s \in 1..MaxSessions
        PROVE /\ sess'[s].st # "none" => \E m \in Manifests : sess'[s].m = {m}
              /\ sess'[s].st = "none" => sess'[s].op = "none"
              /\ sess'[s].st = "open" /\ Settled(s)' => sess'[s].m \subseteq committed'
    BY <1>1, <1>2, <1>4 DEF HostOK
  <2> QED
    BY <2>1, <2>2 DEF HostOK
<1>7. TypeOK'
  BY <1>1, <1>2, <1>3 DEF TypeOK
<1> QED
  BY <1>1, <1>5, <1>6, <1>7, HostMove

-----------------------------------------------------------------------------
(* A step of a client.                                                       *)

\* Where the Host, the histories and the call numbers are left alone, what the
\* invariant says of a call, an answer, a session means the same after the step.
LEMMA HostUntouched ==
  ASSUME UNCHANGED <<hostVars, nextCall>>
  PROVE /\ UNCHANGED <<stored, committed, sess, records, seen>>
        /\ \A c, k : CallOK(c, k)' <=> CallOK(c, k)
        /\ \A c, k, ans : InboxOK(c, k, ans)' <=> InboxOK(c, k, ans)
        /\ \A c, s, missing : Trusts(c, s, missing)' <=> Trusts(c, s, missing)
        /\ \A s : (Settled(s)' <=> Settled(s)) /\ (Known(s)' <=> Known(s))
        /\ \A r : NetOK(r)' <=> NetOK(r)
<1>1. UNCHANGED <<stored, committed, sess, records, seen, nextCall>>
  BY DEF hostVars
<1>2. \A s : (Settled(s)' <=> Settled(s)) /\ (Known(s)' <=> Known(s))
  BY <1>1 DEF Settled, Known
<1>3. \A c, s, missing : Trusts(c, s, missing)' <=> Trusts(c, s, missing)
  BY <1>1, <1>2 DEF Trusts
<1>4. \A c, k : CallOK(c, k)' <=> CallOK(c, k)
  BY <1>1, <1>2, <1>3 DEF CallOK
<1>5. \A c, k, ans : InboxOK(c, k, ans)' <=> InboxOK(c, k, ans)
  BY <1>1, <1>2, <1>3 DEF InboxOK
<1>6. \A r : NetOK(r)' <=> NetOK(r)
  BY <1>1, <1>2 DEF NetOK
<1> QED
  BY <1>1, <1>2, <1>3, <1>4, <1>5, <1>6

\* A call goes on: it stays the same call, never goes back to its start, keeps the
\* session it was given, has read its answer and may have sent a request.
LEMMA ClientMove ==
  ASSUME UploadInv, NEW c \in Clients, NEW k \in CallState,
         call[c].pc # "idle", k.pc # "idle", k.id = call[c].id, CallOK(c, k),
         k.step = "start" => call[c].step = "start",
         call[c].step # "start" => k.session = call[c].session,
         call' = [call EXCEPT ![c] = k], UNCHANGED <<hostVars, nextCall>>,
         \/ inbox' = inbox /\ inbox[c].kind = "none"
         \/ inbox' = [inbox EXCEPT ![c] = NoAnswer],
         \A r \in net' : r \in net \/ (r \in Request /\ r.client = c /\ NetOK(r) /\ Sent(r, k))
  PROVE UploadInv'
<1>1. /\ TypeOK /\ HostOK
      /\ \A d \in Clients : CallOK(d, call[d]) /\ InboxOK(d, call[d], inbox[d])
      /\ \A r \in net : NetOK(r) /\ Sent(r, call[r.client])
      /\ \A rec \in records : RecordOK(rec)
  BY DEF UploadInv
<1>2. /\ UNCHANGED <<stored, committed, sess, records, seen, nextCall>>
      /\ \A d, j : CallOK(d, j)' <=> CallOK(d, j)
      /\ \A d, j, ans : InboxOK(d, j, ans)' <=> InboxOK(d, j, ans)
      /\ \A d, s, missing : Trusts(d, s, missing)' <=> Trusts(d, s, missing)
      /\ \A s : (Settled(s)' <=> Settled(s)) /\ (Known(s)' <=> Known(s))
      /\ \A r : NetOK(r)' <=> NetOK(r)
  BY HostUntouched
<1>3. /\ call' \in [Clients -> CallState] /\ call'[c] = k
      /\ \A d \in Clients \ {c} : call'[d] = call[d]
  BY <1>1, StateTyped
<1>4. /\ inbox' \in [Clients -> Answer] /\ inbox'[c].kind = "none"
      /\ \A d \in Clients \ {c} : inbox'[d] = inbox[d]
  <2>1. NoAnswer \in Answer /\ inbox \in [Clients -> Answer]
    BY <1>1, AnswersTyped, StateTyped
  <2>2. NoAnswer.kind = "none"
    BY DEF NoAnswer
  <2> QED
    BY <2>1, <2>2
<1>5. TypeOK'
  <2>1. net' \subseteq Request
    BY <1>1 DEF TypeOK
  <2> QED
    BY <1>1, <1>2, <1>3, <1>4, <2>1 DEF TypeOK
<1>6. HostOK'
  <2>1. \A d \in Clients : call'[d].pc # "idle" => call[d].pc # "idle"
    BY <1>3
  <2> QED
    BY <1>1, <1>2, <2>1 DEF HostOK
<1>7. ASSUME NEW d \in Clients PROVE CallOK(d, call[d])' /\ InboxOK(d, call[d], inbox[d])'
  <2>1. CASE d = c
    <3>1. PICK ans : ans = inbox'[c] /\ ans.kind = "none"
      BY <1>4
    <3>2. InboxOK(c, k, ans)
      BY <3>1 DEF InboxOK
    <3> QED
      BY <1>2, <1>3, <2>1, <3>1, <3>2
  <2>2. CASE d # c
    BY <1>1, <1>2, <1>3, <1>4, <2>2
  <2> QED
    BY <2>1, <2>2
<1>8. ASSUME NEW r \in net' PROVE NetOK(r)' /\ Sent(r, call[r.client])'
  <2>1. CASE r \in net
    <3>1. NetOK(r) /\ Sent(r, call[r.client]) /\ r.client \in Clients
      BY <1>1, <2>1, StateTyped
    <3>2. r.client = c => Sent(r, k)
      BY <3>1 DEF Sent
    <3> QED
      BY <1>2, <1>3, <3>1, <3>2 DEF Sent
  <2>2. CASE r \notin net
    <3>1. r.client = c /\ NetOK(r) /\ Sent(r, k)
      BY <1>8, <2>2
    <3> QED
      BY <1>2, <1>3, <3>1 DEF Sent
  <2> QED
    BY <2>1, <2>2
<1>9. ASSUME NEW rec \in records' PROVE RecordOK(rec)'
  <2>1. RecordOK(rec)
    BY <1>1, <1>2, <1>9
  <2>2. \A d \in Clients : call'[d].pc # "idle" => call[d].pc # "idle" /\ call'[d].id = call[d].id
    BY <1>3
  <2> QED
    BY <1>2, <2>1, <2>2 DEF RecordOK
<1> QED
  BY <1>5, <1>6, <1>7, <1>8, <1>9 DEF UploadInv

\* A call begins.  Its number is new: no record and no request is of it.
LEMMA StartCallStep ==
  ASSUME UploadInv, NEW c \in Clients, NEW k \in CallState, StartCall(c, k),
         k.pc = "send", k.id = nextCall, k.out = "none",
         \/ k.step = "start" /\ k.session = 0
         \/ k.step = "abandon" /\ Known(k.session)
  PROVE UploadInv'
<1>1. /\ TypeOK /\ HostOK
      /\ \A d \in Clients : CallOK(d, call[d]) /\ InboxOK(d, call[d], inbox[d])
      /\ \A r \in net : NetOK(r) /\ Sent(r, call[r.client])
      /\ \A rec \in records : RecordOK(rec)
  BY DEF UploadInv
<1>2. /\ call[c].pc \in {"idle", "done"} /\ nextCall <= MaxCalls /\ nextCall' = nextCall + 1
      /\ call' = [call EXCEPT ![c] = k]
      /\ seen' = [seen EXCEPT ![c] =
           [absent |-> Blobs \ stored, committed |-> committed, lost |-> FALSE]]
      /\ UNCHANGED <<stored, committed, sess, records, net, inbox>>
  BY DEF StartCall
<1>3. /\ call' \in [Clients -> CallState] /\ call'[c] = k
      /\ \A d \in Clients \ {c} : call'[d] = call[d]
  BY <1>1, <1>2, StateTyped
<1>4. /\ seen' \in [Clients -> [absent : SUBSET Blobs, committed : SUBSET Manifests,
                                lost : BOOLEAN]]
      /\ seen'[c].absent = Blobs \ stored /\ seen'[c].committed = committed
      /\ \A d \in Clients \ {c} : seen'[d] = seen[d]
  BY <1>1, <1>2 DEF TypeOK
<1>5. nextCall \in Nat /\ nextCall' \in 1..(MaxCalls + 1) /\ nextCall < nextCall'
  BY <1>1, <1>2, StateTyped DEF TypeOK
<1>6. \A s : (Settled(s)' <=> Settled(s)) /\ (Known(s)' <=> Known(s))
  BY <1>2 DEF Settled, Known
<1>7. ASSUME NEW d \in Clients \ {c}, NEW s, NEW missing
      PROVE Trusts(d, s, missing)' <=> Trusts(d, s, missing)
  BY <1>2, <1>4, <1>6 DEF Trusts
<1>8. TypeOK'
  BY <1>1, <1>2, <1>3, <1>4, <1>5 DEF TypeOK
<1>9. HostOK'
  <2>1. ASSUME NEW d \in Clients
        PROVE /\ committed' \subseteq seen'[d].committed
              /\ call'[d].pc # "idle" => Blobs \ stored' \subseteq seen'[d].absent
    BY <1>1, <1>2, <1>3, <1>4 DEF HostOK
  <2> QED
    BY <1>1, <1>2, <1>6, <2>1 DEF HostOK
<1>10. ASSUME NEW d \in Clients PROVE CallOK(d, call[d])' /\ InboxOK(d, call[d], inbox[d])'
  <2>1. CASE d = c
    <3>1. CallOK(c, k)'
      <4>1. k.id < nextCall'
        BY <1>5
      <4>2. CASE k.step = "start" /\ k.session = 0
        BY <4>1, <4>2 DEF CallOK
      <4>3. CASE k.step = "abandon" /\ Known(k.session)
        <5>1. k.session # 0 /\ Known(k.session)'
          BY <1>6, <4>3 DEF Known
        <5> QED
          BY <4>1, <4>3, <5>1 DEF CallOK
      <4> QED
        BY <4>2, <4>3
    <3>2. PICK ans : ans = inbox'[c] /\ ans.kind = "none"
      BY <1>1, <1>2 DEF InboxOK
    <3>3. InboxOK(c, k, ans)'
      BY <3>2 DEF InboxOK
    <3> QED
      BY <1>3, <2>1, <3>1, <3>2, <3>3
  <2>2. CASE d # c
    <3>1. PICK j \in CallState, ans \in Answer :
            j = call[d] /\ ans = inbox[d] /\ CallOK(d, j) /\ InboxOK(d, j, ans)
      BY <1>1, StateTyped
    <3>2. j.id \in Nat
      BY <1>1, StateTyped DEF CallState, CallId
    <3>3. CallOK(d, j)'
      BY <1>4, <1>5, <1>6, <1>7, <2>2, <3>1, <3>2 DEF CallOK
    <3>4. InboxOK(d, j, ans)'
      BY <1>2, <1>4, <1>6, <1>7, <2>2, <3>1 DEF InboxOK
    <3> QED
      BY <1>2, <1>3, <2>2, <3>1, <3>3, <3>4
  <2> QED
    BY <2>1, <2>2
<1>11. ASSUME NEW r \in net' PROVE NetOK(r)' /\ Sent(r, call[r.client])'
  <2>1. r \in net /\ NetOK(r) /\ Sent(r, call[r.client]) /\ r.client \in Clients
    BY <1>1, <1>2, <1>11, StateTyped
  <2>2. r.call \in Nat /\ r.call < nextCall
    BY <1>1, <2>1, StateTyped DEF NetOK, Request, CallId
  <2>3. NetOK(r)'
    BY <1>5, <1>6, <2>1, <2>2 DEF NetOK
  <2>4. Sent(r, call[r.client])'
    <3>1. CASE r.client = c
      <4>1. r.call # k.id
        BY <1>5, <2>2
      <4> QED
        BY <1>3, <3>1, <4>1 DEF Sent
    <3>2. CASE r.client # c
      BY <1>3, <2>1, <3>2 DEF Sent
    <3> QED
      BY <3>1, <3>2
  <2> QED
    BY <2>3, <2>4
<1>12. ASSUME NEW rec \in records' PROVE RecordOK(rec)'
  <2>1. rec \in records /\ RecordOK(rec) /\ rec.key.nonce \in Nat
    BY <1>1, <1>2, <1>12, StateTyped DEF Key, CallId
  <2>2. CASE rec.key.step = "start"
    <3>1. /\ rec.ans.kind = "session" /\ rec.key.nonce < nextCall /\ Known(rec.ans.session)
          /\ \A d \in Clients : call[d].pc # "idle" /\ call[d].id = rec.key.nonce
               => Trusts(d, rec.ans.session, rec.ans.missing)
      BY <2>1, <2>2 DEF RecordOK
    <3>2. ASSUME NEW d \in Clients, call'[d].pc # "idle", call'[d].id = rec.key.nonce
          PROVE Trusts(d, rec.ans.session, rec.ans.missing)'
      <4>1. d # c
        BY <1>3, <1>5, <2>1, <3>1, <3>2
      <4> QED
        BY <1>3, <1>7, <3>1, <3>2, <4>1
    <3>3. rec.key.nonce < nextCall'
      BY <1>5, <2>1, <3>1
    <3> QED
      BY <1>6, <2>2, <3>1, <3>2, <3>3 DEF RecordOK
  <2>3. CASE rec.key.step # "start"
    BY <1>2, <1>6, <2>1, <2>3 DEF RecordOK
  <2> QED
    BY <2>2, <2>3
<1> QED
  BY <1>8, <1>9, <1>10, <1>11, <1>12 DEF UploadInv

\* A new call has concluded nothing yet.
LEMMA UploadArtifactStep ==
  ASSUME UploadInv, NEW c \in Clients, UploadArtifact(c)
  PROVE UploadInv'
<1>0. PICK m \in Manifests, have \in SUBSET Blobs :
        StartCall(c, [pc |-> "send", id |-> nextCall, step |-> "start", m |-> m,
                      have |-> have, att |-> 1, session |-> 0, missing |-> {},
                      blob |-> {}, out |-> "none"])
  BY ManifestsAssumption DEF UploadArtifact
<1>1. PICK k :
        /\ k = [pc |-> "send", id |-> nextCall, step |-> "start", m |-> m, have |-> have,
                att |-> 1, session |-> 0, missing |-> {}, blob |-> {}, out |-> "none"]
        /\ StartCall(c, k)
  BY <1>0
<1>2. nextCall \in CallId /\ 1 \in 1..RetryAttempts /\ 0 \in Session
  BY <1>1, UploadBoundsAssumption DEF UploadInv, TypeOK, StartCall, CallId, Session
<1>3. k \in CallState
  BY <1>1, <1>2 DEF CallState, Step, Outcome
<1> QED
  BY <1>1, <1>3, StartCallStep

\* Nor has a call that abandons a session.
LEMMA AbandonUploadStep ==
  ASSUME UploadInv, NEW c \in Clients, AbandonUpload(c)
  PROVE UploadInv'
<1>0. PICK s \in 1..MaxSessions :
        /\ StartCall(c, [call[c] EXCEPT !.pc = "send", !.id = nextCall, !.step = "abandon",
                                       !.att = 1, !.session = s, !.out = "none"])
        /\ sess[s].st # "none"
  BY DEF AbandonUpload
<1>1. PICK k :
        /\ k = [call[c] EXCEPT !.pc = "send", !.id = nextCall, !.step = "abandon",
                               !.att = 1, !.session = s, !.out = "none"]
        /\ StartCall(c, k) /\ sess[s].st # "none"
  BY <1>0
<1>2. /\ nextCall \in CallId /\ 1 \in 1..RetryAttempts /\ s \in Session
      /\ call[c] \in CallState
  <2>1. nextCall <= MaxCalls /\ nextCall \in 1..(MaxCalls + 1) /\ call[c] \in CallState
    BY <1>1, StateTyped DEF UploadInv, TypeOK, StartCall
  <2> QED
    BY <2>1, UploadBoundsAssumption DEF CallId, Session
<1>3. /\ k \in CallState /\ k.pc = "send" /\ k.id = nextCall /\ k.step = "abandon"
      /\ k.session = s /\ k.out = "none"
  BY <1>1, <1>2 DEF CallState, Step, Outcome
<1>4. Known(s)
  BY <1>1 DEF Known
<1> QED
  BY <1>1, <1>3, <1>4, StartCallStep

\* A request is sent, with the key of its call.
LEMMA SendRequestStep ==
  ASSUME UploadInv, NEW c \in Clients, SendRequest(c)
  PROVE UploadInv'
<1>1. /\ call[c].pc = "send" /\ call[c] \in CallState /\ CallOK(c, call[c])
      /\ InboxOK(c, call[c], inbox[c]) /\ call \in [Clients -> CallState]
      /\ UNCHANGED <<hostVars, inbox, nextCall>> /\ nextCall \in Nat
  BY StateTyped DEF UploadInv, SendRequest
<1>2. PICK k : k = [call[c] EXCEPT !.pc = "wait"] /\ call' = [call EXCEPT ![c] = k]
  BY <1>1 DEF SendRequest
<1>3. /\ k \in CallState /\ k.pc = "wait" /\ k.id = call[c].id /\ k.step = call[c].step
      /\ k.session = call[c].session /\ k.missing = call[c].missing /\ k.m = call[c].m
      /\ k.out = call[c].out /\ k.blob = call[c].blob /\ k.att = call[c].att
  BY <1>1, <1>2 DEF CallState
<1>4. CallOK(c, k)
  BY <1>1, <1>3 DEF CallOK
<1>5. PICK q : /\ q = [client |-> c, call |-> call[c].id, att |-> call[c].att,
                       step |-> call[c].step, key |-> KeyOf(call[c]), m |-> call[c].m,
                       session |-> call[c].session, blob |-> call[c].blob]
               /\ net' = net \cup {q}
  BY DEF SendRequest
<1>6. /\ KeyOf(k) \in Key /\ KeyOf(k).step = k.step
      /\ k.step = "start" => KeyOf(k).nonce = k.id
      /\ k.step # "start" => KeyOf(k).session = k.session
  <2>1. 0 \in Session /\ 0 \in CallId
    BY UploadBoundsAssumption DEF Session, CallId
  <2>2. k.step \in Step /\ k.m \in Manifests /\ k.session \in Session /\ k.id \in CallId
    BY <1>3 DEF CallState
  <2> QED
    BY <2>1, <2>2 DEF KeyOf, Key
<1>7. KeyOf(call[c]) = KeyOf(k)
  BY <1>3 DEF KeyOf
<1>8. q \in Request /\ q.client = c
  BY <1>1, <1>5, <1>6, <1>7 DEF Request, CallState
<1>9. NetOK(q)
  <2>1. k.id < nextCall /\ (k.step # "start" => Known(k.session))
    BY <1>3, <1>4 DEF CallOK, CallState, Step
  <2> QED
    BY <1>3, <1>5, <1>6, <1>7, <2>1 DEF NetOK
<1>10. Sent(q, k)
  BY <1>3, <1>5 DEF Sent
<1>11. inbox[c].kind = "none"
  BY <1>1 DEF InboxOK
<1>12. \A r \in net' : r \in net \/ (r \in Request /\ r.client = c /\ NetOK(r) /\ Sent(r, k))
  BY <1>5, <1>8, <1>9, <1>10
<1> QED
  BY <1>1, <1>2, <1>3, <1>4, <1>11, <1>12, ClientMove

\* What a step of call c starts from.
LEMMA CallFacts ==
  ASSUME UploadInv, NEW c \in Clients
  PROVE /\ call[c] \in CallState /\ CallOK(c, call[c]) /\ InboxOK(c, call[c], inbox[c])
        /\ inbox[c] \in Answer /\ HostOK
        /\ call[c].pc # "wait" => inbox[c].kind = "none"
BY StateTyped DEF UploadInv, InboxOK

\* A call returns what it may conclude.
LEMMA ReturnStep ==
  ASSUME UploadInv, NEW c \in Clients, NEW o \in Outcome, Return(c, o), call[c].pc # "idle",
         \/ inbox' = inbox /\ inbox[c].kind = "none"
         \/ inbox' = [inbox EXCEPT ![c] = NoAnswer],
         UNCHANGED <<hostVars, net, nextCall>>, o # "unprovided",
         o = "ok" /\ call[c].step # "abandon" => call[c].m \in seen[c].committed,
         o = "missing" => seen[c].lost
  PROVE UploadInv'
<1>1. PICK k : k = [call[c] EXCEPT !.pc = "done", !.out = o] /\ call' = [call EXCEPT ![c] = k]
  BY DEF Return
<1>2. call[c] \in CallState /\ CallOK(c, call[c])
  BY CallFacts
<1>3. /\ k \in CallState /\ k.pc = "done" /\ k.out = o /\ k.id = call[c].id
      /\ k.step = call[c].step /\ k.session = call[c].session /\ k.missing = call[c].missing
      /\ k.m = call[c].m /\ k.blob = call[c].blob
  BY <1>1, <1>2 DEF CallState
<1>4. CallOK(c, k)
  BY <1>2, <1>3 DEF CallOK
<1> QED
  BY <1>1, <1>3, <1>4, ClientMove

\* The call ends without an answer, or sends again.
LEMMA CallFailsStep ==
  ASSUME UploadInv, NEW c \in Clients, CallFails(c)
  PROVE UploadInv'
<1>1. /\ call[c].pc # "idle" /\ Return(c, "plain") /\ inbox' = [inbox EXCEPT ![c] = NoAnswer]
      /\ UNCHANGED <<hostVars, net, nextCall>>
  BY DEF CallFails
<1> QED
  BY <1>1, ReturnStep DEF Outcome

\* A retry keeps what its call has concluded.
LEMMA RetryableErrorStep ==
  ASSUME UploadInv, NEW c \in Clients, RetryableError(c)
  PROVE UploadInv'
<1>1. /\ call[c].pc = "wait" /\ inbox' = [inbox EXCEPT ![c] = NoAnswer]
      /\ UNCHANGED <<hostVars, net, nextCall>>
  BY DEF RetryableError
<1>2. CASE call[c].step \in Keyed /\ call[c].att < RetryAttempts
  <2>1. PICK k : /\ k = [call[c] EXCEPT !.pc = "send", !.att = call[c].att + 1]
                 /\ call' = [call EXCEPT ![c] = k]
    BY <1>2 DEF RetryableError
  <2>2. call[c] \in CallState /\ CallOK(c, call[c])
    BY CallFacts
  <2>3. call[c].att + 1 \in 1..RetryAttempts
    BY <1>2, <2>2, UploadBoundsAssumption DEF CallState
  <2>4. /\ k \in CallState /\ k.pc = "send" /\ k.id = call[c].id /\ k.step = call[c].step
        /\ k.session = call[c].session /\ k.missing = call[c].missing /\ k.m = call[c].m
        /\ k.blob = call[c].blob /\ k.out = call[c].out
    BY <2>1, <2>2, <2>3 DEF CallState
  <2>5. CallOK(c, k)
    BY <2>2, <2>4 DEF CallOK
  <2> QED
    BY <1>1, <2>1, <2>4, <2>5, ClientMove
<1>3. CASE ~(call[c].step \in Keyed /\ call[c].att < RetryAttempts)
  <2>1. Return(c, "refused")
    BY <1>3 DEF RetryableError
  <2> QED
    BY <1>1, <2>1, ReturnStep DEF Outcome
<1> QED
  BY <1>2, <1>3

\* An error the call does not retry ends it, with nothing concluded.
LEMMA RefusedStep ==
  ASSUME UploadInv, NEW c \in Clients, Refused(c)
  PROVE UploadInv'
<1>1. /\ call[c].pc = "wait" /\ inbox' = [inbox EXCEPT ![c] = NoAnswer]
      /\ UNCHANGED <<hostVars, net, nextCall>>
  BY DEF Refused
<1>2. PICK o \in {"missing", "refused"} :
        Return(c, o) /\ (o = "missing" => inbox[c].kind = "missing")
  BY DEF Refused
<1>3. o = "missing" => seen[c].lost
  BY <1>2, CallFacts DEF InboxOK
<1> QED
  BY <1>1, <1>2, <1>3, ReturnStep DEF Outcome

\* The session and its missing blobs.
LEMMA StartAnsweredStep ==
  ASSUME UploadInv, NEW c \in Clients, StartAnswered(c)
  PROVE UploadInv'
<1>1. /\ call[c].pc = "wait" /\ inbox[c].kind = "session"
      /\ inbox' = [inbox EXCEPT ![c] = NoAnswer] /\ UNCHANGED <<hostVars, net, nextCall>>
  BY DEF StartAnswered
<1>2. PICK k : /\ k = [call[c] EXCEPT !.pc = "blobs", !.session = inbox[c].session,
                                      !.missing = inbox[c].missing]
               /\ call' = [call EXCEPT ![c] = k]
  BY DEF StartAnswered
<1>3. /\ call[c] \in CallState /\ CallOK(c, call[c]) /\ inbox[c] \in Answer
      /\ call[c].step = "start" /\ Known(inbox[c].session)
      /\ Trusts(c, inbox[c].session, inbox[c].missing)
  BY <1>1, CallFacts DEF InboxOK
<1>4. /\ k \in CallState /\ k.pc = "blobs" /\ k.id = call[c].id /\ k.step = "start"
      /\ k.session = inbox[c].session /\ k.missing = inbox[c].missing /\ k.m = call[c].m
      /\ k.blob = call[c].blob /\ k.out = call[c].out
  BY <1>2, <1>3 DEF CallState, Answer
<1>5. k.session # 0
  BY <1>3, <1>4 DEF Known
<1>6. CallOK(c, k)
  BY <1>3, <1>4, <1>5 DEF CallOK
<1> QED
  BY <1>1, <1>2, <1>3, <1>4, <1>6, ClientMove

\* The next blob to send is one of those missing.
LEMMA NextBlobStep ==
  ASSUME UploadInv, NEW c \in Clients, NextBlob(c)
  PROVE UploadInv'
<1>1. call[c].pc = "blobs" /\ UNCHANGED <<hostVars, net, inbox, nextCall>>
  BY DEF NextBlob
<1>2. /\ call[c] \in CallState /\ CallOK(c, call[c]) /\ inbox[c].kind = "none"
      /\ call[c].step \in {"start", "put"} /\ call[c].session # 0
      /\ Trusts(c, call[c].session, call[c].missing)
  BY <1>1, CallFacts DEF CallOK
<1>3. PICK b \in call[c].missing :
        IF b \in call[c].have
        THEN call' = [call EXCEPT ![c] = [@ EXCEPT !.pc = "send", !.step = "put",
                                                   !.att = 1, !.blob = {b}]]
        ELSE call' = [call EXCEPT ![c] = [@ EXCEPT !.pc = "done", !.out = "unprovided",
                                                   !.blob = {b}]]
  BY DEF NextBlob
<1>4. {b} \subseteq Blobs /\ b \in seen[c].absent
  BY <1>2, <1>3 DEF CallState, Trusts
<1>5. CASE b \in call[c].have
  <2>1. PICK k : /\ k = [call[c] EXCEPT !.pc = "send", !.step = "put", !.att = 1, !.blob = {b}]
                 /\ call' = [call EXCEPT ![c] = k]
    BY <1>3, <1>5
  <2>2. /\ k \in CallState /\ k.pc = "send" /\ k.id = call[c].id /\ k.step = "put"
        /\ k.session = call[c].session /\ k.missing = call[c].missing /\ k.m = call[c].m
        /\ k.blob = {b} /\ k.out = call[c].out
    <3>1. 1 \in 1..RetryAttempts /\ {b} \in SUBSET Blobs
      BY <1>4, UploadBoundsAssumption
    <3> QED
      BY <1>2, <2>1, <3>1 DEF CallState, Step
  <2>3. CallOK(c, k)
    BY <1>2, <1>4, <2>2 DEF CallOK
  <2> QED
    BY <1>1, <1>2, <2>1, <2>2, <2>3, ClientMove
<1>6. CASE b \notin call[c].have
  <2>1. PICK k : /\ k = [call[c] EXCEPT !.pc = "done", !.out = "unprovided", !.blob = {b}]
                 /\ call' = [call EXCEPT ![c] = k]
    BY <1>3, <1>6
  <2>2. /\ k \in CallState /\ k.pc = "done" /\ k.id = call[c].id /\ k.step = call[c].step
        /\ k.session = call[c].session /\ k.missing = call[c].missing /\ k.m = call[c].m
        /\ k.blob = {b} /\ k.out = "unprovided"
    BY <1>2, <1>4, <2>1 DEF CallState, Outcome
  <2>3. CallOK(c, k)
    BY <1>2, <1>4, <2>2 DEF CallOK
  <2> QED
    BY <1>1, <1>2, <2>1, <2>2, <2>3, ClientMove
<1> QED
  BY <1>5, <1>6

\* A blob is stored, or its loss was noticed.
LEMMA BlobStoredStep ==
  ASSUME UploadInv, NEW c \in Clients, BlobStored(c)
  PROVE UploadInv'
<1>1. /\ call[c].pc = "wait" /\ inbox[c].kind = "stored"
      /\ inbox' = [inbox EXCEPT ![c] = NoAnswer] /\ UNCHANGED <<hostVars, net, nextCall>>
  BY DEF BlobStored
<1>2. PICK k : /\ k = [call[c] EXCEPT !.pc = "blobs",
                                      !.missing = call[c].missing \ call[c].blob]
               /\ call' = [call EXCEPT ![c] = k]
  BY DEF BlobStored
<1>3. /\ call[c] \in CallState /\ CallOK(c, call[c]) /\ call[c].step = "put"
      /\ ~seen[c].lost => call[c].blob \subseteq stored
  BY <1>1, CallFacts DEF InboxOK
<1>4. /\ call[c].session # 0 /\ Known(call[c].session)
      /\ Trusts(c, call[c].session, call[c].missing)
  BY <1>3 DEF CallOK
<1>5. /\ k \in CallState /\ k.pc = "blobs" /\ k.id = call[c].id /\ k.step = "put"
      /\ k.session = call[c].session /\ k.missing = call[c].missing \ call[c].blob
      /\ k.m = call[c].m /\ k.blob = call[c].blob /\ k.out = call[c].out
  BY <1>2, <1>3 DEF CallState
<1>6. Trusts(c, k.session, k.missing)
  <2>1. Settled(k.session) => sess[k.session].m \subseteq seen[c].committed
    BY <1>4, <1>5 DEF Trusts
  <2>2. k.missing \subseteq seen[c].absent
    BY <1>4, <1>5 DEF Trusts
  <2>3. ~seen[c].lost => \A m \in sess[k.session].m : BlobsOf[m] \ k.missing \subseteq stored
    BY <1>3, <1>4, <1>5 DEF Trusts
  <2> QED
    BY <2>1, <2>2, <2>3 DEF Trusts
<1>7. CallOK(c, k)
  BY <1>3, <1>4, <1>5, <1>6 DEF CallOK
<1> QED
  BY <1>1, <1>2, <1>3, <1>5, <1>7, ClientMove

\* When no blob is missing, the commit is asked for.
LEMMA AllBlobsSentStep ==
  ASSUME UploadInv, NEW c \in Clients, AllBlobsSent(c)
  PROVE UploadInv'
<1>1. /\ call[c].pc = "blobs" /\ call[c].missing = {}
      /\ UNCHANGED <<hostVars, net, inbox, nextCall>>
  BY DEF AllBlobsSent
<1>2. PICK k : /\ k = [call[c] EXCEPT !.pc = "send", !.step = "commit", !.att = 1, !.blob = {}]
               /\ call' = [call EXCEPT ![c] = k]
  BY DEF AllBlobsSent
<1>3. /\ call[c] \in CallState /\ CallOK(c, call[c]) /\ inbox[c].kind = "none"
      /\ call[c].step \in {"start", "put"} /\ call[c].session # 0
  BY <1>1, CallFacts DEF CallOK
<1>4. /\ k \in CallState /\ k.pc = "send" /\ k.id = call[c].id /\ k.step = "commit"
      /\ k.session = call[c].session /\ k.missing = {} /\ k.m = call[c].m
      /\ k.blob = {} /\ k.out = call[c].out /\ call[c].missing = k.missing
  <2>1. 1 \in 1..RetryAttempts
    BY UploadBoundsAssumption
  <2> QED
    BY <1>1, <1>2, <1>3, <2>1 DEF CallState, Step
<1>5. CallOK(c, k)
  BY <1>3, <1>4 DEF CallOK
<1> QED
  BY <1>1, <1>2, <1>3, <1>4, <1>5, ClientMove

\* The committed digest: of the call's own manifest, or a mismatch.
LEMMA VerdictFacts ==
  ASSUME NEW m, NEW ms
  PROVE /\ Verdict(m, ms) \in {"ok", "mismatch"}
        /\ Verdict(m, ms) = "ok" => m \in ms
BY DEF Verdict

\* A digest in answer to the commit ends the call.
LEMMA CommitAnsweredStep ==
  ASSUME UploadInv, NEW c \in Clients, CommitAnswered(c)
  PROVE UploadInv'
<1>1. /\ call[c].pc = "wait" /\ inbox[c].kind = "committed"
      /\ inbox' = [inbox EXCEPT ![c] = NoAnswer] /\ UNCHANGED <<hostVars, net, nextCall>>
  BY DEF CommitAnswered
<1>2. PICK o : o = Verdict(call[c].m, inbox[c].m) /\ Return(c, o)
  BY DEF CommitAnswered
<1>3. o \in {"ok", "mismatch"} /\ (o = "ok" => call[c].m \in inbox[c].m)
  BY <1>2, VerdictFacts
<1>4. inbox[c].m \subseteq seen[c].committed
  BY <1>1, CallFacts DEF InboxOK
<1> QED
  BY <1>1, <1>2, <1>3, <1>4, ReturnStep DEF Outcome

\* An Operation in answer to the commit is waited for.
LEMMA CommitAcceptedStep ==
  ASSUME UploadInv, NEW c \in Clients, CommitAccepted(c)
  PROVE UploadInv'
<1>1. /\ call[c].pc = "wait" /\ inbox[c].kind = "accepted"
      /\ inbox' = [inbox EXCEPT ![c] = NoAnswer] /\ UNCHANGED <<hostVars, net, nextCall>>
  BY DEF CommitAccepted
<1>2. /\ call[c] \in CallState /\ CallOK(c, call[c]) /\ call[c].step = "commit"
  BY <1>1, CallFacts DEF InboxOK
<1>3. PICK k : k = [call[c] EXCEPT !.pc = "poll"] /\ call' = [call EXCEPT ![c] = k]
  BY DEF CommitAccepted
<1>4. /\ k \in CallState /\ k.pc = "poll" /\ k.id = call[c].id /\ k.step = "commit"
      /\ k.session = call[c].session /\ k.missing = call[c].missing /\ k.m = call[c].m
      /\ k.blob = call[c].blob /\ k.out = call[c].out
  BY <1>2, <1>3 DEF CallState
<1>5. CallOK(c, k)
  BY <1>2, <1>4 DEF CallOK
<1> QED
  BY <1>1, <1>2, <1>3, <1>4, <1>5, ClientMove

\* The commit's Operation: done in a session this call trusts.
LEMMA PollEndsStep ==
  ASSUME UploadInv, NEW c \in Clients, PollEnds(c)
  PROVE UploadInv'
<1>1. call[c].pc = "poll" /\ UNCHANGED <<hostVars, net, inbox, nextCall>>
  BY DEF PollEnds
<1>2. /\ CallOK(c, call[c]) /\ inbox[c].kind = "none" /\ call[c].step = "commit"
      /\ Trusts(c, call[c].session, call[c].missing)
  BY <1>1, CallFacts DEF CallOK
<1>3. CASE /\ sess[call[c].session].op = "done"
           /\ Return(c, Verdict(call[c].m, sess[call[c].session].m))
  <2>1. PICK o : o = Verdict(call[c].m, sess[call[c].session].m) /\ Return(c, o)
    BY <1>3
  <2>2. o \in {"ok", "mismatch"} /\ (o = "ok" => call[c].m \in sess[call[c].session].m)
    BY <2>1, VerdictFacts
  <2>3. sess[call[c].session].m \subseteq seen[c].committed
    BY <1>2, <1>3 DEF Trusts, Settled
  <2> QED
    BY <1>1, <1>2, <2>1, <2>2, <2>3, ReturnStep DEF Outcome
<1>4. CASE Return(c, "failed")
  BY <1>1, <1>2, <1>4, ReturnStep DEF Outcome
<1>5. CASE Return(c, "plain")
  BY <1>1, <1>2, <1>5, ReturnStep DEF Outcome
<1> QED
  BY <1>3, <1>4, <1>5 DEF PollEnds

\* An abandoned session ends the call.
LEMMA AbandonedStep ==
  ASSUME UploadInv, NEW c \in Clients, Abandoned(c)
  PROVE UploadInv'
<1>1. /\ call[c].pc = "wait" /\ inbox[c].kind = "abandoned" /\ Return(c, "ok")
      /\ inbox' = [inbox EXCEPT ![c] = NoAnswer] /\ UNCHANGED <<hostVars, net, nextCall>>
  BY DEF Abandoned
<1>2. call[c].step = "abandon"
  BY <1>1, CallFacts DEF InboxOK
<1> QED
  BY <1>1, <1>2, ReturnStep DEF Outcome

-----------------------------------------------------------------------------
(* The theorems.                                                             *)

\* No call, no session and no answer yet.
LEMMA UploadInitially == Init => UploadInv
<1>1. SUFFICES ASSUME Init PROVE UploadInv
  OBVIOUS
<1>2. PICK k : /\ call = [c \in Clients |-> k] /\ k \in CallState /\ k.pc = "idle"
               /\ k.id = 0 /\ k.step = "start" /\ k.session = 0 /\ k.out = "none"
  <2>1. PICK m \in Manifests :
          call = [c \in Clients |->
            [pc |-> "idle", id |-> 0, step |-> "start", m |-> m, have |-> {}, att |-> 1,
             session |-> 0, missing |-> {}, blob |-> {}, out |-> "none"]]
    BY <1>1 DEF Init
  <2>2. 1 \in 1..RetryAttempts /\ 0 \in Session /\ 0 \in CallId
    BY UploadBoundsAssumption DEF Session, CallId
  <2>3. PICK k : k = [pc |-> "idle", id |-> 0, step |-> "start", m |-> m, have |-> {},
                      att |-> 1, session |-> 0, missing |-> {}, blob |-> {}, out |-> "none"]
    OBVIOUS
  <2>4. k \in CallState
    BY <2>2, <2>3 DEF CallState, Step, Outcome
  <2> QED
    BY <2>1, <2>3, <2>4
<1>3. /\ stored = {} /\ committed = {} /\ records = {} /\ net = {} /\ nextCall = 1
      /\ sess = [s \in 1..MaxSessions |-> [st |-> "none", m |-> {}, op |-> "none"]]
      /\ inbox = [c \in Clients |-> NoAnswer]
      /\ seen = [c \in Clients |-> [absent |-> {}, committed |-> {}, lost |-> FALSE]]
  BY <1>1 DEF Init
<1>4. TypeOK
  <2>1. NoAnswer \in Answer
    BY AnswersTyped
  <2>2. sess \in [1..MaxSessions -> SessionState]
    BY <1>3 DEF SessionState
  <2>3. nextCall \in 1..(MaxCalls + 1)
    BY <1>3, UploadBoundsAssumption
  <2> QED
    BY <1>2, <1>3, <2>1, <2>2, <2>3 DEF TypeOK
<1>5. HostOK
  <2>1. \A s \in 1..MaxSessions : sess[s].st = "none" /\ sess[s].op = "none"
    BY <1>3
  <2> QED
    BY <1>2, <1>3, <2>1 DEF HostOK
<1>6. ASSUME NEW c \in Clients PROVE CallOK(c, call[c]) /\ InboxOK(c, call[c], inbox[c])
  <2>1. call[c] = k /\ inbox[c].kind = "none"
    BY <1>2, <1>3 DEF NoAnswer
  <2> QED
    BY <1>2, <1>3, <2>1 DEF CallOK, InboxOK
<1> QED
  BY <1>3, <1>4, <1>5, <1>6 DEF UploadInv

\* Every step of a client keeps the invariant,
LEMMA ClientStepKeeps ==
  ASSUME UploadInv, NEW c \in Clients, ClientStep(c)
  PROVE UploadInv'
BY UploadArtifactStep, AbandonUploadStep, SendRequestStep, CallFailsStep, RetryableErrorStep,
   RefusedStep, StartAnsweredStep, NextBlobStep, BlobStoredStep, AllBlobsSentStep,
   CommitAnsweredStep, CommitAcceptedStep, PollEndsStep, AbandonedStep DEF ClientStep

\* every step of the Host does,
LEMMA HostStepKeeps ==
  ASSUME UploadInv, HostStep
  PROVE UploadInv'
BY ReplayStep, BusyStep, StartStep, PutStep, CommitStep, AcceptCommitStep, AbandonStep,
   CommitOperationStep, CollectManifestStep, CollectBlobStep DEF HostStep

\* and so does no step.
LEMMA UploadStutters ==
  ASSUME UploadInv, UNCHANGED vars
  PROVE UploadInv'
<1>1. /\ UNCHANGED <<hostVars, nextCall>> /\ UNCHANGED <<net, inbox, call>>
  BY DEF vars, hostVars
<1>2. /\ UNCHANGED <<stored, committed, sess, records, seen, nextCall>>
      /\ \A d, j : CallOK(d, j)' <=> CallOK(d, j)
      /\ \A d, j, ans : InboxOK(d, j, ans)' <=> InboxOK(d, j, ans)
      /\ \A d, s, missing : Trusts(d, s, missing)' <=> Trusts(d, s, missing)
      /\ \A s : (Settled(s)' <=> Settled(s)) /\ (Known(s)' <=> Known(s))
      /\ \A r : NetOK(r)' <=> NetOK(r)
  BY <1>1, HostUntouched
<1>3. TypeOK' /\ HostOK'
  BY <1>1, <1>2 DEF UploadInv, TypeOK, HostOK
<1>4. \A c \in Clients : CallOK(c, call[c])' /\ InboxOK(c, call[c], inbox[c])'
  BY <1>1, <1>2 DEF UploadInv
<1>5. \A r \in net' : NetOK(r)' /\ Sent(r, call[r.client])'
  BY <1>1, <1>2 DEF UploadInv, Sent
<1>6. \A rec \in records' : RecordOK(rec)'
  BY <1>1, <1>2 DEF UploadInv, RecordOK
<1> QED
  BY <1>3, <1>4, <1>5, <1>6 DEF UploadInv

\* The invariant holds in every state UploadArtifact, AbandonUpload and the Host they
\* talk to can reach.
THEOREM UploadInvAlways == Spec => []UploadInv
<1>1. UploadInv /\ [Next]_vars => UploadInv'
  BY ClientStepKeeps, HostStepKeeps, UploadStutters DEF Next
<1> QED
  BY <1>1, UploadInitially, PTL DEF Spec

\* Every variable of the upload keeps its type, whatever the bounds.
THEOREM UploadTypeCorrect == Spec => []TypeOK
<1>1. UploadInv => TypeOK
  BY DEF UploadInv
<1> QED
  BY <1>1, UploadInvAlways, PTL

\* UploadArtifact returns a digest only if the Host had that manifest committed at
\* some moment of the call, though starts may be answered with a session of another
\* manifest and commits may be answered by a record.
THEOREM SuccessMeansCommittedAlways == Spec => []SuccessMeansCommitted
<1>1. UploadInv => SuccessMeansCommitted
  BY DEF UploadInv, CallOK, SuccessMeansCommitted, Uploading
<1> QED
  BY <1>1, UploadInvAlways, PTL

\* The caller is asked only for a blob the Host lacked at some moment of the call.
THEOREM AskedOnlyForAbsentAlways == Spec => []AskedOnlyForAbsent
<1>1. UploadInv => AskedOnlyForAbsent
  BY DEF UploadInv, CallOK, AskedOnlyForAbsent
<1> QED
  BY <1>1, UploadInvAlways, PTL

\* A commit is refused for missing blobs only if the Host lost one during the call.
THEOREM MissingOnlyAfterLossAlways == Spec => []MissingOnlyAfterLoss
<1>1. UploadInv => MissingOnlyAfterLoss
  BY DEF UploadInv, CallOK, MissingOnlyAfterLoss
<1> QED
  BY <1>1, UploadInvAlways, PTL

=============================================================================
