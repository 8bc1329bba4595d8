--------------------------- MODULE ArtifactUpload ---------------------------
(***************************************************************************)
(* The content-addressed upload of package hostclient: UploadArtifact      *)
(* (start, one PUT per missing blob, commit, the polling of a 202 commit)  *)
(* and AbandonUpload, by several clients against one Host that shares its  *)
(* blobs between them, over a network that loses and delays requests and   *)
(* responses.  A digest is the blob or the manifest it addresses.          *)
(*                                                                         *)
(* The Host is not in the repository (external).  It stores blobs and      *)
(* sessions, replays recorded successes by Idempotency-Key, may answer a   *)
(* start with a session that is already open, even one of another          *)
(* manifest, and may collect what nothing refers to.                       *)
(***************************************************************************)
EXTENDS Integers, FiniteSets

CONSTANTS
  Clients,        \* processes that hold a hostclient.Client
  Blobs,          \* blob digests
  Manifests,      \* manifest digests
  BlobsOf,        \* the blobs of each manifest
  RetryAttempts,  \* Options.RetryAttempts
  MaxSessions,    \* bound: upload sessions the Host opens
  MaxCalls        \* bound: calls the clients make altogether

ASSUME ManifestsAssumption == BlobsOf \in [Manifests -> SUBSET Blobs]
ASSUME UploadBoundsAssumption ==
  /\ RetryAttempts \in Nat \ {0}
  /\ MaxSessions \in Nat \ {0}
  /\ MaxCalls \in Nat \ {0}

VARIABLES
  \* the Host
  stored,     \* the blobs it holds
  committed,  \* the manifests it has committed
  sess,       \* its upload sessions
  records,    \* idempotency records of its successes
  \* the network
  net,        \* requests in flight; one may arrive long after its caller left
  inbox,      \* the response on its way to each client
  \* the clients
  call,       \* the call each client is in, or the last one it made
  nextCall,   \* the next call number
  \* history, of the call each client is in
  seen        \* blobs once absent, manifests once committed, anything collected

hostVars == <<stored, committed, sess, records, seen>>
vars == <<stored, committed, sess, records, net, inbox, call, nextCall, seen>>

-----------------------------------------------------------------------------
(* Data.  0 is "no session" and "no call".                                   *)

Session == 0..MaxSessions
CallId == 0..MaxCalls
Step == {"start", "put", "commit", "abandon"}
Keyed == Step \ {"put"}   \* the blob's address is its own idempotency

\* Key material: the parts mutationKey digests, with the operation's name.
Key == [step: Step, m: Manifests, session: Session, nonce: CallId]

Request == [client: Clients, call: CallId, att: 1..RetryAttempts, step: Step, key: Key,
            m: Manifests, session: Session, blob: SUBSET Blobs]

Answer == [kind: {"none", "session", "stored", "committed", "accepted", "abandoned",
                  "missing", "notfound", "retry"},
           session: Session, missing: SUBSET Blobs, m: SUBSET Manifests]
NoAnswer == [kind |-> "none", session |-> 0, missing |-> {}, m |-> {}]
Plain(k) == [NoAnswer EXCEPT !.kind = k]

\* An upload session: its manifest and its commit Operation, if it has one.
SessionState == [st: {"none", "open", "gone"}, m: SUBSET Manifests,
                 op: {"none", "pending", "done", "failed"}]

Outcome == {"none", "ok", "unprovided", "mismatch", "missing", "refused", "failed", "plain"}

CallState == [pc: {"idle", "send", "wait", "blobs", "poll", "done"}, id: CallId,
              step: Step, m: Manifests, have: SUBSET Blobs, att: 1..RetryAttempts,
              session: Session, missing: SUBSET Blobs, blob: SUBSET Blobs, out: Outcome]

TypeOK ==
  /\ stored \subseteq Blobs
  /\ committed \subseteq Manifests
  /\ sess \in [1..MaxSessions -> SessionState]
  /\ records \subseteq [key: Key, ans: Answer]
  /\ net \subseteq Request
  /\ inbox \in [Clients -> Answer]
  /\ call \in [Clients -> CallState]
  /\ nextCall \in 1..(MaxCalls + 1)
  /\ seen \in [Clients -> [absent: SUBSET Blobs, committed: SUBSET Manifests, lost: BOOLEAN]]

Init ==
  /\ stored = {}
  /\ committed = {}
  /\ sess = [s \in 1..MaxSessions |-> [st |-> "none", m |-> {}, op |-> "none"]]
  /\ records = {}
  /\ net = {}
  /\ inbox = [c \in Clients |-> NoAnswer]
  /\ \E m \in Manifests :
       call = [c \in Clients |->
         [pc |-> "idle", id |-> 0, step |-> "start", m |-> m, have |-> {}, att |-> 1,
          session |-> 0, missing |-> {}, blob |-> {}, out |-> "none"]]
  /\ nextCall = 1
  /\ seen = [c \in Clients |-> [absent |-> {}, committed |-> {}, lost |-> FALSE]]

-----------------------------------------------------------------------------
(* Idempotency keys.                                                         *)

\* Mutated forms: a start key that is the manifest's alone, a commit key that
\* does not bind the session.
KeyWithoutNonce(k) ==
  [step |-> k.step, m |-> k.m, session |-> IF k.step = "start" THEN 0 ELSE k.session, nonce |-> 0]
KeyWithoutSession(k) ==
  [step |-> k.step, m |-> k.m, session |-> 0, nonce |-> IF k.step = "start" THEN k.id ELSE 0]

\* A start is keyed by the manifest and a nonce drawn once per call; a commit
\* by the session and the manifest; an abandon by the session.
KeyOf(k) ==
  [step |-> k.step, m |-> k.m, session |-> IF k.step = "start" THEN 0 ELSE k.session,
   nonce |-> IF k.step = "start" THEN k.id ELSE 0]

-----------------------------------------------------------------------------
(* The client.                                                               *)

Return(c, o) == call' = [call EXCEPT ![c] = [@ EXCEPT !.pc = "done", !.out = o]]

StartCall(c, k) ==
  /\ call[c].pc \in {"idle", "done"}
  /\ nextCall <= MaxCalls
  /\ call' = [call EXCEPT ![c] = k]
  /\ nextCall' = nextCall + 1
  /\ seen' = [seen EXCEPT ![c] =
       [absent |-> Blobs \ stored, committed |-> committed, lost |-> FALSE]]
  /\ UNCHANGED <<stored, committed, sess, records, net, inbox>>

\* UploadArtifact of a manifest with all of its blobs at hand, or with none.
UploadArtifact(c) ==
  \E m \in Manifests : \E have \in {{}, BlobsOf[m]} :
    StartCall(c, [pc |-> "send", id |-> nextCall, step |-> "start", m |-> m, have |-> have,
                  att |-> 1, session |-> 0, missing |-> {}, blob |-> {}, out |-> "none"])

\* AbandonUpload of a session some caller has heard of.
AbandonUpload(c) ==
  \E s \in 1..MaxSessions :
    /\ sess[s].st # "none"
    /\ StartCall(c, [call[c] EXCEPT !.pc = "send", !.id = nextCall, !.step = "abandon",
                     !.att = 1, !.session = s, !.out = "none"])

SendRequest(c) ==
  /\ call[c].pc = "send"
  /\ net' = net \cup {[client |-> c, call |-> call[c].id, att |-> call[c].att,
       step |-> call[c].step, key |-> KeyOf(call[c]), m |-> call[c].m,
       session |-> call[c].session, blob |-> call[c].blob]}
  /\ call' = [call EXCEPT ![c].pc = "wait"]
  /\ UNCHANGED <<hostVars, inbox, nextCall>>

\* No response is read, or it does not decode, or the wait before the next
\* attempt is cut short.  The request may be lost or may still arrive.
CallFails(c) ==
  /\ call[c].pc = "wait" \/ (call[c].pc = "send" /\ call[c].att > 1)
  /\ Return(c, "plain")
  /\ inbox' = [inbox EXCEPT ![c] = NoAnswer]
  /\ UNCHANGED <<hostVars, net, nextCall>>

\* Mutated form: a PUT that is refused is skipped and the flow goes on.
RetryableErrorSkipsBlob(c) ==
  /\ call[c].pc = "wait"
  /\ inbox[c].kind = "retry"
  /\ IF call[c].step = "put"
     THEN call' = [call EXCEPT ![c] = [@ EXCEPT !.pc = "blobs",
                     !.missing = call[c].missing \ call[c].blob]]
     ELSE Return(c, "refused")
  /\ inbox' = [inbox EXCEPT ![c] = NoAnswer]
  /\ UNCHANGED <<hostVars, net, nextCall>>

\* A stable retryable envelope; a PUT of a blob is never retried.
RetryableError(c) ==
  /\ call[c].pc = "wait"
  /\ inbox[c].kind = "retry"
  /\ IF call[c].step \in Keyed /\ call[c].att < RetryAttempts
     THEN call' = [call EXCEPT ![c] = [@ EXCEPT !.pc = "send", !.att = call[c].att + 1]]
     ELSE Return(c, "refused")
  /\ inbox' = [inbox EXCEPT ![c] = NoAnswer]
  /\ UNCHANGED <<hostVars, net, nextCall>>

\* Any other structured error ends the call.
Refused(c) ==
  /\ call[c].pc = "wait"
  /\ inbox[c].kind \in {"missing", "notfound"}
  /\ Return(c, IF inbox[c].kind = "missing" THEN "missing" ELSE "refused")
  /\ inbox' = [inbox EXCEPT ![c] = NoAnswer]
  /\ UNCHANGED <<hostVars, net, nextCall>>

\* The upload status: a session and the blobs the Host does not hold.
StartAnswered(c) ==
  /\ call[c].pc = "wait"
  /\ inbox[c].kind = "session"
  /\ call' = [call EXCEPT ![c] = [@ EXCEPT !.pc = "blobs", !.session = inbox[c].session,
                                           !.missing = inbox[c].missing]]
  /\ inbox' = [inbox EXCEPT ![c] = NoAnswer]
  /\ UNCHANGED <<hostVars, net, nextCall>>

\* The loop over missingBlobs: the next one is sent if the caller provided it;
\* after the last one the commit is.
NextBlob(c) ==
  /\ call[c].pc = "blobs"
  /\ \E b \in call[c].missing :
       IF b \in call[c].have
       THEN call' = [call EXCEPT ![c] = [@ EXCEPT !.pc = "send", !.step = "put",
                                                  !.att = 1, !.blob = {b}]]
       ELSE call' = [call EXCEPT ![c] = [@ EXCEPT !.pc = "done", !.out = "unprovided",
                                                  !.blob = {b}]]
  /\ UNCHANGED <<hostVars, net, inbox, nextCall>>

AllBlobsSent(c) ==
  /\ call[c].pc = "blobs"
  /\ call[c].missing = {}
  /\ call' = [call EXCEPT ![c] = [@ EXCEPT !.pc = "send", !.step = "commit",
                                           !.att = 1, !.blob = {}]]
  /\ UNCHANGED <<hostVars, net, inbox, nextCall>>

BlobStored(c) ==
  /\ call[c].pc = "wait"
  /\ inbox[c].kind = "stored"
  /\ call' = [call EXCEPT ![c] = [@ EXCEPT !.pc = "blobs",
                                           !.missing = call[c].missing \ call[c].blob]]
  /\ inbox' = [inbox EXCEPT ![c] = NoAnswer]
  /\ UNCHANGED <<hostVars, net, nextCall>>

\* The committed digest is compared with that of the manifest that was sent.
Verdict(m, digest) == IF digest = {m} THEN "ok" ELSE "mismatch"

CommitAnswered(c) ==
  /\ call[c].pc = "wait"
  /\ inbox[c].kind = "committed"
  /\ Return(c, Verdict(call[c].m, inbox[c].m))
  /\ inbox' = [inbox EXCEPT ![c] = NoAnswer]
  /\ UNCHANGED <<hostVars, net, nextCall>>

CommitAccepted(c) ==
  /\ call[c].pc = "wait"
  /\ inbox[c].kind = "accepted"
  /\ call' = [call EXCEPT ![c].pc = "poll"]
  /\ inbox' = [inbox EXCEPT ![c] = NoAnswer]
  /\ UNCHANGED <<hostVars, net, nextCall>>

\* awaitOperation: the terminal result, the terminal error, or no verdict.
PollEnds(c) ==
  LET s == sess[call[c].session]
  IN /\ call[c].pc = "poll"
     /\ \/ s.op = "done" /\ Return(c, Verdict(call[c].m, s.m))
        \/ s.op = "failed" /\ Return(c, "failed")
        \/ Return(c, "plain")
     /\ UNCHANGED <<hostVars, net, inbox, nextCall>>

\* An abandon is answered 204.
Abandoned(c) ==
  /\ call[c].pc = "wait"
  /\ inbox[c].kind = "abandoned"
  /\ Return(c, "ok")
  /\ inbox' = [inbox EXCEPT ![c] = NoAnswer]
  /\ UNCHANGED <<hostVars, net, nextCall>>

-----------------------------------------------------------------------------
(* The Host (external).                                                      *)

\* Only the caller still waiting on this very attempt hears the answer.
Deliver(r, ans) ==
  inbox' = IF /\ call[r.client].pc = "wait"
              /\ call[r.client].id = r.call
              /\ call[r.client].att = r.att
              /\ call[r.client].step = r.step
              /\ call[r.client].blob = r.blob
           THEN [inbox EXCEPT ![r.client] = ans]
           ELSE inbox

Consume(r) == net' = net \ {r} /\ UNCHANGED <<call, nextCall>>

Recorded(r) == {rec \in records : r.step \in Keyed /\ rec.key = r.key}

HostReplay(r) ==
  /\ \E rec \in Recorded(r) : Deliver(r, rec.ans)
  /\ Consume(r)
  /\ UNCHANGED hostVars

HostBusy(r) ==
  /\ Deliver(r, Plain("retry"))
  /\ Consume(r)
  /\ UNCHANGED hostVars

\* A start: a new session, or one that is open already.
HostStart(r) ==
  /\ r.step = "start" /\ Recorded(r) = {}
  /\ \E s \in 1..MaxSessions :
       /\ \/ sess[s].st = "open" /\ UNCHANGED sess
          \/ /\ sess[s].st = "none" /\ \A t \in 1..(s - 1) : sess[t].st # "none"
             /\ sess' = [sess EXCEPT ![s] = [st |-> "open", m |-> {r.m}, op |-> "none"]]
       /\ \E m \in sess'[s].m :
            LET ans == [NoAnswer EXCEPT !.kind = "session", !.session = s,
                                        !.missing = BlobsOf[m] \ stored]
            IN Deliver(r, ans) /\ records' = records \cup {[key |-> r.key, ans |-> ans]}
  /\ Consume(r)
  /\ UNCHANGED <<stored, committed, seen>>

\* A blob of the session's manifest arrives.
HostPut(r) ==
  /\ r.step = "put"
  /\ IF sess[r.session].st = "open"
     THEN stored' = stored \cup r.blob /\ Deliver(r, Plain("stored"))
     ELSE UNCHANGED stored /\ Deliver(r, Plain("notfound"))
  /\ Consume(r)
  /\ UNCHANGED <<committed, sess, records, seen>>

\* The manifest ms is committed; whoever is in a call may rely on it.
Commit(ms) ==
  /\ committed' = committed \cup ms
  /\ seen' = [c \in Clients |-> [seen[c] EXCEPT !.committed = @ \cup ms]]

Complete(s) == \A m \in sess[s].m : BlobsOf[m] \subseteq stored

\* A commit: every blob is checked again; a refusal is not recorded.
HostCommit(r) ==
  /\ r.step = "commit" /\ Recorded(r) = {}
  /\ LET s == r.session
         ans == [NoAnswer EXCEPT !.kind = "committed", !.m = sess[s].m]
     IN IF sess[s].st = "open" /\ Complete(s)
        THEN /\ Commit(sess[s].m)
             /\ Deliver(r, ans)
             /\ records' = records \cup {[key |-> r.key, ans |-> ans]}
        ELSE /\ Deliver(r, Plain(IF sess[s].st = "open" THEN "missing" ELSE "notfound"))
             /\ UNCHANGED <<committed, seen, records>>
  /\ Consume(r)
  /\ UNCHANGED <<stored, sess>>

\* A commit answered 202.
HostAcceptCommit(r) ==
  /\ r.step = "commit" /\ Recorded(r) = {}
  /\ sess[r.session].st = "open" /\ sess[r.session].op = "none"
  /\ sess' = [sess EXCEPT ![r.session].op = "pending"]
  /\ Deliver(r, Plain("accepted"))
  /\ records' = records \cup {[key |-> r.key, ans |-> Plain("accepted")]}
  /\ Consume(r)
  /\ UNCHANGED <<stored, committed, seen>>

HostCommitOperation(s) ==
  /\ sess[s].op = "pending"
  /\ IF sess[s].st = "open" /\ Complete(s)
     THEN sess' = [sess EXCEPT ![s].op = "done"] /\ Commit(sess[s].m)
     ELSE sess' = [sess EXCEPT ![s].op = "failed"] /\ UNCHANGED <<committed, seen>>
  /\ UNCHANGED <<stored, records, net, inbox, call, nextCall>>

HostAbandon(r) ==
  /\ r.step = "abandon" /\ Recorded(r) = {}
  /\ sess' = [sess EXCEPT ![r.session].st = "gone"]
  /\ Deliver(r, Plain("abandoned"))
  /\ records' = records \cup {[key |-> r.key, ans |-> Plain("abandoned")]}
  /\ Consume(r)
  /\ UNCHANGED <<stored, committed, seen>>

\* A manifest no resource refers to is collected, with its sessions.
HostCollectManifest(m) ==
  /\ m \in committed
  /\ committed' = committed \ {m}
  /\ sess' = [s \in 1..MaxSessions |->
       IF sess[s].m = {m} THEN [sess[s] EXCEPT !.st = "gone"] ELSE sess[s]]
  /\ UNCHANGED <<stored, records, net, inbox, call, nextCall, seen>>

\* A blob of no committed manifest is collected, even between start and commit.
HostCollectBlob(b) ==
  /\ b \in stored
  /\ \A m \in committed : b \notin BlobsOf[m]
  /\ stored' = stored \ {b}
  /\ seen' = [c \in Clients |-> [seen[c] EXCEPT !.absent = @ \cup {b}, !.lost = TRUE]]
  /\ UNCHANGED <<committed, sess, records, net, inbox, call, nextCall>>

-----------------------------------------------------------------------------
ClientStep(c) ==
  \/ UploadArtifact(c) \/ AbandonUpload(c)
  \/ SendRequest(c) \/ CallFails(c) \/ RetryableError(c) \/ Refused(c)
  \/ StartAnswered(c) \/ NextBlob(c) \/ BlobStored(c) \/ AllBlobsSent(c)
  \/ CommitAnswered(c) \/ CommitAccepted(c) \/ PollEnds(c) \/ Abandoned(c)

HostStep ==
  \/ \E r \in net :
       \/ HostReplay(r) \/ HostBusy(r) \/ HostStart(r) \/ HostPut(r)
       \/ HostCommit(r) \/ HostAcceptCommit(r) \/ HostAbandon(r)
  \/ \E s \in 1..MaxSessions : HostCommitOperation(s)
  \/ \E m \in Manifests : HostCollectManifest(m)
  \/ \E b \in Blobs : HostCollectBlob(b)

Next == (\E c \in Clients : ClientStep(c)) \/ HostStep

Spec == Init /\ [][Next]_vars

-----------------------------------------------------------------------------
(* Properties.                                                               *)

Uploading(c) == call[c].step # "abandon"

\* UploadArtifact returns a digest only if the Host had that very manifest
\* committed at some moment of the call: an answer recorded before the manifest
\* was collected is never taken for a new commit, whichever session the Host
\* handed out, and whether the commit was direct or an Operation.
SuccessMeansCommitted ==
  \A c \in Clients :
    Uploading(c) /\ call[c].out = "ok" => call[c].m \in seen[c].committed

\* The caller is told to provide only a blob the Host lacked at some moment of
\* the call: a repeated upload is never answered with the blobs that were
\* missing in an earlier one, so it converges without bytes already uploaded.
AskedOnlyForAbsent ==
  \A c \in Clients : call[c].out = "unprovided" => call[c].blob \subseteq seen[c].absent

\* A commit is refused for missing blobs only if the Host itself lost a blob
\* during the call: every blob the session lacked was stored before the commit
\* was sent, whoever else was uploading, retrying or abandoning.
MissingOnlyAfterLoss ==
  \A c \in Clients : call[c].out = "missing" => seen[c].lost
=============================================================================
