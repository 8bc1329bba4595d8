--------------------------- MODULE RevocationChain ---------------------------
(***************************************************************************)
(* The cumulative revocation checkpoints of packages formpackage and trust *)
(* and the Hosts that follow them.  A publisher signs checkpoints; mirrors *)
(* serve any of them at any time, in any order.  A Host verifies one       *)
(* against its last pin, which yields a capability in memory and a new pin *)
(* that it persists, and asks the capability about packages.               *)
(*                                                                         *)
(* A digest is the index of the document in "published": no two documents  *)
(* there are equal, and a document can name only an older one.  The digest *)
(* of a list of entries is the list itself.  Signatures are not modelled:  *)
(* everything in "published" carries a good one, of one publisher.         *)
(***************************************************************************)
EXTENDS Integers, Sequences

CONSTANTS
  Hosts,         \* Hosts, each with a pin store of its own
  Packages,      \* package digests, each with its FormRef
  ProfileOf,     \* the FormRef profile of each package
  Entries,       \* entries a publisher may list: version, statement, package
  Profiles,      \* the profiles the publisher signs: "v1", "v1alpha1"
  MaxSeq,        \* bound: sequence of a checkpoint
  MaxPublished   \* bound: documents the publisher signs

ASSUME ProfilesAssumption ==
  /\ Profiles \subseteq {"v1", "v1alpha1"}
  /\ ProfileOf \in [Packages -> {"v1", "v1alpha1"}]
ASSUME EntriesAssumption ==
  \A e \in Entries : DOMAIN e = {"ver", "stmt", "pkg"} /\ e.pkg \in Packages
ASSUME ChainBoundsAssumption ==
  /\ MaxSeq \in Nat
  /\ MaxPublished \in Nat

VARIABLES
  published,  \* the signed checkpoints, in the order of signing
  pin,        \* each Host's persisted RevocationCheckpointPin
  cap,        \* each Host's RevocationCheckpointVerification, lost in a crash
  hist,       \* history: the digests each Host has pinned, in order
  verdict     \* history: the last answer of CheckNotRevoked to each Host

vars == <<published, pin, cap, hist, verdict>>

-----------------------------------------------------------------------------
(* Documents.                                                                *)

Lists == UNION {[1..n -> Entries] : n \in 0..MaxSeq}
Digest == 0..MaxPublished          \* 0: null, no document

Checkpoint == [api: Profiles, seq: 0..MaxSeq, ver: {"0.0.0"} \cup {e.ver : e \in Entries},
               prev: Digest, entries: Lists]

Pin == [api: {"none", "v1", "v1alpha1"}, seq: 0..MaxSeq, digest: Digest, entries: Lists]
NoPin == [api |-> "none", seq |-> 0, digest |-> 0, entries |-> <<>>]

Cap == [cp: Digest, pin: Pin]
NoCap == [cp |-> 0, pin |-> NoPin]

\* "at": how many checkpoints the Host had pinned when it was answered.
Verdict == [kind: {"none", "revoked", "clear"}, pkg: Packages \cup {"none"}, at: Nat]
NoVerdict == [kind |-> "none", pkg |-> "none", at |-> 0]

\* The only empty checkpoint of the current profile.
Genesis == [api |-> "v1", seq |-> 0, ver |-> "0.0.0", prev |-> 0, entries |-> <<>>]

\* The schemas: only the current profile has a sequence 0, the genesis, and
\* keeps 0.0.0 for it; an entry's own version is not restricted there.
SchemaHolds(cp) ==
  IF cp.api = "v1"
  THEN IF cp.seq = 0 THEN cp.ver = "0.0.0" /\ cp.prev = 0 /\ cp.entries = <<>>
                     ELSE cp.ver # "0.0.0" /\ cp.prev # 0
  ELSE cp.seq >= 1

NoDuplicates(entries) ==
  \A i, j \in DOMAIN entries :
    entries[i].ver = entries[j].ver \/ entries[i].stmt = entries[j].stmt => i = j

\* ValidateRevocationCheckpoint after the schema.
ValidCheckpoint(cp) ==
  /\ SchemaHolds(cp)
  /\ Len(cp.entries) = cp.seq
  /\ cp.api = "v1alpha1" => ((cp.seq = 1) <=> (cp.prev = 0))
  /\ \A i \in DOMAIN cp.entries : ProfileOf[cp.entries[i].pkg] = cp.api
  /\ NoDuplicates(cp.entries)
  /\ cp.seq > 0 => cp.entries[cp.seq].ver = cp.ver

-----------------------------------------------------------------------------
(* AdvanceRevocationCheckpoint.                                              *)

\* Without a previous pin: the start of a chain.
Starts(cp) == cp.prev = 0 /\ cp.seq = IF cp.api = "v1" THEN 0 ELSE 1

\* Mutated form: the entries of the predecessor are not compared.
ExtendsAnyEntries(p, cp) ==
  /\ cp.api = p.api
  /\ cp.seq = p.seq + 1
  /\ cp.prev = p.digest

\* With one: the same profile, the next sequence, the pinned digest and the
\* pinned entries as a prefix; a pin of sequence 0 is the exact genesis.
Extends(p, cp) ==
  /\ cp.api = p.api
  /\ p.api = "v1" /\ p.seq = 0 => published[p.digest] = Genesis /\ p.entries = <<>>
  /\ cp.seq = p.seq + 1
  /\ cp.prev = p.digest
  /\ SubSeq(cp.entries, 1, p.seq) = p.entries

\* Mutated form: a document that starts a chain is taken whatever is pinned.
AcceptsAnyStart(p, cp) ==
  /\ ValidCheckpoint(cp)
  /\ Starts(cp) \/ (p # NoPin /\ Extends(p, cp))

Accepts(p, cp) ==
  /\ ValidCheckpoint(cp)
  /\ IF p = NoPin THEN Starts(cp) ELSE Extends(p, cp)

\* Mutated form: the entries digest of the pin is not renewed.
NewPinKeepsEntries(p, d) ==
  [api |-> published[d].api, seq |-> published[d].seq, digest |-> d,
   entries |-> IF p = NoPin THEN published[d].entries ELSE p.entries]

\* The pin an advance returns: it keeps the profile of the one it extends.
NewPin(p, d) ==
  [api |-> IF p = NoPin THEN published[d].api ELSE p.api, seq |-> published[d].seq,
   digest |-> d, entries |-> published[d].entries]

-----------------------------------------------------------------------------
Init ==
  /\ published = <<>>
  /\ pin = [h \in Hosts |-> NoPin]
  /\ cap = [h \in Hosts |-> NoCap]
  /\ hist = [h \in Hosts |-> <<>>]
  /\ verdict = [h \in Hosts |-> NoVerdict]

\* The publisher (external) signs a document no verifier refuses outright; it
\* may fork its chain, rewrite it or start another.
Publish ==
  /\ Len(published) < MaxPublished
  /\ \E cp \in Checkpoint :
       /\ cp.prev <= Len(published)
       /\ \A i \in DOMAIN published : published[i] # cp
       /\ ValidCheckpoint(cp)
       /\ published' = Append(published, cp)
  /\ UNCHANGED <<pin, cap, hist, verdict>>

\* VerifyRevocationCheckpoint of the document d against the persisted pin; the
\* first one has none.
VerifyRevocationCheckpoint(h, d) ==
  /\ Accepts(pin[h], published[d])
  /\ cap' = [cap EXCEPT ![h] = [cp |-> d, pin |-> NewPin(pin[h], d)]]
  /\ UNCHANGED <<published, pin, hist, verdict>>

\* The caller stores the pin it was given (external).
PersistPin(h) ==
  /\ cap[h] # NoCap
  /\ cap[h].pin # pin[h]
  /\ pin' = [pin EXCEPT ![h] = cap[h].pin]
  /\ hist' = [hist EXCEPT ![h] = Append(hist[h], cap[h].cp)]
  /\ UNCHANGED <<published, cap, verdict>>

ListsPackage(entries, p) == \E i \in DOMAIN entries : entries[i].pkg = p

\* CheckNotRevoked, on a package of the checkpoint's profile; on another one
\* it answers neither way.  Nothing asks for the new pin to be stored first: the
\* command check-not-revoked verifies and asks in one go.
CheckNotRevoked(h, p) ==
  /\ cap[h] # NoCap
  /\ ProfileOf[p] = published[cap[h].cp].api
  /\ verdict' = [verdict EXCEPT ![h] =
       [kind |-> IF ListsPackage(published[cap[h].cp].entries, p) THEN "revoked" ELSE "clear",
        pkg |-> p, at |-> Len(hist[h])]]
  /\ UNCHANGED <<published, pin, cap, hist>>

\* The process ends; the capability, which cannot be stored, is gone.
Crash(h) ==
  /\ cap[h] # NoCap
  /\ cap' = [cap EXCEPT ![h] = NoCap]
  /\ UNCHANGED <<published, pin, hist, verdict>>

Next ==
  \/ Publish
  \/ \E h \in Hosts :
       \/ \E d \in DOMAIN published : VerifyRevocationCheckpoint(h, d)
       \/ PersistPin(h) \/ Crash(h)
       \/ \E p \in Packages : CheckNotRevoked(h, p)

Spec == Init /\ [][Next]_vars

-----------------------------------------------------------------------------
(* Properties.                                                               *)

ChainTypeOK ==
  /\ published \in Seq(Checkpoint) /\ Len(published) <= MaxPublished
  /\ pin \in [Hosts -> Pin] /\ \A h \in Hosts : Len(pin[h].entries) = pin[h].seq
  /\ cap \in [Hosts -> Cap]
  /\ hist \in [Hosts -> Seq(1..MaxPublished)]
  /\ verdict \in [Hosts -> Verdict]

\* Refinement: behind its pins every Host holds a log of denials of one profile
\* that grows by one entry at a time and is never rewritten, whatever the
\* publisher signs, the mirrors serve, and wherever the Host crashes.
Log == INSTANCE RevocationLog WITH
  profile <- [h \in Hosts |-> pin[h].api],
  log <- [h \in Hosts |-> pin[h].entries]

AppendOnlyLog == Log!Spec

\* Two Hosts that ever pinned the same checkpoint pinned the same ones before
\* it: once a publisher has shown them different checkpoints, no later one can
\* bring them together again, so a fork cannot be hidden.
HistoriesAgree ==
  \A g, h \in Hosts :
    \A i \in DOMAIN hist[g], j \in DOMAIN hist[h] :
      hist[g][i] = hist[h][j] =>
        i = j /\ \A k \in 1..i : hist[g][k] = hist[h][k]

\* 0.0.0 denies nothing in a current chain.  Only the version of the last entry
\* is compared with the reserved one, and older entries only with the pin; that
\* is enough because every pinned entry was the last one once.
NoReservedVersion ==
  \A h \in Hosts :
    pin[h].api = "v1" =>
      \A i \in DOMAIN pin[h].entries : pin[h].entries[i].ver # "0.0.0"

\* A package that any checkpoint a Host had pinned lists is not reported clear
\* to it: rollback, omission, fork and rewrite fail closed, and so does an answer
\* asked before the pin that comes with it is stored.  Only pins bind: a denial
\* read from a document whose pin was never stored may be gone from the next.
PinnedDenialHolds ==
  \A h \in Hosts :
    verdict[h].kind = "clear" =>
      \A i \in 1..verdict[h].at :
        ~ListsPackage(published[hist[h][i]].entries, verdict[h].pkg)

\* A checkpoint that names the document a Host pinned and adds one entry to its
\* list is accepted: no Host is ever stuck behind its pin, wherever it crashed
\* and whatever forks it was shown.
NeverWedged ==
  \A h \in Hosts, d \in DOMAIN published :
    /\ pin[h] # NoPin
    /\ published[d].prev = pin[h].digest
    /\ published[d].api = published[pin[h].digest].api
    /\ published[d].seq = published[pin[h].digest].seq + 1
    /\ SubSeq(published[d].entries, 1, published[pin[h].digest].seq)
         = published[pin[h].digest].entries
    => Accepts(pin[h], published[d])
=============================================================================
