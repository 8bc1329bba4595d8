------------------------ MODULE RevocationChainProofs ------------------------
(***************************************************************************)
(* Theorems about RevocationChain, for every number of Hosts, every set of *)
(* entries and every bound.                                                *)
(***************************************************************************)
EXTENDS RevocationChain, SequenceTheorems, TLAPS

-----------------------------------------------------------------------------
(* Facts about lists of entries.                                             *)

\* The lists a checkpoint may carry are sequences of entries.
LEMMA ListsAreSequences == \A l \in Lists : l \in Seq(Entries)
BY ChainBoundsAssumption, SeqDef DEF Lists

\* A list one longer than another that is its prefix is that list and one more.
LEMMA OneMore ==
  ASSUME NEW S, NEW s \in Seq(S), NEW t \in Seq(S),
         Len(s) = Len(t) + 1, SubSeq(s, 1, Len(t)) = t
  PROVE  s[Len(s)] \in S /\ s = Append(t, s[Len(s)])
<1>1. Len(t) \in Nat /\ Len(s) \in Nat
  BY LenProperties
<1>2. s[Len(s)] \in S
  BY <1>1, ElementOfSeq
<1>3. \A i \in 1..Len(t) : s[i] \in S
  BY <1>1, ElementOfSeq
<1>4. \A i \in 1..Len(t) : t[i] = s[i]
  <2>1. \A i \in 1..(Len(t) - 1 + 1) : SubSeq(s, 1, Len(t))[i] = s[1 + i - 1]
    BY <1>1, <1>3, SubSeqProperties
  <2> QED  BY <2>1, <1>1
<1>5. /\ Append(t, s[Len(s)]) \in Seq(S)
      /\ Len(Append(t, s[Len(s)])) = Len(s)
      /\ \A i \in 1..Len(t) : Append(t, s[Len(s)])[i] = t[i]
      /\ Append(t, s[Len(s)])[Len(s)] = s[Len(s)]
  BY <1>2, AppendProperties
<1>6. \A i \in 1..Len(s) : s[i] = Append(t, s[Len(s)])[i]
  BY <1>1, <1>4, <1>5
<1> QED  BY <1>2, <1>5, <1>6, SeqEqual

\* A sequence of length one holds its one element.
LEMMA OneOnly ==
  ASSUME NEW S, NEW s \in Seq(S), Len(s) = 1
  PROVE  s[1] \in S /\ s = <<s[1]>>
<1>1. s[1] \in S
  BY ElementOfSeq
<1>2. <<s[1]>> \in Seq(S) /\ Len(<<s[1]>>) = 1 /\ <<s[1]>>[1] = s[1]
  BY <1>1
<1> QED  BY <1>1, <1>2, SeqEqual

-----------------------------------------------------------------------------
(* The pins and capabilities a Host can hold.                                *)

\* p is the pin of a signed document.
DocPin(p) ==
  /\ p.digest \in DOMAIN published
  /\ p.api = published[p.digest].api
  /\ p.seq = published[p.digest].seq
  /\ p.entries = published[p.digest].entries

\* Every document was valid when it was signed and names an older one.
DocsValid ==
  \A d \in DOMAIN published : ValidCheckpoint(published[d]) /\ published[d].prev < d

PinsFromDocs == \A h \in Hosts : pin[h] = NoPin \/ DocPin(pin[h])

\* A capability is that of the pinned document or of one the pin accepts.
CapsFollowPins ==
  \A h \in Hosts :
    cap[h] # NoCap =>
      /\ DocPin(cap[h].pin)
      /\ cap[h].pin.digest = cap[h].cp
      /\ cap[h].pin = pin[h] \/ Accepts(pin[h], published[cap[h].cp])

Types ==
  /\ published \in Seq(Checkpoint) /\ Len(published) <= MaxPublished
  /\ pin \in [Hosts -> Pin]
  /\ cap \in [Hosts -> Cap]
  /\ hist \in [Hosts -> Seq(1..MaxPublished)]
  /\ verdict \in [Hosts -> Verdict]

ChainInv == Types /\ DocsValid /\ PinsFromDocs /\ CapsFollowPins

\* The empty values have their types.
LEMMA EmptyTypes == <<>> \in Lists /\ NoPin \in Pin /\ NoCap \in Cap /\ NoVerdict \in Verdict
<1>1. <<>> \in Lists
  <2>1. <<>> \in [1..0 -> Entries]  OBVIOUS
  <2>2. 0 \in 0..MaxSeq  BY ChainBoundsAssumption
  <2> QED  BY <2>1, <2>2 DEF Lists
<1> QED
  BY <1>1, ChainBoundsAssumption DEF NoPin, Pin, NoCap, Cap, NoVerdict, Verdict, Digest

\* What a document contributes to a pin is within the types of a pin.
LEMMA DocFields ==
  ASSUME Types, NEW d \in DOMAIN published
  PROVE  /\ d \in 1..Len(published) /\ d \in 1..MaxPublished /\ Len(published) \in Nat
         /\ published[d] \in Checkpoint
<1>1. Len(published) \in Nat /\ DOMAIN published = 1..Len(published)
  BY LenProperties DEF Types
<1>2. d \in 1..Len(published)
  BY <1>1
<1>3. published[d] \in Checkpoint
  BY <1>2, ElementOfSeq DEF Types
<1> QED  BY <1>1, <1>2, <1>3, ChainBoundsAssumption DEF Types

\* Signing one more document leaves the earlier ones, their pins and what a pin
\* accepts among them as they are.
LEMMA SigningKeeps ==
  ASSUME Types, NEW cp \in Checkpoint, published' = Append(published, cp)
  PROVE  /\ published' \in Seq(Checkpoint)
         /\ Len(published') = Len(published) + 1
         /\ DOMAIN published' = DOMAIN published \cup {Len(published) + 1}
         /\ published'[Len(published) + 1] = cp
         /\ \A d \in DOMAIN published : published'[d] = published[d]
<1>1. published \in Seq(Checkpoint) /\ Len(published) \in Nat /\ DOMAIN published = 1..Len(published)
  BY LenProperties DEF Types
<1>2. /\ published' \in Seq(Checkpoint)
      /\ Len(published') = Len(published) + 1
      /\ \A d \in 1..Len(published) : published'[d] = published[d]
      /\ published'[Len(published) + 1] = cp
  BY <1>1, AppendProperties
<1>3. DOMAIN published' = 1..(Len(published) + 1)
  BY <1>2, LenProperties
<1> QED  BY <1>1, <1>2, <1>3

-----------------------------------------------------------------------------
(* The inductive invariant.                                                  *)

\* The invariant holds before anything is signed.
LEMMA InitChainInv == Init => ChainInv
<1> SUFFICES ASSUME Init PROVE ChainInv
  OBVIOUS
<1>1. Types
  <2>1. <<>> \in Seq(Checkpoint) /\ Len(<<>>) = 0 /\ <<>> \in Seq(1..MaxPublished)
    BY EmptySeq
  <2> QED  BY <2>1, EmptyTypes, ChainBoundsAssumption DEF Init, Types
<1>2. DOMAIN published = {}
  BY DEF Init
<1> QED  BY <1>1, <1>2 DEF Init, ChainInv, DocsValid, PinsFromDocs, CapsFollowPins

\* A signed document changes no pin, and no verdict on an older document.
LEMMA PublishKeeps == ChainInv /\ Publish => ChainInv'
<1> SUFFICES ASSUME ChainInv, Publish PROVE ChainInv'
  OBVIOUS
<1> USE DEF ChainInv
<1>1. PICK cp \in Checkpoint :
        /\ cp.prev <= Len(published)
        /\ ValidCheckpoint(cp)
        /\ published' = Append(published, cp)
  BY DEF Publish
<1>2. /\ published' \in Seq(Checkpoint)
      /\ Len(published') = Len(published) + 1
      /\ DOMAIN published' = DOMAIN published \cup {Len(published) + 1}
      /\ published'[Len(published) + 1] = cp
      /\ \A d \in DOMAIN published : published'[d] = published[d]
  BY <1>1, SigningKeeps
<1>3. Len(published) \in Nat /\ Len(published) < MaxPublished /\ cp.prev \in Nat
  BY <1>1, LenProperties, ChainBoundsAssumption DEF Publish, Types, Checkpoint, Digest
<1>4. Types'
  BY <1>2, <1>3, ChainBoundsAssumption DEF Types, Publish
<1>5. DocsValid'
  <2> SUFFICES ASSUME NEW d \in DOMAIN published'
               PROVE  ValidCheckpoint(published'[d]) /\ published'[d].prev < d
    BY DEF DocsValid
  <2>1. CASE d \in DOMAIN published
    BY <2>1, <1>2 DEF DocsValid
  <2>2. CASE d = Len(published) + 1
    BY <2>2, <1>1, <1>2, <1>3
  <2> QED  BY <2>1, <2>2, <1>2
<1>6. ASSUME NEW p, DocPin(p) PROVE DocPin(p)'
  BY <1>2, <1>6 DEF DocPin
<1>7. PinsFromDocs'
  BY <1>6 DEF PinsFromDocs, Publish, DocPin
<1>8. CapsFollowPins'
  <2> SUFFICES ASSUME NEW h \in Hosts, cap[h] # NoCap
               PROVE  /\ DocPin(cap[h].pin)'
                      /\ cap[h].pin.digest = cap[h].cp
                      /\ cap[h].pin = pin[h] \/ Accepts(pin[h], published[cap[h].cp])'
    BY DEF CapsFollowPins, Publish
  <2>1. /\ DocPin(cap[h].pin)
        /\ cap[h].pin.digest = cap[h].cp
        /\ cap[h].pin = pin[h] \/ Accepts(pin[h], published[cap[h].cp])
    BY DEF CapsFollowPins
  <2>2. published'[cap[h].cp] = published[cap[h].cp]
    BY <2>1, <1>2 DEF DocPin
  <2>3. UNCHANGED <<pin, cap>>
    BY DEF Publish
  <2>4. pin[h] # NoPin => published'[pin[h].digest] = published[pin[h].digest]
    BY <1>2 DEF PinsFromDocs, DocPin
  <2>5. Accepts(pin[h], published[cap[h].cp]) => Accepts(pin[h], published[cap[h].cp])'
    BY <2>2, <2>3, <2>4
    DEF Accepts, Extends
  <2>6. DocPin(cap[h].pin)'
    BY <1>2, <2>1, <2>3 DEF DocPin
  <2> QED  BY <2>1, <2>3, <2>5, <2>6
<1> QED  BY <1>4, <1>5, <1>7, <1>8

\* The pin an accepted document yields is that document's.
LEMMA NewPinIsDoc ==
  ASSUME ChainInv, NEW h \in Hosts, NEW d \in DOMAIN published, Accepts(pin[h], published[d])
  PROVE  DocPin(NewPin(pin[h], d)) /\ NewPin(pin[h], d) \in Pin /\ NewPin(pin[h], d).digest = d
<1>1. d \in 1..MaxPublished /\ published[d] \in Checkpoint
  BY DocFields DEF ChainInv
<1>2. NewPin(pin[h], d).api = published[d].api
  BY DEF NewPin, Accepts, Extends
<1>3. NewPin(pin[h], d) \in Pin
  <2>1. /\ published[d].api \in {"none", "v1", "v1alpha1"}
        /\ published[d].seq \in 0..MaxSeq
        /\ published[d].entries \in Lists
    BY <1>1, ProfilesAssumption DEF Checkpoint
  <2>2. d \in Digest
    BY <1>1, ChainBoundsAssumption DEF Digest
  <2>3. NewPin(pin[h], d) = [api |-> published[d].api, seq |-> published[d].seq,
                            digest |-> d, entries |-> published[d].entries]
    BY <1>2 DEF NewPin
  <2> QED  BY <2>1, <2>2, <2>3 DEF Pin
<1> QED  BY <1>2, <1>3 DEF NewPin, DocPin

\* Verifying a document gives the Host a capability for it, and nothing else.
LEMMA VerifyKeeps ==
  ASSUME ChainInv, NEW h \in Hosts, NEW d \in DOMAIN published, VerifyRevocationCheckpoint(h, d)
  PROVE  ChainInv'
<1> USE DEF ChainInv
<1> DEFINE new == NewPin(pin[h], d)
<1>1. Accepts(pin[h], published[d])
  BY DEF VerifyRevocationCheckpoint
<1>2. DocPin(new) /\ new \in Pin /\ new.digest = d
  BY <1>1, NewPinIsDoc
<1>3. d \in Digest
  BY DocFields, ChainBoundsAssumption DEF Digest
<1> HIDE DEF new
<1>4. UNCHANGED <<published, pin, hist, verdict>>
  BY DEF VerifyRevocationCheckpoint
<1>5. cap' = [cap EXCEPT ![h] = [cp |-> d, pin |-> new]]
  BY DEF VerifyRevocationCheckpoint, new
<1>6. Types'
  BY <1>2, <1>3, <1>4, <1>5 DEF Types, Cap
<1>7. DocsValid' /\ PinsFromDocs'
  BY <1>4 DEF DocsValid, PinsFromDocs, DocPin
<1>8. CapsFollowPins'
  <2> SUFFICES ASSUME NEW g \in Hosts, cap'[g] # NoCap
               PROVE  /\ DocPin(cap'[g].pin)
                      /\ cap'[g].pin.digest = cap'[g].cp
                      /\ cap'[g].pin = pin[g] \/ Accepts(pin[g], published[cap'[g].cp])
    BY <1>4 DEF CapsFollowPins, DocPin, Accepts, Extends
  <2>1. CASE g = h
    <3>1. cap'[g].cp = d /\ cap'[g].pin = new
      BY <2>1, <1>5 DEF Types
    <3> QED  BY <3>1, <2>1, <1>1, <1>2
  <2>2. CASE g # h
    <3>1. cap'[g] = cap[g]
      BY <2>2, <1>5 DEF Types
    <3> QED  BY <3>1 DEF CapsFollowPins
  <2> QED  BY <2>1, <2>2
<1> QED  BY <1>6, <1>7, <1>8

\* Storing the pin of a capability keeps the invariant.
LEMMA PersistKeeps ==
  ASSUME ChainInv, NEW h \in Hosts, PersistPin(h)
  PROVE  ChainInv'
<1> USE DEF ChainInv
<1>1. UNCHANGED <<published, cap, verdict>> /\ cap[h] # NoCap
  BY DEF PersistPin
<1>2. DocPin(cap[h].pin) /\ cap[h].pin.digest = cap[h].cp
  BY <1>1 DEF CapsFollowPins
<1>3. cap[h].cp \in 1..MaxPublished
  BY <1>2, DocFields DEF DocPin
<1>4. pin' = [pin EXCEPT ![h] = cap[h].pin] /\ cap[h].pin \in Pin
  BY DEF PersistPin, Types, Cap
<1>5. hist' \in [Hosts -> Seq(1..MaxPublished)]
  BY <1>3, AppendProperties DEF PersistPin, Types
<1>6. Types'
  BY <1>1, <1>4, <1>5 DEF Types
<1>7. DocsValid'
  BY <1>1 DEF DocsValid
<1>8. PinsFromDocs'
  <2> SUFFICES ASSUME NEW g \in Hosts PROVE pin'[g] = NoPin \/ DocPin(pin'[g])
    BY <1>1 DEF PinsFromDocs, DocPin
  <2>1. pin'[g] = IF g = h THEN cap[h].pin ELSE pin[g]
    BY <1>4 DEF Types
  <2> QED  BY <2>1, <1>2 DEF PinsFromDocs
<1>9. CapsFollowPins'
  <2> SUFFICES ASSUME NEW g \in Hosts, cap[g] # NoCap
               PROVE  /\ DocPin(cap[g].pin)
                      /\ cap[g].pin.digest = cap[g].cp
                      /\ cap[g].pin = pin'[g] \/ Accepts(pin'[g], published[cap[g].cp])
    BY <1>1 DEF CapsFollowPins, DocPin, Accepts, Extends
  <2>1. pin'[g] = IF g = h THEN cap[h].pin ELSE pin[g]
    BY <1>4 DEF Types
  <2> QED  BY <2>1 DEF CapsFollowPins
<1> QED  BY <1>6, <1>7, <1>8, <1>9

\* Losing the capability keeps the invariant.
LEMMA CrashKeeps ==
  ASSUME ChainInv, NEW h \in Hosts, Crash(h)
  PROVE  ChainInv'
<1> USE DEF ChainInv
<1>1. UNCHANGED <<published, pin, hist, verdict>> /\ cap' = [cap EXCEPT ![h] = NoCap]
  BY DEF Crash
<1>2. Types'
  BY <1>1, EmptyTypes DEF Types
<1>3. DocsValid' /\ PinsFromDocs'
  BY <1>1 DEF DocsValid, PinsFromDocs, DocPin
<1>4. CapsFollowPins'
  <2> SUFFICES ASSUME NEW g \in Hosts, cap'[g] # NoCap
               PROVE  /\ DocPin(cap'[g].pin)
                      /\ cap'[g].pin.digest = cap'[g].cp
                      /\ cap'[g].pin = pin[g] \/ Accepts(pin[g], published[cap'[g].cp])
    BY <1>1 DEF CapsFollowPins, DocPin, Accepts, Extends
  <2>1. cap'[g] = cap[g]
    BY <1>1 DEF Types
  <2> QED  BY <2>1 DEF CapsFollowPins
<1> QED  BY <1>2, <1>3, <1>4

\* An answer changes nothing but what is remembered of it; so does a stutter.
LEMMA AnswerKeeps ==
  ASSUME ChainInv, UNCHANGED <<published, pin, cap, hist>>,
         verdict' \in [Hosts -> Verdict]
  PROVE  ChainInv'
<1> USE DEF ChainInv
<1>1. Types'
  BY DEF Types
<1>2. DocsValid' /\ PinsFromDocs'
  BY DEF DocsValid, PinsFromDocs, DocPin
<1>3. CapsFollowPins'
  BY DEF CapsFollowPins, DocPin, Accepts, Extends
<1> QED  BY <1>1, <1>2, <1>3

\* Every step keeps the invariant.
LEMMA NextKeepsChainInv == ChainInv /\ [Next]_vars => ChainInv'
<1> SUFFICES ASSUME ChainInv, [Next]_vars PROVE ChainInv'
  OBVIOUS
<1>1. CASE Publish
  BY <1>1, PublishKeeps
<1>2. ASSUME NEW h \in Hosts, NEW d \in DOMAIN published, VerifyRevocationCheckpoint(h, d)
      PROVE  ChainInv'
  BY <1>2, VerifyKeeps
<1>3. ASSUME NEW h \in Hosts, PersistPin(h) PROVE ChainInv'
  BY <1>3, PersistKeeps
<1>4. ASSUME NEW h \in Hosts, Crash(h) PROVE ChainInv'
  BY <1>4, CrashKeeps
<1>5. ASSUME NEW h \in Hosts, NEW p \in Packages, CheckNotRevoked(h, p) PROVE ChainInv'
  <2>1. verdict' \in [Hosts -> Verdict]
    <3>1. Len(hist[h]) \in Nat
      BY LenProperties DEF ChainInv, Types
    <3>2. \A k \in {"revoked", "clear"} : [kind |-> k, pkg |-> p, at |-> Len(hist[h])] \in Verdict
      BY <3>1 DEF Verdict
    <3> QED  BY <1>5, <3>2 DEF CheckNotRevoked, ChainInv, Types
  <2> QED  BY <1>5, <2>1, AnswerKeeps DEF CheckNotRevoked
<1>6. CASE UNCHANGED vars
  BY <1>6, AnswerKeeps DEF vars, ChainInv, Types
<1> QED  BY <1>1, <1>2, <1>3, <1>4, <1>5, <1>6 DEF Next

\* Every pin and capability a Host holds is that of a valid signed document.
THEOREM ChainInvAlways == Spec => []ChainInv
BY InitChainInv, NextKeepsChainInv, PTL DEF Spec

\* A pin is that of a signed document, so its entries are as many as its
\* sequence says, and its profile is one a publisher signs.
LEMMA PinShape ==
  ASSUME ChainInv, NEW p \in Pin, DocPin(p)
  PROVE  /\ p.api \in {"v1", "v1alpha1"} /\ p # NoPin
         /\ p.entries \in Seq(Entries) /\ Len(p.entries) = p.seq /\ p.seq \in Nat
<1>1. /\ p.digest \in DOMAIN published
      /\ p.api = published[p.digest].api
      /\ p.seq = published[p.digest].seq
      /\ p.entries = published[p.digest].entries
  BY DEF DocPin
<1>2. published[p.digest] \in Checkpoint /\ p.digest \in 1..MaxPublished
  BY <1>1, DocFields DEF ChainInv
<1>3. ValidCheckpoint(published[p.digest])
  BY <1>1 DEF ChainInv, DocsValid
<1>4. p.api \in {"v1", "v1alpha1"} /\ p.seq \in Nat
  <2>1. p.api \in Profiles /\ p.seq \in 0..MaxSeq
    BY <1>1, <1>2 DEF Checkpoint
  <2>2. p.seq \in Nat
    BY <2>1, ChainBoundsAssumption
  <2> QED  BY <2>1, <2>2, ProfilesAssumption
<1>5. p # NoPin
  BY <1>4 DEF NoPin
<1>6. p.entries \in Seq(Entries)
  BY ListsAreSequences DEF Pin
<1>7. Len(p.entries) = p.seq
  BY <1>1, <1>3 DEF ValidCheckpoint
<1> QED  BY <1>4, <1>5, <1>6, <1>7

\* The state of the Hosts has its type, and every pin lists as many entries as
\* its sequence says.
THEOREM ChainTypeCorrect == Spec => []ChainTypeOK
<1>1. ChainInv => ChainTypeOK
  <2> SUFFICES ASSUME ChainInv, NEW h \in Hosts PROVE Len(pin[h].entries) = pin[h].seq
    BY DEF ChainInv, Types, ChainTypeOK
  <2>1. CASE pin[h] = NoPin
    BY <2>1, EmptySeq DEF NoPin
  <2>2. CASE DocPin(pin[h])
    BY <2>2, PinShape DEF ChainInv, Types
  <2> QED  BY <2>1, <2>2 DEF ChainInv, PinsFromDocs
<1> QED  BY <1>1, ChainInvAlways, PTL

-----------------------------------------------------------------------------
(* One step of a pin.                                                        *)

\* What PersistPin does to the log behind the pin: it starts one, empty for the
\* current profile and of one entry for the legacy one, or appends one entry.
\* An entry appended to a current log is not under the reserved version.
LEMMA PersistAppends ==
  ASSUME ChainInv, NEW h \in Hosts, PersistPin(h)
  PROVE  LET new == cap[h].pin
             last == new.entries[new.seq]
         IN /\ pin' = [pin EXCEPT ![h] = new]
            /\ \/ pin[h].api = "none" /\ new.api = "v1" /\ new.entries = <<>>
               \/ /\ pin[h].api = "none" /\ new.api = "v1alpha1"
                  /\ last \in Entries /\ new.entries = <<last>>
               \/ /\ pin[h].api # "none" /\ new.api = pin[h].api
                  /\ last \in Entries /\ new.entries = Append(pin[h].entries, last)
                  /\ new.api = "v1" => last.ver # "0.0.0"
<1> DEFINE new == cap[h].pin
<1> DEFINE doc == published[cap[h].cp]
<1>1. cap[h] # NoCap /\ new # pin[h] /\ pin' = [pin EXCEPT ![h] = new]
  BY DEF PersistPin
<1>2. DocPin(new) /\ new.digest = cap[h].cp /\ Accepts(pin[h], doc)
  BY <1>1 DEF ChainInv, CapsFollowPins
<1>3. new \in Pin /\ pin[h] \in Pin
  BY DEF ChainInv, Types, Cap
<1>4. /\ new.api \in {"v1", "v1alpha1"}
      /\ new.entries \in Seq(Entries) /\ Len(new.entries) = new.seq /\ new.seq \in Nat
  BY <1>2, <1>3, PinShape
<1>5. new.api = doc.api /\ new.seq = doc.seq /\ new.entries = doc.entries /\ ValidCheckpoint(doc)
  BY <1>2 DEF DocPin, Accepts
<1> HIDE DEF new, doc
<1>6. CASE pin[h] = NoPin
  <2>1. Starts(doc)
    BY <1>2, <1>6 DEF Accepts
  <2>2. pin[h].api = "none"
    BY <1>6 DEF NoPin
  <2>3. CASE new.api = "v1"
    <3>1. new.entries = <<>>
      BY <2>1, <2>3, <1>4, <1>5, EmptySeq DEF Starts
    <3> QED  BY <3>1, <2>2, <2>3, <1>1 DEF new
  <2>4. CASE new.api = "v1alpha1"
    <3>1. new.seq = 1
      BY <2>1, <2>4, <1>5 DEF Starts
    <3>2. new.entries[new.seq] \in Entries /\ new.entries = <<new.entries[new.seq]>>
      BY <3>1, <1>4, OneOnly
    <3> QED  BY <3>2, <2>2, <2>4, <1>1 DEF new
  <2> QED  BY <2>3, <2>4, <1>4
<1>7. CASE pin[h] # NoPin
  <2>1. Extends(pin[h], doc)
    BY <1>2, <1>7 DEF Accepts
  <2>2. DocPin(pin[h])
    BY <1>7 DEF ChainInv, PinsFromDocs
  <2>3. /\ pin[h].api \in {"v1", "v1alpha1"} /\ pin[h].seq \in Nat
        /\ pin[h].entries \in Seq(Entries) /\ Len(pin[h].entries) = pin[h].seq
    BY <2>2, <1>3, PinShape
  <2>4. new.api = pin[h].api /\ new.seq = pin[h].seq + 1
    BY <2>1, <1>5 DEF Extends
  <2>5. SubSeq(new.entries, 1, Len(pin[h].entries)) = pin[h].entries
    BY <2>1, <2>3, <1>5 DEF Extends
  <2>6. /\ new.entries[new.seq] \in Entries
        /\ new.entries = Append(pin[h].entries, new.entries[new.seq])
    BY <2>3, <2>4, <2>5, <1>4, OneMore
  <2>7. new.api = "v1" => new.entries[new.seq].ver # "0.0.0"
    BY <2>3, <2>4, <1>5 DEF ValidCheckpoint, SchemaHolds
  <2> QED  BY <2>3, <2>4, <2>6, <2>7, <1>1 DEF new
<1> QED  BY <1>6, <1>7

\* Every other step leaves the pins alone.
LEMMA OthersKeepPins ==
  ASSUME [Next]_vars, \A h \in Hosts : ~PersistPin(h)
  PROVE  UNCHANGED <<pin, hist>>
BY DEF Next, vars, Publish, VerifyRevocationCheckpoint, CheckNotRevoked, Crash

-----------------------------------------------------------------------------
(* Refinement.                                                               *)

\* A Host's log is adopted once and then grows by one entry at a time, whatever
\* is signed, served or lost: every step of the chain is a step of RevocationLog
\* or leaves the logs alone.
THEOREM AppendOnly == Spec => AppendOnlyLog
<1>1. Init => Log!Init
  BY DEF Init, Log!Init, NoPin
<1>2. ChainInv /\ [Next]_vars => [Log!Next]_(Log!vars)
  <2> SUFFICES ASSUME ChainInv, [Next]_vars PROVE [Log!Next]_(Log!vars)
    OBVIOUS
  <2>1. CASE \A h \in Hosts : ~PersistPin(h)
    BY <2>1, OthersKeepPins DEF Log!vars
  <2>2. ASSUME NEW h \in Hosts, PersistPin(h) PROVE Log!Next
    <3> DEFINE new == cap[h].pin
    <3> DEFINE last == new.entries[new.seq]
    <3>1. pin' = [pin EXCEPT ![h] = new] /\ pin \in [Hosts -> Pin]
      BY <2>2, PersistAppends DEF ChainInv, Types
    <3>2. \/ pin[h].api = "none" /\ new.api = "v1" /\ new.entries = <<>>
          \/ /\ pin[h].api = "none" /\ new.api = "v1alpha1"
             /\ last \in Entries /\ new.entries = <<last>>
          \/ /\ pin[h].api # "none" /\ new.api = pin[h].api
             /\ last \in Entries /\ new.entries = Append(pin[h].entries, last)
      BY <2>2, PersistAppends
    <3> HIDE DEF new
    <3>3. /\ [g \in Hosts |-> pin'[g].api] = [[g \in Hosts |-> pin[g].api] EXCEPT ![h] = new.api]
          /\ [g \in Hosts |-> pin'[g].entries]
               = [[g \in Hosts |-> pin[g].entries] EXCEPT ![h] = new.entries]
      BY <3>1
    <3>4. CASE pin[h].api = "none" /\ new.api = "v1" /\ new.entries = <<>>
      <4>1. pin[h].entries = <<>>
        <5>1. pin[h] = NoPin \/ DocPin(pin[h])
          BY DEF ChainInv, PinsFromDocs
        <5>2. ~DocPin(pin[h])
          BY <3>1, <3>4, PinShape
        <5> QED  BY <5>1, <5>2 DEF NoPin
      <4>2. Log!AdoptCurrent(h)
        BY <3>3, <3>4, <4>1 DEF Log!AdoptCurrent
      <4> QED  BY <4>2 DEF Log!Next
    <3>5. CASE /\ pin[h].api = "none" /\ new.api = "v1alpha1"
               /\ last \in Entries /\ new.entries = <<last>>
      <4>1. Log!AdoptLegacy(h)
        BY <3>3, <3>5 DEF Log!AdoptLegacy
      <4> QED  BY <4>1 DEF Log!Next
    <3>6. CASE /\ pin[h].api # "none" /\ new.api = pin[h].api
               /\ last \in Entries /\ new.entries = Append(pin[h].entries, last)
      <4>1. Log!Deny(h)
        BY <3>3, <3>6 DEF Log!Deny
      <4> QED  BY <4>1 DEF Log!Next
    <3> QED  BY <3>2, <3>4, <3>5, <3>6
  <2> QED  BY <2>1, <2>2
<1> QED  BY <1>1, <1>2, ChainInvAlways, PTL DEF Spec, AppendOnlyLog, Log!Spec

-----------------------------------------------------------------------------
(* The next checkpoint.                                                      *)

\* No Host is stuck: a pin carries exactly what its document says, so the checks
\* of the next advance are checks of one document against another.
THEOREM NeverStuck == Spec => []NeverWedged
<1>1. ChainInv => NeverWedged
  <2> SUFFICES ASSUME ChainInv, NEW h \in Hosts, NEW d \in DOMAIN published,
                      pin[h] # NoPin,
                      published[d].prev = pin[h].digest,
                      published[d].api = published[pin[h].digest].api,
                      published[d].seq = published[pin[h].digest].seq + 1,
                      SubSeq(published[d].entries, 1, published[pin[h].digest].seq)
                        = published[pin[h].digest].entries
               PROVE  Accepts(pin[h], published[d])
    BY DEF NeverWedged
  <2> DEFINE own == published[pin[h].digest]
  <2>1. /\ pin[h].digest \in DOMAIN published
        /\ pin[h].api = own.api /\ pin[h].seq = own.seq /\ pin[h].entries = own.entries
    BY DEF ChainInv, PinsFromDocs, DocPin
  <2>2. ValidCheckpoint(published[d]) /\ ValidCheckpoint(own)
    BY <2>1 DEF ChainInv, DocsValid
  <2>3. own \in Checkpoint
    BY <2>1, DocFields DEF ChainInv
  <2>4. own.api = "v1" /\ own.seq = 0 => own = Genesis
    <3>1. own.api = "v1" /\ own.seq = 0
            => own.ver = "0.0.0" /\ own.prev = 0 /\ own.entries = <<>>
      BY <2>2 DEF ValidCheckpoint, SchemaHolds
    <3> QED  BY <2>3, <3>1 DEF Checkpoint, Genesis
  <2>5. Extends(pin[h], published[d])
    BY <2>1, <2>4 DEF Extends, Genesis
  <2> QED  BY <2>2, <2>5 DEF Accepts
<1> QED  BY <1>1, ChainInvAlways, PTL

-----------------------------------------------------------------------------
(* The reserved version.                                                     *)

\* No entry of a current log is under the reserved version: although the
\* validation of a document looks at the version of its last entry only, every
\* entry behind a pin was the last one of a document that was pinned.
THEOREM ReservedNeverPinned == Spec => []NoReservedVersion
<1>1. Init => NoReservedVersion
  BY DEF Init, NoReservedVersion, NoPin
<1>2. ChainInv /\ NoReservedVersion /\ [Next]_vars => NoReservedVersion'
  <2> SUFFICES ASSUME ChainInv, NoReservedVersion, [Next]_vars PROVE NoReservedVersion'
    OBVIOUS
  <2>1. CASE \A h \in Hosts : ~PersistPin(h)
    BY <2>1, OthersKeepPins DEF NoReservedVersion
  <2>2. ASSUME NEW h \in Hosts, PersistPin(h) PROVE NoReservedVersion'
    <3> DEFINE new == cap[h].pin
    <3> DEFINE last == new.entries[new.seq]
    <3>1. pin' = [pin EXCEPT ![h] = new] /\ pin \in [Hosts -> Pin]
      BY <2>2, PersistAppends DEF ChainInv, Types
    <3>2. \/ new.entries = <<>>
          \/ new.api = "v1alpha1"
          \/ /\ new.api = pin[h].api /\ last \in Entries
             /\ new.entries = Append(pin[h].entries, last)
             /\ new.api = "v1" => last.ver # "0.0.0"
      BY <2>2, PersistAppends
    <3>3. pin[h].entries \in Seq(Entries)
      BY <3>1, ListsAreSequences DEF Pin
    <3> HIDE DEF new
    <3>4. ASSUME new.api = "v1", NEW i \in DOMAIN new.entries PROVE new.entries[i].ver # "0.0.0"
      <4>1. CASE new.entries = <<>>
        BY <4>1, <3>4
      <4>2. CASE /\ new.api = pin[h].api /\ last \in Entries
                 /\ new.entries = Append(pin[h].entries, last)
                 /\ last.ver # "0.0.0"
        <5> DEFINE old == pin[h].entries
        <5>1. /\ \A j \in 1..Len(old) : new.entries[j] = old[j]
              /\ new.entries[Len(old) + 1] = last
              /\ new.entries \in Seq(Entries) /\ Len(new.entries) = Len(old) + 1
          <6>1. /\ Append(old, last) \in Seq(Entries)
                /\ Len(Append(old, last)) = Len(old) + 1
                /\ \A j \in 1..Len(old) : Append(old, last)[j] = old[j]
                /\ Append(old, last)[Len(old) + 1] = last
            BY <3>3, <4>2, AppendProperties
          <6> QED  BY <6>1, <4>2
        <5>2. i \in 1..(Len(old) + 1) /\ Len(old) \in Nat /\ DOMAIN old = 1..Len(old)
          BY <5>1, <3>3, <3>4, LenProperties
        <5>3. \A j \in 1..Len(old) : old[j].ver # "0.0.0"
          BY <4>2, <3>4, <5>2 DEF NoReservedVersion
        <5> QED  BY <5>1, <5>2, <5>3, <4>2
      <4> QED  BY <3>2, <3>4, <4>1, <4>2
    <3>5. \A g \in Hosts : pin'[g] = IF g = h THEN new ELSE pin[g]
      BY <3>1
    <3> QED  BY <3>4, <3>5 DEF NoReservedVersion
  <2> QED  BY <2>1, <2>2
<1> QED  BY <1>1, <1>2, ChainInvAlways, PTL DEF Spec

-----------------------------------------------------------------------------
(* Pinned denials hold.                                                      *)

\* A capability lists every package the pin lists: it is that of the pinned
\* document or of one that extends it by an entry.
LEMMA CapCoversPin ==
  ASSUME ChainInv, NEW h \in Hosts, cap[h] # NoCap,
         NEW p, ListsPackage(pin[h].entries, p)
  PROVE  ListsPackage(published[cap[h].cp].entries, p)
<1> DEFINE old == pin[h].entries
<1> DEFINE new == cap[h].pin.entries
<1>1. /\ DocPin(cap[h].pin) /\ cap[h].pin.digest = cap[h].cp
      /\ cap[h].pin = pin[h] \/ Accepts(pin[h], published[cap[h].cp])
  BY DEF ChainInv, CapsFollowPins
<1>2. new = published[cap[h].cp].entries /\ cap[h].pin.seq = published[cap[h].cp].seq
  BY <1>1 DEF DocPin
<1>3. PICK i \in DOMAIN old : old[i].pkg = p
  BY DEF ListsPackage
<1>4. CASE cap[h].pin = pin[h]
  BY <1>2, <1>3, <1>4 DEF ListsPackage
<1>5. CASE Accepts(pin[h], published[cap[h].cp])
  <2>1. pin[h] # NoPin
    BY <1>3 DEF NoPin
  <2>2. DocPin(pin[h])
    BY <2>1 DEF ChainInv, PinsFromDocs
  <2>3. pin[h] \in Pin /\ cap[h].pin \in Pin
    BY DEF ChainInv, Types, Cap
  <2>4. /\ old \in Seq(Entries) /\ Len(old) = pin[h].seq /\ pin[h].seq \in Nat
        /\ new \in Seq(Entries) /\ Len(new) = cap[h].pin.seq
    BY <1>1, <2>2, <2>3, PinShape
  <2>5. Len(new) = Len(old) + 1 /\ SubSeq(new, 1, Len(old)) = old
    BY <1>2, <1>5, <2>1, <2>4 DEF Accepts, Extends
  <2> HIDE DEF old, new
  <2>6. new[Len(new)] \in Entries /\ new = Append(old, new[Len(new)])
    BY <2>4, <2>5, OneMore
  <2>7. i \in 1..Len(old) /\ DOMAIN new = 1..(Len(old) + 1) /\ Len(old) \in Nat
    BY <1>3, <2>4, <2>5, LenProperties
  <2>8. new[i] = old[i]
    <3>1. Append(old, new[Len(new)])[i] = old[i]
      BY <2>4, <2>6, <2>7, AppendProperties
    <3> QED  BY <3>1, <2>6
  <2>9. i \in DOMAIN new
    BY <2>7
  <2> QED  BY <1>2, <1>3, <2>8, <2>9 DEF ListsPackage
<1> QED  BY <1>1, <1>4, <1>5

\* Whatever a checkpoint a Host ever pinned lists is in the log behind its pin.
PinnedIsLogged ==
  \A h \in Hosts : \A i \in DOMAIN hist[h] :
    /\ hist[h][i] \in DOMAIN published
    /\ \A p : ListsPackage(published[hist[h][i]].entries, p) => ListsPackage(pin[h].entries, p)

\* An answer was given after the pins it counts.
AnswersCount ==
  \A h \in Hosts : verdict[h].kind = "clear" => verdict[h].at \in 0..Len(hist[h])

DenialInv == PinnedIsLogged /\ AnswersCount /\ PinnedDenialHolds

\* Nothing is pinned or answered initially.
LEMMA InitDenialInv == Init => DenialInv
BY DEF Init, DenialInv, PinnedIsLogged, AnswersCount, PinnedDenialHolds, NoVerdict

\* The positions of a history, and the ones an answer counts.
LEMMA HistoryDomain ==
  ASSUME ChainInv, NEW h \in Hosts
  PROVE  /\ hist[h] \in Seq(1..MaxPublished) /\ Len(hist[h]) \in Nat
         /\ DOMAIN hist[h] = 1..Len(hist[h])
BY LenProperties DEF ChainInv, Types

\* Signing one more document changes none that was pinned.
LEMMA PublishKeepsDenials ==
  ASSUME ChainInv, DenialInv, Publish
  PROVE  DenialInv'
<1>1. PICK cp \in Checkpoint : published' = Append(published, cp)
  BY DEF Publish
<1>2. /\ DOMAIN published' = DOMAIN published \cup {Len(published) + 1}
      /\ \A d \in DOMAIN published : published'[d] = published[d]
  BY <1>1, SigningKeeps DEF ChainInv
<1>3. UNCHANGED <<pin, hist, verdict>>
  BY DEF Publish
<1>4. \A h \in Hosts : \A i \in DOMAIN hist[h] :
        /\ hist[h][i] \in DOMAIN published /\ hist[h][i] \in DOMAIN published'
        /\ published'[hist[h][i]] = published[hist[h][i]]
  BY <1>2 DEF DenialInv, PinnedIsLogged
<1>5. PinnedIsLogged'
  BY <1>3, <1>4 DEF DenialInv, PinnedIsLogged, ListsPackage
<1>6. AnswersCount'
  BY <1>3 DEF DenialInv, AnswersCount
<1>7. PinnedDenialHolds'
  <2> SUFFICES ASSUME NEW h \in Hosts, verdict[h].kind = "clear", NEW i \in 1..verdict[h].at
               PROVE  ~ListsPackage(published[hist[h][i]].entries, verdict[h].pkg)'
    BY <1>3 DEF PinnedDenialHolds
  <2>1. i \in DOMAIN hist[h]
    BY HistoryDomain DEF DenialInv, AnswersCount
  <2>2. ~ListsPackage(published[hist[h][i]].entries, verdict[h].pkg)
    BY DEF DenialInv, PinnedDenialHolds
  <2> QED  BY <2>1, <2>2, <1>3, <1>4 DEF ListsPackage
<1> QED  BY <1>5, <1>6, <1>7 DEF DenialInv

\* Storing a pin drops nothing from the log, and earlier answers do not count it.
LEMMA PersistKeepsDenials ==
  ASSUME ChainInv, DenialInv, NEW h \in Hosts, PersistPin(h)
  PROVE  DenialInv'
<1> DEFINE d == cap[h].cp
<1> DEFINE n == Len(hist[h])
<1>1. /\ UNCHANGED <<published, verdict>> /\ cap[h] # NoCap
      /\ hist' = [hist EXCEPT ![h] = Append(hist[h], d)]
      /\ pin' = [pin EXCEPT ![h] = cap[h].pin]
  BY DEF PersistPin
<1>2. d \in DOMAIN published /\ cap[h].pin.entries = published[d].entries
  BY <1>1 DEF ChainInv, CapsFollowPins, DocPin
<1>3. d \in 1..MaxPublished
  BY <1>2, DocFields DEF ChainInv
<1>4. \A p : ListsPackage(pin[h].entries, p) => ListsPackage(published[d].entries, p)
  BY <1>1, CapCoversPin
<1>5. /\ n \in Nat /\ DOMAIN hist[h] = 1..n
      /\ DOMAIN Append(hist[h], d) = 1..(n + 1) /\ Len(Append(hist[h], d)) = n + 1
      /\ \A i \in 1..n : Append(hist[h], d)[i] = hist[h][i]
      /\ Append(hist[h], d)[n + 1] = d
  <2> DEFINE S == 1..MaxPublished
  <2>1. hist[h] \in Seq(S) /\ d \in S /\ n \in Nat /\ DOMAIN hist[h] = 1..n
    BY <1>3, HistoryDomain
  <2> HIDE DEF S, d
  <2>2. /\ Append(hist[h], d) \in Seq(S)
        /\ Len(Append(hist[h], d)) = n + 1
        /\ \A i \in 1..n : Append(hist[h], d)[i] = hist[h][i]
        /\ Append(hist[h], d)[n + 1] = d
    BY <2>1, AppendProperties
  <2> QED  BY <2>1, <2>2, LenProperties
<1>6. /\ \A g \in Hosts : g # h => hist'[g] = hist[g] /\ pin'[g] = pin[g]
      /\ hist'[h] = Append(hist[h], d) /\ pin'[h] = cap[h].pin
  BY <1>1 DEF ChainInv, Types
<1> HIDE DEF d
<1>7. PinnedIsLogged'
  <2> SUFFICES ASSUME NEW g \in Hosts, NEW i \in DOMAIN hist'[g]
               PROVE  /\ hist'[g][i] \in DOMAIN published'
                      /\ \A p : ListsPackage(published'[hist'[g][i]].entries, p)
                                  => ListsPackage(pin'[g].entries, p)
    BY DEF PinnedIsLogged, ListsPackage
  <2>p. published' = published
    BY <1>1
  <2>1. CASE g # h
    BY <2>1, <2>p, <1>6 DEF DenialInv, PinnedIsLogged
  <2>2. CASE g = h /\ i \in 1..n
    <3>1. hist'[g][i] = hist[h][i] /\ i \in DOMAIN hist[h]
      BY <2>2, <1>5, <1>6
    <3>2. pin'[g].entries = published[d].entries
      BY <2>2, <1>2, <1>6
    <3> QED  BY <2>p, <3>1, <3>2, <1>4 DEF DenialInv, PinnedIsLogged
  <2>3. CASE g = h /\ i = n + 1
    <3>1. hist'[g][i] = d /\ pin'[g].entries = published[d].entries
      BY <2>3, <1>2, <1>5, <1>6
    <3> QED  BY <2>p, <3>1, <1>2
  <2> QED  BY <2>1, <2>2, <2>3, <1>5, <1>6
<1>8. AnswersCount'
  <2>1. n \in Nat /\ \A k : k \in 0..n => k \in 0..(n + 1)
    BY <1>5
  <2>2. Len(hist'[h]) = n + 1 /\ \A g \in Hosts : g # h => hist'[g] = hist[g]
    BY <1>5, <1>6
  <2> QED  BY <2>1, <2>2, <1>1 DEF DenialInv, AnswersCount
<1>9. PinnedDenialHolds'
  <2> SUFFICES ASSUME NEW g \in Hosts, verdict'[g].kind = "clear", NEW i \in 1..verdict'[g].at
               PROVE  ~ListsPackage(published'[hist'[g][i]].entries, verdict'[g].pkg)
    BY DEF PinnedDenialHolds, ListsPackage
  <2>p. published' = published /\ verdict' = verdict
    BY <1>1
  <2>1. i \in 1..Len(hist[g])
    BY <2>p, HistoryDomain DEF DenialInv, AnswersCount
  <2>2. hist'[g][i] = hist[g][i]
    BY <2>1, <1>5, <1>6
  <2> QED  BY <2>p, <2>2 DEF DenialInv, PinnedDenialHolds
<1> QED  BY <1>7, <1>8, <1>9 DEF DenialInv

\* An answer is read from a capability that lists all the Host ever pinned.
LEMMA AnswerKeepsDenials ==
  ASSUME ChainInv, DenialInv, NEW h \in Hosts, NEW p \in Packages, CheckNotRevoked(h, p)
  PROVE  DenialInv'
<1>1. UNCHANGED <<published, pin, cap, hist>> /\ cap[h] # NoCap
  BY DEF CheckNotRevoked
<1>2. \A g \in Hosts : g # h => verdict'[g] = verdict[g]
  BY DEF CheckNotRevoked, ChainInv, Types
<1>3. /\ verdict'[h].pkg = p /\ verdict'[h].at = Len(hist[h])
      /\ verdict'[h].kind = "clear" => ~ListsPackage(published[cap[h].cp].entries, p)
  BY DEF CheckNotRevoked, ChainInv, Types
<1>4. PinnedIsLogged'
  BY <1>1 DEF DenialInv, PinnedIsLogged, ListsPackage
<1>5. AnswersCount'
  <2>1. Len(hist[h]) \in 0..Len(hist[h])
    BY HistoryDomain
  <2> QED  BY <1>1, <1>2, <1>3, <2>1 DEF DenialInv, AnswersCount
<1>6. PinnedDenialHolds'
  <2> SUFFICES ASSUME NEW g \in Hosts, verdict'[g].kind = "clear", NEW i \in 1..verdict'[g].at
               PROVE  ~ListsPackage(published[hist[g][i]].entries, verdict'[g].pkg)
    BY <1>1 DEF PinnedDenialHolds, ListsPackage
  <2>1. CASE g # h
    BY <2>1, <1>2 DEF DenialInv, PinnedDenialHolds
  <2>2. CASE g = h
    <3>1. i \in DOMAIN hist[h]
      BY <2>2, <1>3, HistoryDomain
    <3>2. ~ListsPackage(pin[h].entries, p)
      BY <2>2, <1>1, <1>3, CapCoversPin
    <3> QED  BY <2>2, <1>3, <3>1, <3>2 DEF DenialInv, PinnedIsLogged
  <2> QED  BY <2>1, <2>2
<1> QED  BY <1>4, <1>5, <1>6 DEF DenialInv

\* Rollback, omission, fork and rewrite fail closed: a Host is not told that a
\* package is clear when any checkpoint it had pinned lists the package,
\* whatever the publisher signs and the mirrors serve, and whether or not the
\* pin of the document it asks is stored.
THEOREM FailsClosed == Spec => []PinnedDenialHolds
<1>1. ChainInv /\ DenialInv /\ [Next]_vars => DenialInv'
  <2> SUFFICES ASSUME ChainInv, DenialInv, [Next]_vars PROVE DenialInv'
    OBVIOUS
  <2>1. CASE Publish
    BY <2>1, PublishKeepsDenials
  <2>2. ASSUME NEW h \in Hosts, PersistPin(h) PROVE DenialInv'
    BY <2>2, PersistKeepsDenials
  <2>3. ASSUME NEW h \in Hosts, NEW p \in Packages, CheckNotRevoked(h, p) PROVE DenialInv'
    BY <2>3, AnswerKeepsDenials
  <2>4. CASE UNCHANGED <<published, pin, hist, verdict>>
    BY <2>4 DEF DenialInv, PinnedIsLogged, AnswersCount, PinnedDenialHolds, ListsPackage
  <2> QED
    BY <2>1, <2>2, <2>3, <2>4 DEF Next, vars, VerifyRevocationCheckpoint, Crash
<1>2. DenialInv => PinnedDenialHolds
  BY DEF DenialInv
<1> QED  BY <1>1, <1>2, InitDenialInv, ChainInvAlways, PTL DEF Spec

-----------------------------------------------------------------------------
(* Histories.                                                                *)

\* A history ends in the pinned document, and each document in it names the
\* one before it.
Linked ==
  \A h \in Hosts :
    /\ hist[h] = <<>> <=> pin[h] = NoPin
    /\ hist[h] # <<>> => hist[h][Len(hist[h])] = pin[h].digest
    /\ \A i \in DOMAIN hist[h] :
         /\ hist[h][i] \in DOMAIN published
         /\ published[hist[h][i]].prev = IF i = 1 THEN 0 ELSE hist[h][i - 1]

HistInv == Linked /\ HistoriesAgree

\* There are no histories initially.
LEMMA InitHistInv == Init => HistInv
BY DEF Init, HistInv, Linked, HistoriesAgree

\* Signing one more document changes no history and no document in one.
LEMMA PublishKeepsHistories ==
  ASSUME ChainInv, HistInv, Publish
  PROVE  HistInv'
<1>1. PICK cp \in Checkpoint : published' = Append(published, cp)
  BY DEF Publish
<1>2. /\ DOMAIN published' = DOMAIN published \cup {Len(published) + 1}
      /\ \A d \in DOMAIN published : published'[d] = published[d]
  BY <1>1, SigningKeeps DEF ChainInv
<1>3. UNCHANGED <<pin, hist>>
  BY DEF Publish
<1> QED  BY <1>2, <1>3 DEF HistInv, Linked, HistoriesAgree

\* The document a Host is about to pin names the last one it pinned.
LEMMA PinnedNext ==
  ASSUME ChainInv, HistInv, NEW h \in Hosts, PersistPin(h)
  PROVE  /\ cap[h].cp \in DOMAIN published
         /\ published[cap[h].cp].prev =
              IF hist[h] = <<>> THEN 0 ELSE hist[h][Len(hist[h])]
<1>1. cap[h] # NoCap /\ cap[h].pin # pin[h]
  BY DEF PersistPin
<1>2. DocPin(cap[h].pin) /\ cap[h].pin.digest = cap[h].cp /\ Accepts(pin[h], published[cap[h].cp])
  BY <1>1 DEF ChainInv, CapsFollowPins
<1> QED  BY <1>2 DEF Accepts, Starts, Extends, DocPin, HistInv, Linked

\* Whoever pinned that document pinned the same ones before it.
LEMMA NextAgrees ==
  ASSUME ChainInv, HistInv, NEW h \in Hosts, PersistPin(h), NEW g \in Hosts,
         NEW j \in DOMAIN hist[g], hist[g][j] = cap[h].cp
  PROVE  j = Len(hist[h]) + 1 /\ \A k \in 1..Len(hist[h]) : hist[h][k] = hist[g][k]
<1> DEFINE n == Len(hist[h])
<1> DEFINE d == cap[h].cp
<1>1. /\ hist[g] \in Seq(1..MaxPublished) /\ hist[h] \in Seq(1..MaxPublished)
      /\ n \in Nat /\ DOMAIN hist[h] = 1..n /\ DOMAIN hist[g] = 1..Len(hist[g])
      /\ Len(hist[g]) \in Nat /\ j \in Nat \ {0}
  BY LenProperties DEF ChainInv, Types
<1>2. /\ hist[h] = <<>> <=> n = 0
      /\ published[d].prev = IF n = 0 THEN 0 ELSE hist[h][n]
  BY <1>1, EmptySeq, PinnedNext
<1>3. published[d].prev = IF j = 1 THEN 0 ELSE hist[g][j - 1]
  BY DEF HistInv, Linked
<1>4. /\ n # 0 => n \in DOMAIN hist[h] /\ hist[h][n] # 0
      /\ j # 1 => j - 1 \in DOMAIN hist[g] /\ hist[g][j - 1] # 0
  <2>1. \A f \in Hosts : \A i \in DOMAIN hist[f] : hist[f][i] # 0
    BY DocFields DEF HistInv, Linked, ChainInv
  <2>2. n # 0 => n \in DOMAIN hist[h]
    BY <1>1
  <2>3. j # 1 => j - 1 \in DOMAIN hist[g]
    BY <1>1
  <2> QED  BY <2>1, <2>2, <2>3
<1>5. CASE n = 0
  BY <1>1, <1>2, <1>3, <1>4, <1>5
<1>6. CASE n # 0
  <2>1. j # 1 /\ hist[g][j - 1] = hist[h][n]
    BY <1>2, <1>3, <1>4, <1>6
  <2>2. j - 1 = n /\ \A k \in 1..n : hist[h][k] = hist[g][k]
    BY <2>1, <1>4, <1>6 DEF HistInv, HistoriesAgree
  <2> QED  BY <2>2, <1>1
<1> QED  BY <1>5, <1>6

\* Pinning one more document keeps the histories linked and in agreement.
LEMMA PersistKeepsHistories ==
  ASSUME ChainInv, HistInv, NEW h \in Hosts, PersistPin(h)
  PROVE  HistInv'
<1> DEFINE n == Len(hist[h])
<1> DEFINE d == cap[h].cp
<1>1. /\ UNCHANGED published /\ hist' = [hist EXCEPT ![h] = Append(hist[h], d)]
      /\ pin' = [pin EXCEPT ![h] = cap[h].pin] /\ cap[h] # NoCap
  BY DEF PersistPin
<1>2. /\ d \in DOMAIN published /\ d \in 1..MaxPublished
      /\ cap[h].pin.digest = d /\ cap[h].pin # NoPin
      /\ published[d].prev = IF hist[h] = <<>> THEN 0 ELSE hist[h][n]
  <2>1. DocPin(cap[h].pin) /\ cap[h].pin.digest = d
    BY <1>1 DEF ChainInv, CapsFollowPins
  <2>2. cap[h].pin # NoPin
    BY <2>1, PinShape DEF ChainInv, Types, Cap
  <2>3. d \in DOMAIN published
    BY <2>1 DEF DocPin
  <2>4. d \in 1..MaxPublished
    BY <2>3, DocFields DEF ChainInv
  <2> QED  BY <2>1, <2>2, <2>3, <2>4, PinnedNext
<1>3. \A g \in Hosts : /\ hist[g] \in Seq(1..MaxPublished) /\ Len(hist[g]) \in Nat
                       /\ DOMAIN hist[g] = 1..Len(hist[g])
  BY LenProperties DEF ChainInv, Types
<1>4. /\ Append(hist[h], d) \in Seq(1..MaxPublished) /\ Append(hist[h], d) # <<>>
      /\ Len(Append(hist[h], d)) = n + 1
      /\ \A i \in 1..n : Append(hist[h], d)[i] = hist[h][i]
      /\ Append(hist[h], d)[n + 1] = d
  <2> DEFINE S == 1..MaxPublished
  <2>1. hist[h] \in Seq(S) /\ d \in S
    BY <1>2, <1>3
  <2> HIDE DEF S, d
  <2>2. /\ Append(hist[h], d) \in Seq(S) /\ Append(hist[h], d) # <<>>
        /\ Len(Append(hist[h], d)) = n + 1
        /\ \A i \in 1..n : Append(hist[h], d)[i] = hist[h][i]
        /\ Append(hist[h], d)[n + 1] = d
    BY <2>1, AppendProperties
  <2> QED  BY <2>2 DEF S
<1>5. /\ \A g \in Hosts : g # h => hist'[g] = hist[g] /\ pin'[g] = pin[g]
      /\ hist'[h] = Append(hist[h], d) /\ pin'[h] = cap[h].pin
      /\ DOMAIN hist'[h] = 1..(n + 1)
  BY <1>1, <1>4, LenProperties DEF ChainInv, Types
<1> HIDE DEF d
<1>6. Linked'
  <2> SUFFICES ASSUME NEW g \in Hosts
               PROVE  /\ hist'[g] = <<>> <=> pin'[g] = NoPin
                      /\ hist'[g] # <<>> => hist'[g][Len(hist'[g])] = pin'[g].digest
                      /\ \A i \in DOMAIN hist'[g] :
                           /\ hist'[g][i] \in DOMAIN published
                           /\ published[hist'[g][i]].prev = IF i = 1 THEN 0 ELSE hist'[g][i - 1]
    BY <1>1 DEF Linked
  <2>1. CASE g # h
    BY <2>1, <1>5 DEF HistInv, Linked
  <2>2. CASE g = h
    <3>1. /\ hist'[h] # <<>> /\ pin'[h] # NoPin
          /\ hist'[h][Len(hist'[h])] = pin'[h].digest
      BY <1>2, <1>4, <1>5
    <3>2. ASSUME NEW i \in 1..n
          PROVE  /\ hist'[h][i] \in DOMAIN published
                 /\ published[hist'[h][i]].prev = IF i = 1 THEN 0 ELSE hist'[h][i - 1]
      <4>1. hist'[h][i] = hist[h][i] /\ (i # 1 => hist'[h][i - 1] = hist[h][i - 1])
        BY <1>3, <1>4, <1>5
      <4> QED  BY <4>1, <1>3 DEF HistInv, Linked
    <3>3. /\ hist'[h][n + 1] \in DOMAIN published
          /\ published[hist'[h][n + 1]].prev = IF n + 1 = 1 THEN 0 ELSE hist'[h][n + 1 - 1]
      <4>1. hist[h] = <<>> <=> n = 0
        BY <1>3, EmptySeq
      <4>2. n # 0 => hist'[h][n + 1 - 1] = hist[h][n]
        BY <1>3, <1>4, <1>5
      <4> QED  BY <4>1, <4>2, <1>2, <1>3, <1>4, <1>5
    <3> QED  BY <2>2, <3>1, <3>2, <3>3, <1>3, <1>5
  <2> QED  BY <2>1, <2>2
<1>7. HistoriesAgree'
  <2> SUFFICES ASSUME NEW f \in Hosts, NEW g \in Hosts,
                      NEW i \in DOMAIN hist'[f], NEW j \in DOMAIN hist'[g],
                      hist'[f][i] = hist'[g][j]
               PROVE  i = j /\ \A k \in 1..i : hist'[f][k] = hist'[g][k]
    BY DEF HistoriesAgree
  \* The entry i of Host e is an old one, or the one h has just added.
  <2>1. \A e \in Hosts : \A m \in DOMAIN hist'[e] :
           \/ m \in DOMAIN hist[e] /\ \A k \in 1..m : hist'[e][k] = hist[e][k]
           \/ e = h /\ m = n + 1 /\ hist'[e][m] = d /\ \A k \in 1..n : hist'[e][k] = hist[h][k]
    <3> SUFFICES ASSUME NEW e \in Hosts, NEW m \in DOMAIN hist'[e]
                 PROVE  \/ m \in DOMAIN hist[e] /\ \A k \in 1..m : hist'[e][k] = hist[e][k]
                        \/ /\ e = h /\ m = n + 1 /\ hist'[e][m] = d
                           /\ \A k \in 1..n : hist'[e][k] = hist[h][k]
      OBVIOUS
    <3>1. CASE e # h
      BY <3>1, <1>5
    <3>2. CASE e = h /\ m \in 1..n
      <4>1. m \in DOMAIN hist[e]
        BY <3>2, <1>3
      <4>2. \A k \in 1..m : k \in 1..n
        BY <3>2, <1>3
      <4>3. \A k \in 1..n : hist'[e][k] = hist[e][k]
        BY <3>2, <1>4, <1>5
      <4> QED  BY <4>1, <4>2, <4>3
    <3>3. CASE e = h /\ m = n + 1
      BY <3>3, <1>4, <1>5
    <3>4. e = h => m \in 1..n \/ m = n + 1
      BY <1>3, <1>5
    <3> QED  BY <3>1, <3>2, <3>3, <3>4
  <2>2. \A e \in Hosts : \A m \in DOMAIN hist[e] :
           hist[e][m] = d => m = n + 1 /\ \A k \in 1..n : hist[h][k] = hist[e][k]
    BY NextAgrees DEF d
  <2>3. i \in Nat /\ j \in Nat /\ n \in Nat
    BY <2>1, <1>3
  <2>4. CASE i \in DOMAIN hist[f] /\ \A k \in 1..i : hist'[f][k] = hist[f][k]
    <3>1. i \in 1..i
      BY <2>4, <1>3
    <3>2. CASE j \in DOMAIN hist[g] /\ \A k \in 1..j : hist'[g][k] = hist[g][k]
      <4>1. j \in 1..j
        BY <3>2, <1>3
      <4>2. hist[f][i] = hist[g][j]
        BY <2>4, <3>1, <3>2, <4>1
      <4>3. i = j /\ \A k \in 1..i : hist[f][k] = hist[g][k]
        BY <4>2, <2>4, <3>2 DEF HistInv, HistoriesAgree
      <4> QED  BY <4>3, <2>4, <3>2
    <3>3. CASE /\ g = h /\ j = n + 1 /\ hist'[g][j] = d
               /\ \A k \in 1..n : hist'[g][k] = hist[h][k]
      <4>1. i = n + 1 /\ \A k \in 1..n : hist[h][k] = hist[f][k]
        BY <2>2, <2>4, <3>1, <3>3
      <4>2. \A k \in 1..n : hist'[f][k] = hist'[g][k]
        BY <4>1, <2>3, <2>4, <3>3
      <4> QED  BY <4>1, <4>2, <2>3, <3>3
    <3> QED  BY <3>2, <3>3, <2>1
  <2>5. CASE /\ f = h /\ i = n + 1 /\ hist'[f][i] = d
             /\ \A k \in 1..n : hist'[f][k] = hist[h][k]
    <3>1. CASE j \in DOMAIN hist[g] /\ \A k \in 1..j : hist'[g][k] = hist[g][k]
      <4>1. j \in 1..j
        BY <3>1, <1>3
      <4>2. j = n + 1 /\ \A k \in 1..n : hist[h][k] = hist[g][k]
        BY <2>2, <2>5, <3>1, <4>1
      <4>3. \A k \in 1..n : hist'[f][k] = hist'[g][k]
        BY <4>2, <2>3, <2>5, <3>1
      <4> QED  BY <4>2, <4>3, <2>3, <2>5
    <3>2. CASE g = h /\ j = n + 1
      BY <3>2, <2>5
    <3> QED  BY <3>1, <3>2, <2>1
  <2> QED  BY <2>1, <2>4, <2>5
<1> QED  BY <1>6, <1>7 DEF HistInv

\* A fork cannot be hidden: two Hosts that ever pinned the same checkpoint had
\* pinned the same ones before it.
THEOREM ForksNeverJoin == Spec => []HistoriesAgree
<1>1. ChainInv /\ HistInv /\ [Next]_vars => HistInv'
  <2> SUFFICES ASSUME ChainInv, HistInv, [Next]_vars PROVE HistInv'
    OBVIOUS
  <2>1. CASE Publish
    BY <2>1, PublishKeepsHistories
  <2>2. ASSUME NEW h \in Hosts, PersistPin(h) PROVE HistInv'
    BY <2>2, PersistKeepsHistories
  <2>3. CASE UNCHANGED <<published, pin, hist>>
    BY <2>3 DEF HistInv, Linked, HistoriesAgree
  <2> QED
    BY <2>1, <2>2, <2>3 DEF Next, vars, VerifyRevocationCheckpoint, CheckNotRevoked, Crash
<1>2. HistInv => HistoriesAgree
  BY DEF HistInv
<1> QED  BY <1>1, <1>2, InitHistInv, ChainInvAlways, PTL DEF Spec
=============================================================================
