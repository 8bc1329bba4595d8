---------------------------- MODULE RevocationLog ----------------------------
(***************************************************************************)
(* What the revocation chain promises the Host that follows it: each Host  *)
(* adopts one profile, once, and from then on holds a log of denials that  *)
(* only ever grows, one statement at a time.                               *)
(***************************************************************************)
EXTENDS Sequences

CONSTANTS
  Hosts,    \* Hosts that follow a publisher's revocations
  Entries   \* the entries a checkpoint may list

VARIABLES
  profile,  \* the profile each Host follows, "none" before its first pin
  log       \* the denials each Host is bound to

vars == <<profile, log>>

Init ==
  /\ profile = [h \in Hosts |-> "none"]
  /\ log = [h \in Hosts |-> <<>>]

\* A current chain starts with the empty genesis, a legacy one with an entry.
AdoptCurrent(h) ==
  /\ profile[h] = "none"
  /\ profile' = [profile EXCEPT ![h] = "v1"]
  /\ UNCHANGED log

AdoptLegacy(h) ==
  /\ profile[h] = "none"
  /\ profile' = [profile EXCEPT ![h] = "v1alpha1"]
  /\ \E e \in Entries : log' = [log EXCEPT ![h] = <<e>>]

Deny(h) ==
  /\ profile[h] # "none"
  /\ \E e \in Entries : log' = [log EXCEPT ![h] = Append(log[h], e)]
  /\ UNCHANGED profile

Next == \E h \in Hosts : AdoptCurrent(h) \/ AdoptLegacy(h) \/ Deny(h)

Spec == Init /\ [][Next]_vars
=============================================================================
