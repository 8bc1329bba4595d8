-------------------------- MODULE MCRevocationChain --------------------------
(* Instances of RevocationChain for TLC. *)
EXTENDS RevocationChain, TLC

Entry(v, s, p) == [ver |-> v, stmt |-> s, pkg |-> p]

\* Current entries, one of them under the reserved version and with a statement
\* another one lists too, and an entry of the older profile.
MixedEntries ==
  {Entry("1.0.0", "s1", "p"), Entry("0.0.0", "s1", "q"), Entry("1.0.1", "s2", "q"),
   Entry("1.0.0", "s3", "old")}
MixedProfileOf == [p \in {"p", "q", "old"} |-> IF p = "old" THEN "v1alpha1" ELSE "v1"]

\* The Hosts are interchangeable.
HostSymmetry == Permutations(Hosts)
=============================================================================
