------------------------- MODULE MCResourceLifecycle -------------------------
(* ResourceLifecycle on small instances.                                     *)
EXTENDS ResourceLifecycle, TLC

CONSTANTS c1, c2, s1, s2

MCOnePrincipal == [c \in Clients |-> "p"]
MCOwnPrincipals == [c \in Clients |-> c]

SymClients == Permutations({c1, c2})
SymSpecs == Permutations({s1, s2})
SymBoth == SymClients \cup SymSpecs
=============================================================================
