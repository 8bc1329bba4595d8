--------------------------- MODULE MCArtifactUpload ---------------------------
(* ArtifactUpload on a small instance: one manifest's blobs are another's too. *)
EXTENDS ArtifactUpload, TLC

CONSTANTS c1, c2, a, b, m1, m2

MCBlobsOf == [m \in Manifests |-> IF m = m1 THEN {a} ELSE {a, b}]
SymClients == Permutations({c1, c2})
=============================================================================
