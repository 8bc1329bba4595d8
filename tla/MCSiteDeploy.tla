---------------------------- MODULE MCSiteDeploy ----------------------------
(* A small instance of SiteDeploy for TLC: two operators, three worktrees.   *)
EXTENDS SiteDeploy, TLC

CONSTANTS Alice, Bob

Bytes(pages, sources, schemas) == [pages |-> pages, sources |-> sources, schemas |-> schemas]

\* main moves from an edition to a revision of its pages; someone has edited a
\* page and a schema of it without a commit.
MCTrees == {"edition", "revision", "edited"}
MCClean == {"edition", "revision"}
MCCommitOf == [t \in MCTrees |-> IF t = "edition" THEN 1 ELSE 2]
MCLedgerOf == [t \in MCTrees |-> "ledger"]
MCBuildOf ==
  [t \in MCTrees |->
     CASE t = "edition" -> Bytes("p1", "current", "ledger")
       [] t = "revision" -> Bytes("p2", "revised", "ledger")
       [] t = "edited" -> Bytes("p3", "current", "other")]
MCFirst == Bytes("p0", "original", "ledger")
MCModesOf == (Alice :> {"production"}) @@ (Bob :> {"production", "preview", "verify"})
=============================================================================
