--------------------------- MODULE MCOperationAwait ---------------------------
(* Instances of OperationAwait for TLC. *)
EXTENDS OperationAwait

\* A context without a deadline, and two with one: before and after the
\* client-wide deadline.
MCCtxEnds == {Never, 2, 7}

\* Only contexts without a deadline.
NoCtxEnds == {Never}
=============================================================================
