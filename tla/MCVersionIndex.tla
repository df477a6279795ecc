--------------------------- MODULE MCVersionIndex ---------------------------
(***************************************************************************)
(* Three versions of one document, numbered in the order of their digests, *)
(* one writer at a time and up to five timestamps, all distinct: enough    *)
(* to index a version twice below another one and to remove from any       *)
(* place in the order. The indexer never relates two documents. The chat    *)
(* keeps and looks at one exchange, and texts are up to seven long.         *)
(***************************************************************************)
EXTENDS ProtectedIndex

MCShas == 1..3
MCTicks == {1}
=============================================================================
