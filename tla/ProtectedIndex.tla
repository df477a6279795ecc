----------------------------- MODULE ProtectedIndex -------------------------
(***************************************************************************)
(* The index with the parts that use it from above and below: sessions of  *)
(* questions beside the writers, and the splitting of a text before it is  *)
(* written. Splitting shares no state with the rest (index_atomic splits   *)
(* before it takes its timestamp), so a behaviour is about one text, or    *)
(* about the index and its readers.                                        *)
(***************************************************************************)
EXTENDS RagChat, ChunkSplit

ProtectedInit ==
  \/ Init /\ ChatInit /\ SplitOff
  \/ Init /\ ChatInit /\ SplitInit /\ text # <<>>

ProtectedNext ==
  \/ text = <<>> /\ Next /\ IndexMoves /\ UNCHANGED splitVars
  \/ text = <<>> /\ ChatNext /\ UNCHANGED <<vars, splitVars>>
  \/ SplitNext /\ UNCHANGED <<vars, chatVars>>

ProtectedSpec == ProtectedInit /\ [][ProtectedNext]_<<vars, chatVars, splitVars>>
=============================================================================
