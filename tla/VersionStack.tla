----------------------------- MODULE VersionStack ---------------------------
(***************************************************************************)
(* The promise of the index, without timestamps, flags or transactions:    *)
(* per document the stored versions lie in the order they were indexed,    *)
(* the last of them is the current one, a version is put on top in one     *)
(* step provided the caller's expectation holds in that step, and removing *)
(* the current version makes the one below it current again.               *)
(***************************************************************************)
EXTENDS VersionOrder

CONSTANTS Docs,        \* document ids
          Writers,     \* callers of the index
          AnyVersion,  \* the caller states no expectation
          Idle         \* a writer that is in no call

VARIABLES rank,      \* rank[d]: the table of document d
          current,   \* current[d]: the version readers get
          call       \* call[w]: the version w is indexing

vars == <<rank, current, call>>

Call == [doc : Docs, sha : Shas, expected : Shas \cup {NoSha, AnyVersion}]

Init ==
  /\ rank = [d \in Docs |-> NoVersions]
  /\ current = [d \in Docs |-> NoSha]
  /\ call = [w \in Writers |-> Idle]

Begin(w, c) ==
  /\ call[w] = Idle
  /\ call' = [call EXCEPT ![w] = c]
  /\ UNCHANGED <<rank, current>>

PutOnTop(w) ==
  LET c == call[w]
  IN  /\ c # Idle
      /\ c.expected \in {AnyVersion, current[c.doc]}
      /\ rank' = [rank EXCEPT ![c.doc] = Put(@, c.sha)]
      /\ current' = [current EXCEPT ![c.doc] = c.sha]
      /\ call' = [call EXCEPT ![w] = Idle]

\* A call may fail for any reason; it then changes nothing.
Refuse(w) ==
  /\ call[w] # Idle
  /\ call' = [call EXCEPT ![w] = Idle]
  /\ UNCHANGED <<rank, current>>

Remove(d, s) ==
  /\ s \in Stored(rank[d])
  /\ rank' = [rank EXCEPT ![d] = Drop(@, s)]
  /\ \E c \in Shas \cup {NoSha} : /\ IsCurrent(rank'[d], c)
                                  /\ current' = [current EXCEPT ![d] = c]
  /\ UNCHANGED call

Next ==
  \/ \E w \in Writers : \/ \E c \in Call : Begin(w, c)
                        \/ PutOnTop(w) \/ Refuse(w)
  \/ \E d \in Docs, s \in Shas : Remove(d, s)

Spec == Init /\ [][Next]_vars
=============================================================================
