---------------------------- MODULE VersionOrder ----------------------------
(***************************************************************************)
(* What one document's rows of indexed_documents promise to their readers: *)
(* which versions are stored, and in which order they were indexed.        *)
(* A table is a function from versions to ranks: 0 for a version that is   *)
(* not stored, else its place in the order of indexing, the oldest at 1.   *)
(* Ranks stand for indexed_at, of which the indexer only uses the order;   *)
(* VersionIndex keeps the timestamps and is shown to implement this view.  *)
(***************************************************************************)
EXTENDS Integers, FiniteSets

CONSTANTS Shas,   \* the versions of a document, named by their SHA-256
          NoSha   \* the absence of a version (None)

ASSUME ShasAssumption == IsFiniteSet(Shas) /\ NoSha \notin Shas

NoVersions == [s \in Shas |-> 0]

Stored(rank) == {s \in Shas : rank[s] # 0}

\* c is the version get_current_version returns.
IsCurrent(rank, c) ==
  IF Stored(rank) = {}
  THEN c = NoSha
  ELSE /\ c \in Stored(rank)
       /\ \A s \in Stored(rank) : rank[s] <= rank[c]

\* remove_atomic: the row goes, and the newest row left is current again.
Drop(rank, s) ==
  [r \in Shas |-> IF r = s THEN 0
                  ELSE IF rank[s] # 0 /\ rank[r] > rank[s] THEN rank[r] - 1
                  ELSE rank[r]]

\* index_atomic: the version is inserted, or its row refreshed, as the newest.
Put(rank, s) ==
  LET rest == Drop(rank, s)
  IN  [rest EXCEPT ![s] = Cardinality(Stored(rest)) + 1]
=============================================================================
