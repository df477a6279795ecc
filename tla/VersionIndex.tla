----------------------------- MODULE VersionIndex ---------------------------
(***************************************************************************)
(* SqliteIndexer: the table indexed_documents with its indexed_at          *)
(* timestamps and is_current flags. A writer thread takes its timestamp    *)
(* first and enters the transaction later, so two writers may commit in    *)
(* the opposite order of their timestamps. Chunks follow their row (they   *)
(* are written in the same transaction) and are not kept apart.            *)
(***************************************************************************)
EXTENDS VersionOrder

CONSTANTS Docs,        \* document ids
          Writers,     \* threads that call index_atomic
          AnyVersion,  \* expected_current_sha256 was not given
          Idle,        \* a writer that is in no call
          Ticks,       \* how far the clock may move between two timestamps
          MaxTime      \* bound: the clock stops here

\* SHA-256 digests are compared as strings (ORDER BY sha256): numbers here.
ASSUME IndexAssumption ==
  /\ Shas \subseteq Nat
  /\ AnyVersion \notin Shas \cup {NoSha}
  /\ Ticks \subseteq Nat
  /\ MaxTime \in Nat

VARIABLES indexedAt,   \* indexedAt[d][s]: the row's timestamp, 0 without row
          isCurrent,   \* isCurrent[d]: the versions whose flag is set
          clock,       \* the wall clock at the last timestamp taken
          writer       \* writer[w]: the call in progress, past its timestamp

vars == <<indexedAt, isCurrent, clock, writer>>

Expectations == Shas \cup {NoSha, AnyVersion}

Call == [doc : Docs, sha : Shas, expected : Expectations, at : 1..MaxTime]

\* No call looks like its absence, with its timestamp or without.
ASSUME IdleAssumption ==
  Idle \notin Call \cup [doc : Docs, sha : Shas, expected : Expectations]

TypeOK ==
  /\ indexedAt \in [Docs -> [Shas -> 0..MaxTime]]
  /\ isCurrent \in [Docs -> SUBSET Shas]
  /\ clock \in 0..MaxTime
  /\ writer \in [Writers -> Call \cup {Idle}]

Init ==
  /\ indexedAt = [d \in Docs |-> [s \in Shas |-> 0]]
  /\ isCurrent = [d \in Docs |-> {}]
  /\ clock = 0
  /\ writer = [w \in Writers |-> Idle]

Rows(d) == {s \in Shas : indexedAt[d][s] # 0}

\* The row a SELECT ... WHERE is_current = 1 returns, or none.
Reads(d, c) == IF isCurrent[d] = {} THEN c = NoSha ELSE c \in isCurrent[d]

\* Mutant: the predecessor is the oldest row left (ORDER BY without DESC).
IsNewest_Oldest(d, rows, p) ==
  /\ p \in rows
  /\ \A s \in rows : \/ indexedAt[d][s] > indexedAt[d][p]
                     \/ indexedAt[d][s] = indexedAt[d][p] /\ s >= p

\* p comes first in ORDER BY indexed_at DESC, sha256 DESC over these rows.
IsNewest(d, rows, p) ==
  /\ p \in rows
  /\ \A s \in rows : \/ indexedAt[d][s] < indexedAt[d][p]
                     \/ indexedAt[d][s] = indexedAt[d][p] /\ s <= p
-----------------------------------------------------------------------------
\* Mutant: the timestamp is the one the previous call took.
BeginIndex_OldTime(w, d, s, e) ==
  /\ writer[w] = Idle
  /\ \E t \in Ticks :
       /\ clock + t \in 1..MaxTime
       /\ clock' = clock + t
       /\ writer' = [writer EXCEPT ![w] =
                       [doc |-> d, sha |-> s, expected |-> e, at |-> clock]]
  /\ UNCHANGED <<indexedAt, isCurrent>>

\* index_atomic is called: chunks are split and the timestamp is taken.
BeginIndex(w, d, s, e) ==
  /\ writer[w] = Idle
  /\ \E t \in Ticks :
       /\ clock + t \in 1..MaxTime
       /\ clock' = clock + t
       /\ writer' = [writer EXCEPT ![w] =
                       [doc |-> d, sha |-> s, expected |-> e, at |-> clock + t]]
  /\ UNCHANGED <<indexedAt, isCurrent>>

\* Mutant: the expectation is not compared when no version is expected.
Expected_NoneIsAny(w) ==
  \/ writer[w].expected \in {AnyVersion, NoSha}
  \/ Reads(writer[w].doc, writer[w].expected)

Expected(w) ==
  \/ writer[w].expected = AnyVersion
  \/ Reads(writer[w].doc, writer[w].expected)

\* The flags once the call has set the one of its row (the UPDATE and the
\* upsert of one transaction).
\* Mutant: the old flag is not cleared first.
FlagOnly_KeepsOld(d, s) == [isCurrent EXCEPT ![d] = @ \cup {s}]

FlagOnly(d, s) == [isCurrent EXCEPT ![d] = {s}]

\* The transaction commits: flag moved, row inserted or refreshed.
CommitIndex(w) ==
  /\ writer[w] # Idle
  /\ Expected(w)
  /\ indexedAt' = [indexedAt EXCEPT ![writer[w].doc][writer[w].sha] = writer[w].at]
  /\ isCurrent' = FlagOnly(writer[w].doc, writer[w].sha)
  /\ writer' = [writer EXCEPT ![w] = Idle]
  /\ UNCHANGED clock

\* StaleBaselineError: another version is current, nothing is written.
StaleIndex(w) ==
  /\ writer[w] # Idle
  /\ ~Expected(w)
  /\ writer' = [writer EXCEPT ![w] = Idle]
  /\ UNCHANGED <<indexedAt, isCurrent, clock>>

\* Writing the chunks fails inside the transaction: all of it is rolled back.
FailedIndex(w) ==
  /\ writer[w] # Idle
  /\ Expected(w)
  /\ writer' = [writer EXCEPT ![w] = Idle]
  /\ UNCHANGED <<indexedAt, isCurrent, clock>>

\* Mutant: no predecessor is restored.
FlagsAfterRemoval_NoPredecessor(d, s, flags) == flags = isCurrent[d] \ {s}

\* The flags after the row s of d is deleted.
FlagsAfterRemoval(d, s, flags) ==
  LET rest == Rows(d) \ {s}
  IN  IF s \in isCurrent[d] /\ rest # {}
      THEN \E p \in rest : /\ IsNewest(d, rest, p)
                           /\ flags = (isCurrent[d] \ {s}) \cup {p}
      ELSE flags = isCurrent[d] \ {s}

RemoveAtomic(d, s) ==
  /\ s \in Rows(d)
  /\ \E flags \in SUBSET Shas :
       /\ FlagsAfterRemoval(d, s, flags)
       /\ isCurrent' = [isCurrent EXCEPT ![d] = flags]
  /\ indexedAt' = [indexedAt EXCEPT ![d][s] = 0]
  /\ UNCHANGED <<clock, writer>>

Next ==
  \/ \E w \in Writers, d \in Docs, s \in Shas, e \in Expectations :
       BeginIndex(w, d, s, e)
  \/ \E w \in Writers : CommitIndex(w) \/ StaleIndex(w) \/ FailedIndex(w)
  \/ \E d \in Docs, s \in Shas : RemoveAtomic(d, s)

Spec == Init /\ [][Next]_vars
-----------------------------------------------------------------------------
\* The flags agree with the rows: at most one version of a document is
\* current (ux_indexed_documents_current), it is stored, and a document with
\* rows is never left without a current version, whatever is removed.
FlagsMatchRows ==
  \A d \in Docs :
    /\ isCurrent[d] \subseteq Rows(d)
    /\ \A s, t \in isCurrent[d] : s = t
    /\ Rows(d) # {} => isCurrent[d] # {}

\* With one writer per document no stored row is newer than the current one:
\* the predecessor remove_atomic brings back is the version that was current
\* before. (Timestamps are taken outside the lock: two writers break this.)
CurrentIsLatest ==
  \A d \in Docs : \A c \in isCurrent[d] :
    \A s \in Rows(d) : indexedAt[d][s] <= indexedAt[d][c]

\* A conditional call replaces only the version its caller expects, whatever
\* other writers and removals did between its timestamp and its transaction.
NoLostVersion ==
  [][\A w \in Writers :
       (/\ writer[w] # Idle /\ writer'[w] = Idle
        /\ isCurrent' # isCurrent \/ indexedAt' # indexedAt)
       => \/ writer[w].expected = AnyVersion
          \/ isCurrent[writer[w].doc] = {writer[w].expected} \ {NoSha}]_vars

\* With distinct timestamps and one writer, the indexer implements the
\* version stack: a row's rank is its place in the order of timestamps, the
\* flagged row is the current version.
RankOf(d) == [s \in Shas |->
  IF indexedAt[d][s] = 0 THEN 0
  ELSE Cardinality({r \in Rows(d) : indexedAt[d][r] <= indexedAt[d][s]})]

CurrentOf(d) ==
  IF isCurrent[d] = {} THEN NoSha ELSE CHOOSE s \in Shas : s \in isCurrent[d]

CallOf(w) ==
  IF writer[w] = Idle THEN Idle
  ELSE [doc |-> writer[w].doc, sha |-> writer[w].sha, expected |-> writer[w].expected]

Stack == INSTANCE VersionStack WITH
  rank    <- [d \in Docs |-> RankOf(d)],
  current <- [d \in Docs |-> CurrentOf(d)],
  call    <- [w \in Writers |-> CallOf(w)]

StackSpec == Stack!Spec
=============================================================================
