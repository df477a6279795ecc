------------------------- MODULE VersionIndex_proofs ------------------------
(***************************************************************************)
(* What the indexer guarantees for any number of documents, versions and   *)
(* writers and any behaviour of the clock. The flags need an inductive     *)
(* invariant of their own only in so far as FlagsMatchRows rests on the    *)
(* types: a commit or a removal leaves exactly one flag, on a stored row.  *)
(***************************************************************************)
EXTENDS VersionIndex, VersionOrder_proofs, TLAPS

\* The state keeps its types under every step of every writer.
THEOREM TypeCorrect == Spec => []TypeOK
<1>1. Init => TypeOK
  BY IndexAssumption DEF Init, TypeOK
<1>2. TypeOK /\ [Next]_vars => TypeOK'
  <2> SUFFICES ASSUME TypeOK, [Next]_vars PROVE TypeOK'
    OBVIOUS
  <2> USE DEF TypeOK
  <2>1. ASSUME NEW w \in Writers, NEW d \in Docs, NEW s \in Shas,
               NEW e \in Expectations, BeginIndex(w, d, s, e)
        PROVE  TypeOK'
    <3>1. PICK t \in Ticks :
            /\ clock + t \in 1..MaxTime
            /\ clock' = clock + t
            /\ writer' = [writer EXCEPT ![w] =
                            [doc |-> d, sha |-> s, expected |-> e, at |-> clock + t]]
      BY <2>1 DEF BeginIndex
    <3>2. [doc |-> d, sha |-> s, expected |-> e, at |-> clock + t] \in Call
      BY <3>1 DEF Call
    <3>3. clock' \in 0..MaxTime
      BY <3>1, IndexAssumption
    <3> QED
      BY <2>1, <3>1, <3>2, <3>3 DEF BeginIndex
  <2>2. ASSUME NEW w \in Writers, CommitIndex(w)
        PROVE  TypeOK'
    <3>1. writer[w] \in Call
      BY <2>2 DEF CommitIndex
    <3>2. /\ writer[w].doc \in Docs
          /\ writer[w].sha \in Shas
          /\ writer[w].at \in 0..MaxTime
      BY <3>1, IndexAssumption DEF Call
    <3>3. indexedAt' \in [Docs -> [Shas -> 0..MaxTime]]
      BY <2>2, <3>2 DEF CommitIndex
    <3>4. isCurrent' \in [Docs -> SUBSET Shas]
      BY <2>2, <3>2 DEF CommitIndex, FlagOnly
    <3> QED
      BY <2>2, <3>3, <3>4 DEF CommitIndex
  <2>3. ASSUME NEW w \in Writers, StaleIndex(w) \/ FailedIndex(w)
        PROVE  TypeOK'
    BY <2>3 DEF StaleIndex, FailedIndex
  <2>4. ASSUME NEW d \in Docs, NEW s \in Shas, RemoveAtomic(d, s)
        PROVE  TypeOK'
    <3>1. isCurrent' \in [Docs -> SUBSET Shas]
      BY <2>4 DEF RemoveAtomic
    <3>2. indexedAt' \in [Docs -> [Shas -> 0..MaxTime]]
      BY <2>4, IndexAssumption DEF RemoveAtomic
    <3> QED
      BY <2>4, <3>1, <3>2 DEF RemoveAtomic
  <2>5. CASE UNCHANGED vars
    BY <2>5 DEF vars
  <2> QED
    BY <2>1, <2>2, <2>3, <2>4, <2>5 DEF Next
<1> QED
  BY <1>1, <1>2, PTL DEF Spec
-----------------------------------------------------------------------------
\* A document with rows has exactly one flagged version, which is stored,
\* whatever is indexed or removed and however the calls overlap.
THEOREM FlagsAgree == Spec => []FlagsMatchRows
<1>1. Init => FlagsMatchRows
  BY DEF Init, FlagsMatchRows, Rows
<1>2. TypeOK /\ FlagsMatchRows /\ [Next]_vars => FlagsMatchRows'
  <2> SUFFICES ASSUME TypeOK, FlagsMatchRows, [Next]_vars
               PROVE  FlagsMatchRows'
    OBVIOUS
  <2>1. ASSUME NEW w \in Writers, CommitIndex(w)
        PROVE  FlagsMatchRows'
    <3>1. PICK doc \in Docs, sha \in Shas, at \in 1..MaxTime :
            doc = writer[w].doc /\ sha = writer[w].sha /\ at = writer[w].at
      BY <2>1 DEF CommitIndex, TypeOK, Call
    <3>2. ASSUME NEW d \in Docs, d # doc
          PROVE  isCurrent'[d] = isCurrent[d] /\ Rows(d)' = Rows(d)
      BY <2>1, <3>1, <3>2 DEF CommitIndex, FlagOnly, TypeOK, Rows
    <3>3. isCurrent'[doc] = {sha}
      BY <2>1, <3>1 DEF CommitIndex, FlagOnly, TypeOK
    <3>4. sha \in Rows(doc)'
      <4>1. indexedAt'[doc][sha] = at
        BY <2>1, <3>1 DEF CommitIndex, TypeOK
      <4> QED
        BY <3>1, <4>1, IndexAssumption DEF Rows
    <3> QED
      BY <3>2, <3>3, <3>4 DEF FlagsMatchRows
  <2>2. ASSUME NEW d \in Docs, NEW s \in Shas, RemoveAtomic(d, s)
        PROVE  FlagsMatchRows'
    <3>1. PICK flags \in SUBSET Shas :
            /\ FlagsAfterRemoval(d, s, flags)
            /\ isCurrent' = [isCurrent EXCEPT ![d] = flags]
      BY <2>2 DEF RemoveAtomic
    <3>2. Rows(d)' = Rows(d) \ {s}
      BY <2>2 DEF RemoveAtomic, TypeOK, Rows
    <3>3. isCurrent'[d] = flags
      BY <3>1 DEF TypeOK
    <3>4. ASSUME NEW c \in Docs, c # d
          PROVE  isCurrent'[c] = isCurrent[c] /\ Rows(c)' = Rows(c)
      BY <2>2, <3>1, <3>4 DEF RemoveAtomic, TypeOK, Rows
    <3>5. /\ flags \subseteq Rows(d) \ {s}
          /\ \A r, t \in flags : r = t
          /\ Rows(d) \ {s} # {} => flags # {}
      <4>1. CASE s \in isCurrent[d] /\ Rows(d) \ {s} # {}
        <5>1. PICK p \in Rows(d) \ {s} : flags = (isCurrent[d] \ {s}) \cup {p}
          BY <3>1, <4>1 DEF FlagsAfterRemoval
        <5>2. isCurrent[d] \ {s} = {}
          BY <4>1 DEF FlagsMatchRows
        <5> QED
          BY <5>1, <5>2
      <4>2. CASE ~(s \in isCurrent[d] /\ Rows(d) \ {s} # {})
        <5>1. flags = isCurrent[d] \ {s}
          BY <3>1, <4>2 DEF FlagsAfterRemoval
        <5> QED
          BY <4>2, <5>1 DEF FlagsMatchRows
      <4> QED
        BY <4>1, <4>2
    <3> QED
      BY <3>2, <3>3, <3>4, <3>5 DEF FlagsMatchRows
  <2>3. CASE UNCHANGED <<indexedAt, isCurrent>>
    BY <2>3 DEF FlagsMatchRows, Rows
  <2>4. ASSUME NEW w \in Writers, NEW d \in Docs, NEW s \in Shas,
               NEW e \in Expectations, BeginIndex(w, d, s, e)
        PROVE  UNCHANGED <<indexedAt, isCurrent>>
    BY <2>4 DEF BeginIndex
  <2>5. ASSUME NEW w \in Writers, StaleIndex(w) \/ FailedIndex(w)
        PROVE  UNCHANGED <<indexedAt, isCurrent>>
    BY <2>5 DEF StaleIndex, FailedIndex
  <2>6. CASE UNCHANGED vars
    BY <2>3, <2>6 DEF vars
  <2> QED
    BY <2>1, <2>2, <2>3, <2>4, <2>5, <2>6 DEF Next
<1> QED
  BY <1>1, <1>2, TypeCorrect, PTL DEF Spec
-----------------------------------------------------------------------------
\* The compare-and-set of index_atomic, with any number of writers: a call
\* that states an expectation changes rows or flags only while exactly the
\* expected version is flagged (none, when it expects none).
THEOREM CompareAndSet == Spec => NoLostVersion
<1> DEFINE Kept(w) ==
      (/\ writer[w] # Idle /\ writer'[w] = Idle
       /\ isCurrent' # isCurrent \/ indexedAt' # indexedAt)
      => \/ writer[w].expected = AnyVersion
         \/ isCurrent[writer[w].doc] = {writer[w].expected} \ {NoSha}
<1>1. TypeOK /\ FlagsMatchRows /\ [Next]_vars => [\A w \in Writers : Kept(w)]_vars
  <2> SUFFICES ASSUME TypeOK, FlagsMatchRows, Next, NEW w \in Writers
               PROVE  Kept(w)
    OBVIOUS
  <2>1. ASSUME NEW v \in Writers, CommitIndex(v)
        PROVE  Kept(w)
    <3>1. CASE v # w
      BY <2>1, <3>1 DEF CommitIndex, TypeOK
    <3>2. CASE v = w
      <4>1. writer[w].doc \in Docs
        BY <2>1, <3>2 DEF CommitIndex, TypeOK, Call
      <4>2. \/ writer[w].expected = AnyVersion
            \/ Reads(writer[w].doc, writer[w].expected)
        BY <2>1, <3>2 DEF CommitIndex, Expected
      <4>3. ASSUME Reads(writer[w].doc, writer[w].expected)
            PROVE  isCurrent[writer[w].doc] = {writer[w].expected} \ {NoSha}
        <5>1. CASE isCurrent[writer[w].doc] = {}
          BY <4>3, <5>1 DEF Reads
        <5>2. CASE isCurrent[writer[w].doc] # {}
          <6>1. writer[w].expected \in isCurrent[writer[w].doc]
            BY <4>3, <5>2 DEF Reads
          <6>2. \A s \in isCurrent[writer[w].doc] : s \in Shas /\ s = writer[w].expected
            BY <4>1, <6>1 DEF FlagsMatchRows, TypeOK
          <6> QED
            BY <6>1, <6>2, ShasAssumption
        <5> QED
          BY <5>1, <5>2
      <4> QED
        BY <4>2, <4>3
    <3> QED
      BY <3>1, <3>2
  <2>2. ASSUME NEW v \in Writers, NEW d \in Docs, NEW s \in Shas,
               NEW e \in Expectations, BeginIndex(v, d, s, e)
        PROVE  Kept(w)
    BY <2>2 DEF BeginIndex
  <2>3. ASSUME NEW v \in Writers, StaleIndex(v) \/ FailedIndex(v)
        PROVE  Kept(w)
    BY <2>3 DEF StaleIndex, FailedIndex
  <2>4. ASSUME NEW d \in Docs, NEW s \in Shas, RemoveAtomic(d, s)
        PROVE  Kept(w)
    BY <2>4 DEF RemoveAtomic
  <2> QED
    BY <2>1, <2>2, <2>3, <2>4 DEF Next
<1>2. Spec => [][Next]_vars
  BY PTL DEF Spec
<1> QED
  BY <1>1, <1>2, TypeCorrect, FlagsAgree, PTL DEF NoLostVersion
-----------------------------------------------------------------------------
(* The order of the versions, when calls do not overlap and the clock goes  *)
(* on between two timestamps (what "latest" means is lost otherwise: two    *)
(* writers may commit in the opposite order of their timestamps). Then no   *)
(* row is newer than the clock, and a call under way has the only timestamp *)
(* of its time.                                                             *)

OneWriter == \A v, w \in Writers : v = w

ClockMoves == 0 \notin Ticks

TimeInv ==
  /\ \A d \in Docs : Distinct(indexedAt[d])
  /\ \A d \in Docs, s \in Shas : indexedAt[d][s] <= clock
  /\ \A w \in Writers : writer[w] # Idle =>
       /\ writer[w].at = clock
       /\ \A d \in Docs, s \in Shas : indexedAt[d][s] < clock
  /\ CurrentIsLatest

\* The timestamps of a document are a table of the version order.
LEMMA RowsAreTables ==
  TypeOK => \A d \in Docs : /\ indexedAt[d] \in Tables
                            /\ Rows(d) = Stored(indexedAt[d])
BY IndexAssumption DEF TypeOK, Tables, Rows, Stored

\* Every step keeps the rows distinct, no newer than the clock, and the current
\* one the newest.
LEMMA TimeStep ==
  ASSUME OneWriter, ClockMoves, TypeOK, FlagsMatchRows, TimeInv, [Next]_vars
  PROVE  TimeInv'
<1> USE DEF TimeInv, TypeOK
<1>1. ASSUME NEW w \in Writers, NEW d \in Docs, NEW s \in Shas,
             NEW e \in Expectations, BeginIndex(w, d, s, e)
      PROVE  TimeInv'
  <2>1. PICK t \in Ticks :
          /\ clock' = clock + t
          /\ writer' = [writer EXCEPT ![w] =
                          [doc |-> d, sha |-> s, expected |-> e, at |-> clock + t]]
    BY <1>1 DEF BeginIndex
  <2>2. clock \in Nat /\ clock' \in Nat /\ clock < clock'
    BY <2>1, IndexAssumption DEF ClockMoves
  <2>3. UNCHANGED <<indexedAt, isCurrent>>
    BY <1>1 DEF BeginIndex
  <2>4. ASSUME NEW c \in Docs, NEW r \in Shas
        PROVE  indexedAt'[c][r] < clock'
    BY <2>2, <2>3
  <2>5. \A v \in Writers : v = w /\ writer'[v].at = clock'
    BY <2>1 DEF OneWriter
  <2>6. CurrentIsLatest' /\ \A c \in Docs : Distinct(indexedAt'[c])
    BY <2>3 DEF CurrentIsLatest, Rows
  <2>7. \A c \in Docs, r \in Shas : indexedAt'[c][r] <= clock'
    BY <2>2, <2>3
  <2> QED
    BY <2>4, <2>5, <2>6, <2>7
<1>2. ASSUME NEW w \in Writers, CommitIndex(w)
      PROVE  TimeInv'
  <2>1. PICK doc \in Docs, sha \in Shas :
          doc = writer[w].doc /\ sha = writer[w].sha /\ clock = writer[w].at
    BY <1>2 DEF CommitIndex, Call
  <2>2. /\ indexedAt' = [indexedAt EXCEPT ![doc][sha] = clock]
        /\ isCurrent' = [isCurrent EXCEPT ![doc] = {sha}]
        /\ writer' = [writer EXCEPT ![w] = Idle] /\ clock' = clock
    BY <1>2, <2>1 DEF CommitIndex, FlagOnly
  <2>3. ASSUME NEW d \in Docs, NEW s \in Shas
        PROVE  /\ indexedAt[d][s] < clock /\ indexedAt[d][s] \in Nat
               /\ indexedAt'[d][s] = IF d = doc /\ s = sha THEN clock ELSE indexedAt[d][s]
    BY <1>2, <2>2, IndexAssumption DEF CommitIndex
  <2>4. clock \in Nat
    BY IndexAssumption
  <2>5. \A d \in Docs : Distinct(indexedAt'[d])
    BY <2>3, <2>4 DEF Distinct
  <2>6. \A v \in Writers : writer'[v] = Idle
    BY <2>2 DEF OneWriter
  <2>7. CurrentIsLatest'
    <3> SUFFICES ASSUME NEW d \in Docs, NEW c \in isCurrent'[d], NEW s \in Rows(d)'
                 PROVE  indexedAt'[d][s] <= indexedAt'[d][c]
      BY DEF CurrentIsLatest
    <3>1. CASE d = doc
      BY <2>2, <2>3, <2>4, <3>1 DEF Rows
    <3>2. CASE d # doc
      BY <2>2, <2>3, <3>2 DEF CurrentIsLatest, Rows
    <3> QED
      BY <3>1, <3>2
  <2>8. \A d \in Docs, s \in Shas : indexedAt'[d][s] <= clock'
    BY <2>2, <2>3, <2>4
  <2> QED
    BY <2>5, <2>6, <2>7, <2>8
<1>3. ASSUME NEW w \in Writers, StaleIndex(w) \/ FailedIndex(w)
      PROVE  TimeInv'
  BY <1>3 DEF StaleIndex, FailedIndex, CurrentIsLatest, Rows
<1>4. ASSUME NEW d \in Docs, NEW s \in Shas, RemoveAtomic(d, s)
      PROVE  TimeInv'
  <2>1. PICK flags \in SUBSET Shas :
          /\ FlagsAfterRemoval(d, s, flags)
          /\ isCurrent' = [isCurrent EXCEPT ![d] = flags]
    BY <1>4 DEF RemoveAtomic
  <2>2. indexedAt' = [indexedAt EXCEPT ![d][s] = 0] /\ UNCHANGED <<clock, writer>>
    BY <1>4 DEF RemoveAtomic
  <2>3. ASSUME NEW c \in Docs, NEW r \in Shas
        PROVE  /\ indexedAt[c][r] \in Nat /\ indexedAt'[c][r] <= indexedAt[c][r]
               /\ indexedAt'[c][r] = IF c = d /\ r = s THEN 0 ELSE indexedAt[c][r]
    BY <2>2, IndexAssumption
  <2>4. clock \in Nat
    BY IndexAssumption
  <2>5. \A c \in Docs : Distinct(indexedAt'[c])
    BY <2>3 DEF Distinct
  <2>6. /\ \A c \in Docs, r \in Shas : indexedAt'[c][r] <= clock'
        /\ \A w \in Writers : writer'[w] # Idle =>
             /\ writer'[w].at = clock'
             /\ \A c \in Docs, r \in Shas : indexedAt'[c][r] < clock'
    BY <2>2, <2>3, <2>4
  <2>7. CurrentIsLatest'
    <3> SUFFICES ASSUME NEW e \in Docs, NEW c \in isCurrent'[e], NEW r \in Rows(e)'
                 PROVE  indexedAt'[e][r] <= indexedAt'[e][c]
      BY DEF CurrentIsLatest
    <3>1. CASE e # d
      BY <2>1, <2>3, <3>1 DEF CurrentIsLatest, Rows
    <3>2. CASE e = d /\ s \in isCurrent[d]
      <4>1. Rows(d)' = Rows(d) \ {s} /\ r \in Rows(d) \ {s}
        BY <2>3, <3>2 DEF Rows
      <4>2. PICK p \in Rows(d) \ {s} :
              IsNewest(d, Rows(d) \ {s}, p) /\ flags = (isCurrent[d] \ {s}) \cup {p}
        BY <2>1, <4>1, <3>2 DEF FlagsAfterRemoval
      <4>3. isCurrent[d] \ {s} = {}
        BY <3>2 DEF FlagsMatchRows
      <4>4. c = p
        BY <2>1, <3>2, <4>2, <4>3
      <4>5. indexedAt[d][r] <= indexedAt[d][p]
        BY <4>1, <4>2, <2>3 DEF IsNewest, Rows
      <4> QED
        BY <2>3, <3>2, <4>1, <4>2, <4>4, <4>5 DEF Rows
    <3>3. CASE e = d /\ s \notin isCurrent[d]
      <4>1. c \in isCurrent[d] /\ c # s
        BY <2>1, <3>3 DEF FlagsAfterRemoval
      <4>2. r \in Rows(d) /\ r # s
        BY <2>3, <3>3 DEF Rows
      <4>3. c \in Shas /\ r \in Shas
        BY <4>1, <4>2 DEF Rows
      <4> QED
        BY <2>3, <3>3, <4>1, <4>2, <4>3 DEF CurrentIsLatest
    <3> QED
      BY <3>1, <3>2, <3>3
  <2> QED
    BY <2>5, <2>6, <2>7
<1>5. CASE UNCHANGED vars
  BY <1>5 DEF vars, CurrentIsLatest, Rows
<1> QED
  BY <1>1, <1>2, <1>3, <1>4, <1>5 DEF Next

LEMMA TimeInvariant ==
  ASSUME OneWriter, ClockMoves
  PROVE  Spec => []TimeInv
<1>1. Init => TimeInv
  BY DEF Init, TimeInv, Distinct, CurrentIsLatest, Rows
<1>2. TypeOK /\ FlagsMatchRows /\ TimeInv /\ [Next]_vars => TimeInv'
  BY TimeStep
<1> QED
  BY <1>1, <1>2, TypeCorrect, FlagsAgree, PTL DEF Spec

\* The version remove_atomic brings back as the current one, and any other
\* current one, is the one that was indexed last of those stored.
THEOREM LatestIsCurrent ==
  ASSUME OneWriter, ClockMoves
  PROVE  Spec => []CurrentIsLatest
<1>1. TimeInv => CurrentIsLatest
  BY DEF TimeInv
<1> QED
  BY <1>1, TimeInvariant, PTL
-----------------------------------------------------------------------------
(* The refinement of VersionStack: every step of the indexer is a step of   *)
(* the stack, seen through the places of the timestamps.                    *)

\* The ranks of the refinement mapping are the places of the timestamps.
LEMMA RanksArePlaces ==
  \A c \in Docs : RankOf(c) = Place(indexedAt[c])
<1> SUFFICES ASSUME NEW d \in Docs PROVE RankOf(d) = Place(indexedAt[d])
  OBVIOUS
<1>1. ASSUME NEW s \in Shas
      PROVE  {r \in Rows(d) : indexedAt[d][r] <= indexedAt[d][s]} = Below(indexedAt[d], s)
  BY DEF Rows, Below
<1> QED
  BY <1>1 DEF RankOf, Place

LEMMA RanksArePlacesAfter ==
  (\A c \in Docs : RankOf(c) = Place(indexedAt[c]))'
BY RanksArePlaces, PTL

\* The flagged version is the abstract current one, the only one a SELECT
\* returns and the one at the highest place.
LEMMA CurrentMapped ==
  ASSUME TypeOK, FlagsMatchRows, NEW d \in Docs
  PROVE  /\ CurrentOf(d) \in Shas \cup {NoSha}
         /\ isCurrent[d] = {CurrentOf(d)} \ {NoSha}
         /\ \A c : Reads(d, c) => c = CurrentOf(d)
         /\ CurrentIsLatest => IsCurrent(RankOf(d), CurrentOf(d))
<1>1. CASE isCurrent[d] = {}
  <2>1. CurrentOf(d) = NoSha /\ Rows(d) = {}
    BY <1>1 DEF CurrentOf, FlagsMatchRows
  <2>2. Stored(RankOf(d)) = {}
    BY <2>1, RanksArePlaces, RowsAreTables, PlaceStored
  <2> QED
    BY <1>1, <2>1, <2>2 DEF Reads, IsCurrent
<1>2. CASE isCurrent[d] # {}
  <2>1. PICK c \in Shas : c \in isCurrent[d]
    BY <1>2 DEF TypeOK
  <2>2. isCurrent[d] = {c} /\ c \in Rows(d)
    BY <2>1 DEF FlagsMatchRows
  <2>3. CurrentOf(d) = c /\ c # NoSha
    BY <2>2, ShasAssumption DEF CurrentOf
  <2>4. indexedAt[d] \in Tables /\ Rows(d) = Stored(indexedAt[d])
    BY RowsAreTables
  <2>5. Stored(RankOf(d)) = Rows(d)
    BY <2>4, RanksArePlaces, PlaceStored
  <2>6. ASSUME CurrentIsLatest, NEW s \in Rows(d)
        PROVE  RankOf(d)[s] <= RankOf(d)[c]
    BY <2>2, <2>4, <2>6, RanksArePlaces, PlaceOrdered DEF CurrentIsLatest
  <2> QED
    BY <2>2, <2>3, <2>5, <2>6 DEF Reads, IsCurrent
<1> QED
  BY <1>1, <1>2

LEMMA CurrentOnTop ==
  TypeOK /\ FlagsMatchRows /\ TimeInv =>
    \A c \in Docs : /\ CurrentOf(c) \in Shas \cup {NoSha}
                    /\ IsCurrent(RankOf(c), CurrentOf(c))
BY CurrentMapped DEF TimeInv

\* What does not touch rows or flags maps to unchanged documents.
LEMMA DocsUnchanged ==
  UNCHANGED <<indexedAt, isCurrent>> =>
    /\ [d \in Docs |-> RankOf(d)]' = [d \in Docs |-> RankOf(d)]
    /\ [d \in Docs |-> CurrentOf(d)]' = [d \in Docs |-> CurrentOf(d)]
BY DEF RankOf, CurrentOf, Rows

\* Taking a timestamp begins a call of the stack.
LEMMA BeginMaps ==
  ASSUME TypeOK, NEW w \in Writers, NEW d \in Docs, NEW s \in Shas,
         NEW e \in Expectations, BeginIndex(w, d, s, e)
  PROVE  \E c \in Stack!Call : Stack!Begin(w, c)
<1> DEFINE c == [doc |-> d, sha |-> s, expected |-> e]
<1>1. PICK t \in Ticks :
        /\ clock + t \in 1..MaxTime
        /\ writer' = [writer EXCEPT ![w] =
                        [doc |-> d, sha |-> s, expected |-> e, at |-> clock + t]]
  BY DEF BeginIndex
<1>2. [doc |-> d, sha |-> s, expected |-> e, at |-> clock + t] \in Call
  BY <1>1 DEF Call
<1>3. writer'[w] # Idle /\ CallOf(w)' = c
  BY <1>1, <1>2, IdleAssumption DEF TypeOK, CallOf
<1>4. CallOf(w) = Idle /\ \A v \in Writers : v # w => CallOf(v)' = CallOf(v)
  BY <1>1 DEF BeginIndex, TypeOK, CallOf
<1>5. [v \in Writers |-> CallOf(v)]' = [[v \in Writers |-> CallOf(v)] EXCEPT ![w] = c]
  BY <1>3, <1>4
<1>6. c \in Stack!Call
  BY DEF Stack!Call, Expectations
<1> QED
  BY <1>4, <1>5, <1>6, DocsUnchanged DEF Stack!Begin, BeginIndex

\* A call that ends is the abstract call that ends.
LEMMA CallEnds ==
  ASSUME TypeOK, NEW w \in Writers, writer[w] # Idle,
         writer' = [writer EXCEPT ![w] = Idle]
  PROVE  /\ CallOf(w) = [doc |-> writer[w].doc, sha |-> writer[w].sha,
                         expected |-> writer[w].expected]
         /\ CallOf(w) # Idle
         /\ [v \in Writers |-> CallOf(v)]' = [[v \in Writers |-> CallOf(v)] EXCEPT ![w] = Idle]
<1>1. CallOf(w) = [doc |-> writer[w].doc, sha |-> writer[w].sha,
                   expected |-> writer[w].expected]
  BY DEF CallOf
<1>2. CallOf(w) # Idle
  BY <1>1, IdleAssumption DEF TypeOK, Call
<1>3. \A v \in Writers : CallOf(v)' = IF v = w THEN Idle ELSE CallOf(v)
  BY DEF TypeOK, CallOf
<1> QED
  BY <1>1, <1>2, <1>3

\* A refused or failed call changes nothing.
LEMMA RefuseMaps ==
  ASSUME TypeOK, NEW w \in Writers, StaleIndex(w) \/ FailedIndex(w)
  PROVE  Stack!Refuse(w)
BY CallEnds, DocsUnchanged DEF StaleIndex, FailedIndex, Stack!Refuse

\* The committed transaction puts the version on top.
LEMMA CommitMaps ==
  ASSUME TypeOK, FlagsMatchRows, TimeInv, NEW w \in Writers, CommitIndex(w)
  PROVE  Stack!PutOnTop(w)
<1>1. PICK doc \in Docs, sha \in Shas, expected \in Expectations :
        /\ CallOf(w) = [doc |-> doc, sha |-> sha, expected |-> expected]
        /\ doc = writer[w].doc /\ sha = writer[w].sha /\ expected = writer[w].expected
        /\ writer[w].at = clock
  <2>1. writer[w] \in Call /\ writer[w] # Idle /\ writer[w].at = clock
    BY DEF CommitIndex, TypeOK, TimeInv
  <2>2. CallOf(w) = [doc |-> writer[w].doc, sha |-> writer[w].sha,
                     expected |-> writer[w].expected]
    BY <2>1 DEF CallOf
  <2> QED
    BY <2>1, <2>2 DEF Call
<1>2. /\ CallOf(w) # Idle
      /\ [v \in Writers |-> CallOf(v)]' = [[v \in Writers |-> CallOf(v)] EXCEPT ![w] = Idle]
  BY CallEnds DEF CommitIndex
<1>3. expected \in {AnyVersion, CurrentOf(doc)}
  BY <1>1, CurrentMapped DEF CommitIndex, Expected
<1>4. /\ indexedAt' = [indexedAt EXCEPT ![doc][sha] = clock]
      /\ isCurrent' = [isCurrent EXCEPT ![doc] = {sha}]
  BY <1>1 DEF CommitIndex, FlagOnly
<1>5. RankOf(doc)' = Put(RankOf(doc), sha)
  <2>1. /\ indexedAt[doc] \in Tables /\ Distinct(indexedAt[doc]) /\ clock \in Nat
        /\ \A s \in Shas : indexedAt[doc][s] < clock
    BY RowsAreTables, IndexAssumption DEF TimeInv, CommitIndex, TypeOK
  <2>2. Place([indexedAt[doc] EXCEPT ![sha] = clock]) = Put(Place(indexedAt[doc]), sha)
    BY <2>1, PlacePut
  <2>3. indexedAt'[doc] = [indexedAt[doc] EXCEPT ![sha] = clock]
    BY <1>4 DEF TypeOK
  <2>4. RankOf(doc)' = Place(indexedAt'[doc])
    BY RanksArePlacesAfter
  <2> QED
    BY <2>2, <2>3, <2>4, RanksArePlaces
<1>6. CurrentOf(doc)' = sha
  BY <1>4 DEF CurrentOf, TypeOK
<1>7. ASSUME NEW d \in Docs, d # doc
      PROVE  RankOf(d)' = RankOf(d) /\ CurrentOf(d)' = CurrentOf(d)
  BY <1>4, <1>7 DEF RankOf, CurrentOf, Rows, TypeOK
<1>8. /\ [d \in Docs |-> RankOf(d)]' =
           [[d \in Docs |-> RankOf(d)] EXCEPT ![doc] = Put(RankOf(doc), sha)]
      /\ [d \in Docs |-> CurrentOf(d)]' = [[d \in Docs |-> CurrentOf(d)] EXCEPT ![doc] = sha]
  BY <1>5, <1>6, <1>7
<1>9. Stack!Put(RankOf(doc), sha) = Put(RankOf(doc), sha)
  BY DEF Stack!Put, Put, Stack!Drop, Drop, Stack!Stored, Stored, Stack!Cardinality, Cardinality
<1> QED
  <2>1. /\ [v \in Writers |-> CallOf(v)][w] = CallOf(w)
        /\ [d \in Docs |-> RankOf(d)][doc] = RankOf(doc)
        /\ [d \in Docs |-> CurrentOf(d)][doc] = CurrentOf(doc)
        /\ CallOf(w).doc = doc /\ CallOf(w).sha = sha /\ CallOf(w).expected = expected
    BY <1>1
  <2> QED
    BY <2>1, <1>2, <1>3, <1>8, <1>9 DEF Stack!PutOnTop

\* Deleting a row removes the version, and what comes back is the one below.
LEMMA RemoveMaps ==
  ASSUME TypeOK, TimeInv, (TypeOK /\ FlagsMatchRows /\ TimeInv)',
         NEW d \in Docs, NEW s \in Shas, RemoveAtomic(d, s)
  PROVE  Stack!Remove(d, s)
<1>1. indexedAt' = [indexedAt EXCEPT ![d][s] = 0] /\ writer' = writer
  BY DEF RemoveAtomic
<1>2. PICK flags \in SUBSET Shas : isCurrent' = [isCurrent EXCEPT ![d] = flags]
  BY DEF RemoveAtomic
<1>3. indexedAt[d] \in Tables /\ Distinct(indexedAt[d]) /\ Rows(d) = Stored(indexedAt[d])
  BY RowsAreTables DEF TimeInv
<1>4. RankOf(d)' = Drop(RankOf(d), s)
  <2>1. Place([indexedAt[d] EXCEPT ![s] = 0]) = Drop(Place(indexedAt[d]), s)
    BY <1>3, PlaceDrop
  <2>2. indexedAt'[d] = [indexedAt[d] EXCEPT ![s] = 0]
    BY <1>1 DEF TypeOK
  <2>3. RankOf(d)' = Place(indexedAt'[d])
    BY RanksArePlacesAfter
  <2> QED
    BY <2>1, <2>2, <2>3, RanksArePlaces
<1>5. ASSUME NEW c \in Docs, c # d
      PROVE  RankOf(c)' = RankOf(c) /\ CurrentOf(c)' = CurrentOf(c)
  BY <1>1, <1>2, <1>5 DEF RankOf, CurrentOf, Rows, TypeOK
<1>6. /\ [c \in Docs |-> RankOf(c)]' =
           [[c \in Docs |-> RankOf(c)] EXCEPT ![d] = Drop(RankOf(d), s)]
      /\ [c \in Docs |-> CurrentOf(c)]' =
           [[c \in Docs |-> CurrentOf(c)] EXCEPT ![d] = CurrentOf(d)']
  BY <1>4, <1>5
\* The state after the step has the invariants, so its flag is its latest.
<1>7. /\ CurrentOf(d)' \in Shas \cup {NoSha}
      /\ IsCurrent(RankOf(d), CurrentOf(d))'
  <2>1. (TypeOK /\ FlagsMatchRows /\ TimeInv =>
           \A c \in Docs : /\ CurrentOf(c) \in Shas \cup {NoSha}
                           /\ IsCurrent(RankOf(c), CurrentOf(c)))'
    BY CurrentOnTop, PTL
  <2> QED
    BY <2>1
<1>8. IsCurrent(Drop(RankOf(d), s), CurrentOf(d)')
  BY <1>4, <1>7 DEF IsCurrent, Stored
<1>9. s \in Stored(RankOf(d))
  BY <1>3, RanksArePlaces, PlaceStored DEF RemoveAtomic
<1>10. [v \in Writers |-> CallOf(v)]' = [v \in Writers |-> CallOf(v)]
  BY <1>1 DEF CallOf
<1>11. /\ s \in Stack!Stored([c \in Docs |-> RankOf(c)][d])
       /\ Stack!Drop([c \in Docs |-> RankOf(c)][d], s) = Drop(RankOf(d), s)
       /\ [c \in Docs |-> RankOf(c)]'[d] = Drop(RankOf(d), s)
       /\ Stack!IsCurrent(Drop(RankOf(d), s), CurrentOf(d)')
  BY <1>4, <1>8, <1>9
     DEF Stack!Stored, Stored, Stack!Drop, Drop, Stack!IsCurrent, IsCurrent
<1> QED
  BY <1>6, <1>7, <1>10, <1>11 DEF Stack!Remove

\* No rows, no flags and no call: the stack's initial state.
LEMMA InitMaps == Init => Stack!Init
<1> SUFFICES ASSUME Init PROVE Stack!Init
  OBVIOUS
<1>1. ASSUME NEW d \in Docs
      PROVE  RankOf(d) = [s \in Shas |-> 0] /\ CurrentOf(d) = NoSha
  BY DEF Init, RankOf, CurrentOf
<1>2. ASSUME NEW w \in Writers PROVE CallOf(w) = Idle
  BY DEF Init, CallOf
<1> QED
  BY <1>1, <1>2 DEF Stack!Init, Stack!NoVersions

LEMMA StepMaps ==
  /\ TypeOK /\ FlagsMatchRows /\ TimeInv
  /\ (TypeOK /\ FlagsMatchRows /\ TimeInv)'
  /\ [Next]_vars
  => [Stack!Next]_(Stack!vars)
<1> SUFFICES ASSUME TypeOK, FlagsMatchRows, TimeInv,
                    (TypeOK /\ FlagsMatchRows /\ TimeInv)', [Next]_vars
             PROVE  [Stack!Next]_(Stack!vars)
  OBVIOUS
<1>1. ASSUME NEW w \in Writers, NEW d \in Docs, NEW s \in Shas,
             NEW e \in Expectations, BeginIndex(w, d, s, e)
      PROVE  Stack!Next
  BY <1>1, BeginMaps DEF Stack!Next
<1>2. ASSUME NEW w \in Writers, CommitIndex(w)
      PROVE  Stack!Next
  BY <1>2, CommitMaps DEF Stack!Next
<1>3. ASSUME NEW w \in Writers, StaleIndex(w) \/ FailedIndex(w)
      PROVE  Stack!Next
  BY <1>3, RefuseMaps DEF Stack!Next
<1>4. ASSUME NEW d \in Docs, NEW s \in Shas, RemoveAtomic(d, s)
      PROVE  Stack!Next
  BY <1>4, RemoveMaps DEF Stack!Next
<1>5. CASE UNCHANGED vars
  <2>1. [w \in Writers |-> CallOf(w)]' = [w \in Writers |-> CallOf(w)]
    BY <1>5 DEF vars, CallOf
  <2> QED
    BY <1>5, <2>1, DocsUnchanged DEF vars, Stack!vars
<1> QED
  BY <1>1, <1>2, <1>3, <1>4, <1>5 DEF Next

\* With one writer and a clock that moves on, the indexer with its timestamps,
\* flags and transactions implements the version stack: for any number of
\* documents and versions, every call takes effect in one step, on the version
\* its caller expects, and a removal brings the version below back.
THEOREM ImplementsStack ==
  ASSUME OneWriter, ClockMoves
  PROVE  Spec => StackSpec
<1>1. Init => Stack!Init
  BY InitMaps
<1>2. /\ TypeOK /\ FlagsMatchRows /\ TimeInv
      /\ (TypeOK /\ FlagsMatchRows /\ TimeInv)'
      /\ [Next]_vars
      => [Stack!Next]_(Stack!vars)
  BY StepMaps
<1> QED
  BY <1>1, <1>2, TypeCorrect, FlagsAgree, TimeInvariant, PTL
     DEF Spec, StackSpec, Stack!Spec
=============================================================================
