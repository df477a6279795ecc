---------------------------- MODULE ReviewedIndex ---------------------------
(***************************************************************************)
(* The promise of the analysis gateway, without events, locks, queues,     *)
(* retries or failures: an analysis is prepared once and keeps its row, B  *)
(* is heard once, the operator consents to one index at a time and only to *)
(* a result of ALLOW, and a version goes on top of its document in one     *)
(* step that spends that consent, over the version it was prepared on.     *)
(***************************************************************************)
EXTENDS VersionOrder

CONSTANTS Analyses,  \* analysis ids
          Docs,      \* document ids
          HardShas,  \* candidates that carry a hard-blocking artifact
          Policies,  \* what B may decide, "ALLOW" among them
          Nil        \* no row, no result, no consent

VARIABLES row,      \* row[a]: what analysis a compares, fixed when prepared
          result,   \* result[a]: what B said of it
          barred,   \* analyses that were quarantined
          consent,  \* the analysis the operator has just consented to index
          rank      \* rank[d]: the table of document d

vars == <<row, result, barred, consent, rank>>

\* Two versions of a document, and the analysis this one repeats, if any.
Comparison == [doc : Docs, cand : Shas, expected : Shas \cup {NoSha},
               supersedes : Analyses \cup {Nil}]

Init ==
  /\ row = [a \in Analyses |-> Nil]
  /\ result = [a \in Analyses |-> Nil]
  /\ barred = {}
  /\ consent = Nil
  /\ rank = [d \in Docs |-> NoVersions]

\* A repeated analysis compares the very versions that the first one did.
Repeats(c, original) ==
  /\ original # Nil
  /\ c.doc = original.doc /\ c.cand = original.cand
  /\ c.expected = original.expected

Prepare(a) ==
  /\ row[a] = Nil
  /\ \E c \in Comparison :
       /\ c.supersedes # Nil => Repeats(c, row[c.supersedes])
       /\ row' = [row EXCEPT ![a] = c]
  /\ UNCHANGED <<result, barred, consent, rank>>

Hear(a, p) ==
  /\ row[a] # Nil
  /\ result[a] = Nil
  /\ result' = [result EXCEPT ![a] = p]
  /\ UNCHANGED <<row, barred, consent, rank>>

Consent(a) ==
  /\ consent = Nil
  /\ result[a] = "ALLOW"
  /\ consent' = a
  /\ UNCHANGED <<row, result, barred, rank>>

\* A consent may come to nothing for any reason; it is then spent as well.
Lapse ==
  /\ consent # Nil
  /\ consent' = Nil
  /\ UNCHANGED <<row, result, barred, rank>>

Bar(a) ==
  /\ row[a] # Nil
  /\ barred' = barred \cup {a}
  /\ UNCHANGED <<row, result, consent, rank>>

PutOnTop(a) ==
  LET r == row[a]
  IN  /\ consent = a
      /\ a \notin barred
      /\ r.cand \notin HardShas
      /\ IsCurrent(rank[r.doc], r.expected)
      /\ rank' = [rank EXCEPT ![r.doc] = Put(@, r.cand)]
      /\ consent' = Nil
      /\ UNCHANGED <<row, result, barred>>

\* A candidate is taken out: held, denied, or its index could not be recorded.
TakeOut(a) ==
  /\ row[a] # Nil
  /\ rank' = [rank EXCEPT ![row[a].doc] = Drop(@, row[a].cand)]
  /\ consent' = Nil
  /\ UNCHANGED <<row, result, barred>>

Next ==
  \/ Lapse
  \/ \E a \in Analyses :
       \/ Prepare(a) \/ Consent(a) \/ Bar(a) \/ PutOnTop(a) \/ TakeOut(a)
       \/ \E p \in Policies : Hear(a, p)

Spec == Init /\ [][Next]_vars
=============================================================================
