----------------------------- MODULE DocumentDiff ---------------------------
(***************************************************************************)
(* detectors/document_diff.py: the unit-level diff of two extracted        *)
(* documents and its numeric evidence. A text is a member of Texts, with    *)
(* its normal form (whitespace and invisible characters) and whether        *)
(* nothing is left of it. What a detector sees in a slice of units is a    *)
(* function of the slice, since the code joins the texts first: "10"       *)
(* before "pieces" is another number than "10" alone.                      *)
(***************************************************************************)
EXTENDS Integers, SequencesExt

CONSTANTS Texts,    \* texts of extracted units
          Normal,   \* Normal[t]: normalize_text(t)
          Blank,    \* texts that normalize to the empty string
          Numbers(_) \* extract_numeric_values of the texts of a slice, joined

ASSUME DiffAssumption ==
  /\ Blank \subseteq Texts
  /\ Normal \in [Texts -> Texts]
  /\ \A t \in Texts : Normal[Normal[t]] = Normal[t]
  /\ Numbers(<<>>) = <<>>

\* The members of s that are not in out, in their order.
Without(s, out) ==
  FlattenSeq([i \in DOMAIN s |-> IF s[i] \in out THEN <<>> ELSE <<s[i]>>])

\* _normalized_units: the normalized texts in order, the empty ones dropped.
\* (With no unit left the fallback text is empty as well.)
NormalizedUnits(units) == Without([i \in DOMAIN units |-> Normal[units[i]]], Blank)

\* difflib's longest matching block of a[la..ha] and b[lb..hb], the one that
\* starts first in a, then in b.
Block(a, b, la, ha, lb, hb) ==
  LET Fits(m) == /\ m.i + m.k - 1 <= ha /\ m.j + m.k - 1 <= hb
                 /\ \A n \in 0..(m.k - 1) : a[m.i + n] = b[m.j + n]
      Fitting == {m \in [i : la..ha, j : lb..hb, k : 1..Len(a)] : Fits(m)}
  IN IF Fitting = {} THEN [i |-> la, j |-> lb, k |-> 0]
     ELSE CHOOSE m \in Fitting :
            \A o \in Fitting :
              \/ m.k > o.k
              \/ m.k = o.k /\ (m.i < o.i \/ (m.i = o.i /\ m.j <= o.j))

\* SequenceMatcher.get_matching_blocks, as the matched index pairs in order:
\* those left of the longest block, the block, and those right of it.
Matched(a, b) ==
  LET Window == [la : 1..(Len(a) + 1), ha : 0..Len(a),
                 lb : 1..(Len(b) + 1), hb : 0..Len(b)]
      M[w \in Window] ==
        LET m == Block(a, b, w.la, w.ha, w.lb, w.hb)
        IN IF m.k = 0 THEN <<>>
           ELSE M[[w EXCEPT !.ha = m.i - 1, !.hb = m.j - 1]]
                \o [n \in 1..m.k |-> <<m.i + n - 1, m.j + n - 1>>]
                \o M[[w EXCEPT !.la = m.i + m.k, !.lb = m.j + m.k]]
  IN M[[la |-> 1, ha |-> Len(a), lb |-> 1, hb |-> Len(b)]]

\* What lies between consecutive pairs, on either side.
Slices(a, b, pairs) ==
  [n \in 1..(Len(pairs) - 1) |->
     [before |-> SubSeq(a, pairs[n][1] + 1, pairs[n + 1][1] - 1),
      after |-> SubSeq(b, pairs[n][2] + 1, pairs[n + 1][2] - 1)]]

NoGap == [before |-> <<>>, after |-> <<>>]

\* Mutant: what follows the last match is not reported.
Gaps_NoTail(a, b) == Without(Slices(a, b, <<<<0, 0>>>> \o Matched(a, b)), {NoGap})

\* get_opcodes without the equal ones.
Gaps(a, b) ==
  Without(Slices(a, b, <<<<0, 0>>>> \o Matched(a, b) \o <<<<Len(a) + 1, Len(b) + 1>>>>),
          {NoGap})

Befores(gaps) == FlattenSeq([n \in DOMAIN gaps |-> gaps[n].before])

Afters(gaps) == FlattenSeq([n \in DOMAIN gaps |-> gaps[n].after])

\* The changes of diff_documents: a slice of units on each side, ADD when
\* before is empty, DELETE when after is, else REPLACE.
Changes(baseline, candidate) ==
  Gaps(NormalizedUnits(baseline), NormalizedUnits(candidate))

\* Mutant: numbers are compared by position, the surplus of one side dropped.
ChangedNumbers_Aligned(change) ==
  LET b == Numbers(change.before)
      a == Numbers(change.after)
      Differs(i) == i <= Len(a) /\ i <= Len(b) /\ a[i] # b[i]
      Pick(s) == LET at == SelectSeq([i \in DOMAIN s |-> i], Differs)
                 IN [n \in DOMAIN at |-> s[at[n]]]
  IN [before |-> Pick(b), after |-> Pick(a)]

\* _changed_numeric_values of one change: the numbers that do not match.
ChangedNumbers(change) ==
  LET gaps == Gaps(Numbers(change.before), Numbers(change.after))
  IN [before |-> Befores(gaps), after |-> Afters(gaps)]

\* The change has a NumericChange.
NumericChanged(change) ==
  LET changed == ChangedNumbers(change)
  IN changed.before # <<>> \/ changed.after # <<>>
=============================================================================
