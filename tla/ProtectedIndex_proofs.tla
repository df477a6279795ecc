------------------------ MODULE ProtectedIndex_proofs -----------------------
(***************************************************************************)
(* Questions to the protected index, for any number of versions, writers    *)
(* and exchanges kept: retrieval, the model, the final look at the index    *)
(* and the keeping of the answer are steps of their own, so the invariant   *)
(* carries what was retrieved up to the end, and what the look found across *)
(* the steps the index takes before the answer is kept. Second, the chunks  *)
(* a text is split into, for a text, a size and an overlap of any length:   *)
(* the invariant relates the last chunk to what is left of the text, so     *)
(* that the next one neither begins nor ends before it.                     *)
(***************************************************************************)
EXTENDS ProtectedIndex, SequenceTheorems, WellFoundedInduction, TLAPS

Versions == Shas \cup {NoSha}

Exchanges == [version : Versions, cited : BOOLEAN, sources : SUBSET Versions]

\* What a question under way has given the model names one version only.
ChatInv ==
  /\ asking \in {"no", "model", "check", "answer"}
  /\ evidence \in Versions /\ cited \in BOOLEAN
  /\ sent \subseteq {evidence}
  /\ exchanges \in Seq(Exchanges)
  /\ asking = "check" => Now \subseteq since
  /\ asking = "answer" => evidence \in since

\* The last elements of a sequence are elements of it, and end as it does.
LEMMA LastOfEnds ==
  ASSUME NEW S, NEW s \in Seq(S), NEW n \in Nat \ {0}, s # <<>>
  PROVE  /\ LastOf(n, s) \in Seq(S) /\ LastOf(n, s) # <<>>
         /\ LastOf(n, s)[Len(LastOf(n, s))] = s[Len(s)]
<1> DEFINE from == IF Len(s) > n THEN Len(s) - n + 1 ELSE 1
<1>1. Len(s) \in Nat /\ Len(s) >= 1 /\ from \in 1..Len(s)
  BY EmptySeq, LenProperties
<1>2. LastOf(n, s) = SubSeq(s, from, Len(s))
  BY DEF LastOf
<1> HIDE DEF from
<1>3. /\ SubSeq(s, from, Len(s)) \in Seq(S)
      /\ Len(SubSeq(s, from, Len(s))) = Len(s) - from + 1
      /\ \A i \in 1..(Len(s) - from + 1) : SubSeq(s, from, Len(s))[i] = s[from + i - 1]
  BY <1>1, SubSeqProperties
<1>4. Len(s) - from + 1 \in 1..(Len(s) - from + 1)
      /\ from + (Len(s) - from + 1) - 1 = Len(s)
  BY <1>1
<1>5. SubSeq(s, from, Len(s))[Len(s) - from + 1] = s[Len(s)]
  BY <1>3, <1>4
<1>6. SubSeq(s, from, Len(s)) # <<>>
  <2>1. Len(<<>>) = 0
    BY EmptySeq
  <2>2. Len(SubSeq(s, from, Len(s))) # 0
    BY <1>1, <1>3
  <2> QED
    BY <2>1, <2>2, Zenon
<1> QED
  BY <1>2, <1>3, <1>5, <1>6

\* Earlier questions pass on no version but the one that is asked about.
LEMMA HistoryBound ==
  ASSUME NEW v
  PROVE  History(v) \subseteq {v}
BY DEF History

LEMMA RememberEnds ==
  ASSUME ChatInv, Remember
  PROVE  /\ exchanges' \in Seq(Exchanges)
         /\ exchanges'[Len(exchanges')] = [version |-> evidence, cited |-> cited, sources |-> sent]
<1> DEFINE x == [version |-> evidence, cited |-> cited, sources |-> sent]
<1>1. x \in Exchanges
  BY DEF ChatInv, Exchanges
<1> HIDE DEF x
<1>2. /\ Append(exchanges, x) \in Seq(Exchanges) /\ Append(exchanges, x) # <<>>
      /\ Append(exchanges, x)[Len(Append(exchanges, x))] = x
  BY <1>1, AppendProperties DEF ChatInv
<1>3. exchanges' = LastOf(Kept, Append(exchanges, x))
  BY DEF Remember, x
<1>4. Kept \in Nat \ {0}
  BY ChatAssumption
<1>5. /\ LastOf(Kept, Append(exchanges, x)) \in Seq(Exchanges)
      /\ LastOf(Kept, Append(exchanges, x))[Len(LastOf(Kept, Append(exchanges, x)))] = x
  BY <1>2, <1>4, LastOfEnds
<1> QED
  BY <1>3, <1>5 DEF x

LEMMA ChatInitInv ==
  ProtectedInit => ChatInv
<1> SUFFICES ASSUME ProtectedInit PROVE ChatInv
  OBVIOUS
<1>1. ChatInit
  BY DEF ProtectedInit
<1>2. <<>> \in Seq(Exchanges)
  BY EmptySeq
<1> QED
  BY <1>1, <1>2 DEF ChatInit, ChatInv, Versions

LEMMA ChatNextInv ==
  ChatInv /\ [ProtectedNext]_<<vars, chatVars, splitVars>> => ChatInv'
<1> SUFFICES ASSUME ChatInv, [ProtectedNext]_<<vars, chatVars, splitVars>> PROVE ChatInv'
  OBVIOUS
<1>1. CASE UNCHANGED <<vars, chatVars>>
  BY <1>1 DEF ChatInv, chatVars, vars, Now, Reads
<1>2. CASE Retrieve /\ UNCHANGED vars
  <2>1. PICK version \in Versions, match \in BOOLEAN :
          /\ evidence' = version /\ cited' = match
          /\ sent' = IF match THEN {version} \cup History(version) ELSE {}
          /\ asking' = IF match THEN "model" ELSE "check"
          /\ since' = IF match THEN {} ELSE Now
    BY <1>2 DEF Retrieve, Versions
  <2>2. sent' \subseteq {evidence'}
    BY <2>1, HistoryBound
  <2>3. Now' = Now
    BY <1>2 DEF Retrieve, vars, Now, Reads
  <2> QED
    BY <1>2, <2>1, <2>2, <2>3 DEF ChatInv, Retrieve
<1>3. CASE ModelAnswers /\ UNCHANGED vars
  <2>1. Now' = Now
    BY <1>3 DEF ModelAnswers, vars, Now, Reads
  <2> QED
    BY <1>3, <2>1 DEF ModelAnswers, ChatInv
<1>4. CASE QuestionFails
  BY <1>4 DEF QuestionFails, Forget, ChatInv, Versions
<1>5. CASE Check
  <2>1. CASE Reads(about, evidence)
    <3>1. evidence \in since
      BY <1>5, <2>1 DEF Check, ChatInv, Now, Versions
    <3> QED
      BY <1>5, <2>1, <3>1 DEF Check, ChatInv
  <2>2. CASE ~Reads(about, evidence)
    BY <1>5, <2>2 DEF Check, Forget, ChatInv, Versions
  <2> QED
    BY <2>1, <2>2
<1>6. CASE Remember
  <2>1. exchanges' \in Seq(Exchanges)
    BY <1>6, RememberEnds
  <2> QED
    BY <1>6, <2>1 DEF Remember, Forget, ChatInv, Versions
<1>7. CASE IndexMoves
  <2>1. since \subseteq since' /\ (asking = "check" => Now' \subseteq since')
    BY <1>7 DEF IndexMoves
  <2> QED
    BY <1>7, <2>1 DEF IndexMoves, ChatInv
<1> QED
  BY <1>1, <1>2, <1>3, <1>4, <1>5, <1>6, <1>7 DEF ProtectedNext, ChatNext

LEMMA ChatInvariant == ProtectedSpec => []ChatInv
BY ChatInitInv, ChatNextInv, PTL DEF ProtectedSpec

\* For any number of versions, writers and exchanges: an answer that is kept
\* names the one version all that the model was given for it came from, and
\* that version was current after the answer was made, however often the index
\* changed since the retrieval, between the last look (_require_unchanged_index)
\* and the keeping (append_exchange), or between the questions of the session.
THEOREM AnswersCurrent == ProtectedSpec => AnswersAreCurrent
<1> DEFINE Sound ==
      exchanges' # exchanges =>
        LET new == exchanges'[Len(exchanges')]
        IN new.version \in since /\ new.sources \subseteq {new.version}
<1>1. ChatInv /\ [ProtectedNext]_<<vars, chatVars, splitVars>> => [Sound]_chatVars
  <2> SUFFICES ASSUME ChatInv, ProtectedNext, exchanges' # exchanges
               PROVE  LET new == exchanges'[Len(exchanges')]
                      IN new.version \in since /\ new.sources \subseteq {new.version}
    BY DEF chatVars, vars
  <2>1. Remember
    BY DEF ProtectedNext, ChatNext, chatVars, IndexMoves, Retrieve, ModelAnswers,
           QuestionFails, Check
  <2>2. evidence \in since /\ sent \subseteq {evidence}
    BY <2>1 DEF Remember, ChatInv
  <2> QED
    BY <2>1, <2>2, RememberEnds
<1>2. ProtectedSpec => [][ProtectedNext]_<<vars, chatVars, splitVars>>
  BY PTL DEF ProtectedSpec
<1> QED
  BY <1>1, <1>2, ChatInvariant, PTL DEF AnswersAreCurrent
-----------------------------------------------------------------------------
(* Splitting, for texts of any length *)

\* A set of numbers up to n has a least and a greatest element.
LEMMA LeastOf ==
  ASSUME NEW T \in SUBSET Nat, T # {}
  PROVE  \E x \in T : \A y \in T : x <= y
<1> DEFINE R == OpToRel(<, Nat)
<1>1. IsWellFoundedOn(R, Nat)
  BY NatLessThanWellFounded
<1>2. \A x, y \in Nat : x < y => <<x, y>> \in R
  BY DEF OpToRel
<1> HIDE DEF R
<1>3. PICK x \in T : \A y \in T : ~(<<y, x>> \in R)
  BY <1>1, WFMin
<1>4. \A y \in T : x <= y
  <2>1. TAKE y \in T
  <2>2. x \in Nat /\ y \in Nat /\ ~(y < x)
    BY <1>2, <1>3
  <2> QED
    BY <2>2
<1> QED
  BY <1>4

LEMMA GreatestOf ==
  ASSUME NEW n \in Nat, NEW T \in SUBSET (0..n), T # {}
  PROVE  \E x \in T : \A y \in T : y <= x
<1> DEFINE C == {m \in Nat : n - m \in T}
<1>1. PICK t \in T : TRUE
  OBVIOUS
<1>2. n - t \in C
  BY <1>1
<1>3. PICK c \in C : \A d \in C : c <= d
  <2>1. C \in SUBSET Nat /\ C # {}
    BY <1>2
  <2> HIDE DEF C
  <2> QED
    BY <2>1, LeastOf
<1>4. c \in Nat /\ n - c \in T
  OBVIOUS
<1>5. ASSUME NEW y \in T
      PROVE  y <= n - c
  <2>1. y \in 0..n /\ n - y \in C
    OBVIOUS
  <2>2. c <= n - y
    BY <1>3, <2>1
  <2> QED
    BY <1>4, <2>1, <2>2
<1> QED
  BY <1>4, <1>5

SplitTypes ==
  /\ Len(text) \in Nat /\ size \in Nat \ {0} /\ overlap \in 0..(size - 1)
  /\ start \in 0..Len(text)

\* End and its window, for any beginning of a chunk.
WindowAt(s) == Least(s + size, Len(text))

BlanksAt(s) == {i \in s + size \div 2 .. WindowAt(s) - 1 : IsBlank(i) /\ i > s}

CutAt(s) == IF WindowAt(s) = Len(text) \/ BlanksAt(s) = {} THEN WindowAt(s)
            ELSE CHOOSE i \in BlanksAt(s) : \A j \in BlanksAt(s) : j <= i

LEMMA EndIsCut == End = CutAt(start)
BY DEF End, CutAt, BlanksAt, WindowAt

LEMMA CutBounds ==
  ASSUME SplitTypes, NEW s \in 0..(Len(text) - 1)
  PROVE  /\ WindowAt(s) \in (s + 1)..Len(text) /\ WindowAt(s) <= s + size
         /\ WindowAt(s) < Len(text) => WindowAt(s) = s + size
         /\ CutAt(s) \in (s + 1)..WindowAt(s)
         /\ \/ CutAt(s) = WindowAt(s) /\ (WindowAt(s) = Len(text) \/ BlanksAt(s) = {})
            \/ /\ WindowAt(s) # Len(text) /\ CutAt(s) \in BlanksAt(s)
               /\ \A i \in BlanksAt(s) : i <= CutAt(s)
<1>1. /\ WindowAt(s) \in (s + 1)..Len(text) /\ WindowAt(s) <= s + size
      /\ WindowAt(s) < Len(text) => WindowAt(s) = s + size
  BY DEF SplitTypes, WindowAt, Least
<1>2. size \div 2 \in Nat
  BY DEF SplitTypes
<1>3. BlanksAt(s) \subseteq (s + 1)..(WindowAt(s) - 1)
  BY <1>1, <1>2 DEF BlanksAt
<1>4. CASE WindowAt(s) = Len(text) \/ BlanksAt(s) = {}
  BY <1>1, <1>4 DEF CutAt
<1>5. CASE ~(WindowAt(s) = Len(text) \/ BlanksAt(s) = {})
  <2>1. BlanksAt(s) \in SUBSET (0..Len(text)) /\ Len(text) \in Nat
    BY <1>1, <1>3 DEF SplitTypes
  <2>2. \E i \in BlanksAt(s) : \A j \in BlanksAt(s) : j <= i
    BY <1>5, <2>1, GreatestOf
  <2>3. CutAt(s) \in BlanksAt(s) /\ \A j \in BlanksAt(s) : j <= CutAt(s)
    BY <1>5, <2>2 DEF CutAt
  <2>4. CutAt(s) \in (s + 1)..WindowAt(s) /\ WindowAt(s) # Len(text)
    BY <1>1, <1>3, <1>5, <2>3
  <2> QED
    BY <1>1, <2>3, <2>4
<1> QED
  BY <1>4, <1>5

\* A later chunk does not end before an earlier one: a blank that cuts it
\* would have cut the earlier one, or the earlier one's cut would cut it.
LEMMA CutGrows ==
  ASSUME SplitTypes, NEW s \in 0..(Len(text) - 1), NEW t \in 0..(Len(text) - 1), s < t
  PROVE  CutAt(s) <= CutAt(t)
<1> DEFINE h == size \div 2
<1>1. h \in Nat /\ Len(text) \in Nat /\ size \in Nat
  BY DEF SplitTypes
<1>2. /\ CutAt(s) \in (s + 1)..WindowAt(s) /\ CutAt(t) \in (t + 1)..WindowAt(t)
      /\ WindowAt(s) \in (s + 1)..Len(text) /\ WindowAt(t) \in (t + 1)..Len(text)
  BY CutBounds
<1>3. WindowAt(s) <= WindowAt(t)
  BY <1>1 DEF WindowAt, Least
<1> SUFFICES ASSUME CutAt(t) < CutAt(s) PROVE FALSE
  BY <1>2
<1>4. CutAt(t) # WindowAt(t)
  BY <1>2, <1>3
<1>5. CutAt(t) \in BlanksAt(t) /\ \A i \in BlanksAt(t) : i <= CutAt(t)
  BY <1>4, CutBounds
<1>6. CutAt(t) \in t + h .. WindowAt(t) - 1 /\ IsBlank(CutAt(t))
  BY <1>5 DEF BlanksAt
<1> HIDE DEF h
<1>7. CutAt(t) \in s + h .. WindowAt(s) - 1 /\ CutAt(t) > s
  BY <1>1, <1>2, <1>6
<1>8. CutAt(t) \in BlanksAt(s)
  BY <1>6, <1>7 DEF BlanksAt, h
<1>9. WindowAt(s) # Len(text)
  BY <1>2, <1>3, <1>4, CutBounds
<1>10. CutAt(s) \in BlanksAt(s)
  BY <1>8, <1>9, CutBounds
<1>11. CutAt(s) \in s + h .. WindowAt(s) - 1 /\ IsBlank(CutAt(s))
  BY <1>10 DEF BlanksAt, h
<1>12. CutAt(s) \in t + h .. WindowAt(t) - 1 /\ CutAt(s) > t
  BY <1>1, <1>2, <1>3, <1>6, <1>11
<1>13. CutAt(s) \in BlanksAt(t)
  BY <1>11, <1>12 DEF BlanksAt, h
<1> QED
  BY <1>2, <1>5, <1>13

Spans == [first : Nat, past : Nat]

\* A chunk spans all the letters of its part of the text.
LEMMA ChunkSpans ==
  ASSUME SplitTypes, NEW from \in 0..Len(text), NEW to \in from..Len(text)
  PROVE  \/ Chunk(from, to) = <<>> /\ \A i \in from..(to - 1) : IsBlank(i)
         \/ \E c \in Spans :
              /\ Chunk(from, to) = <<c>>
              /\ c.first \in from..(to - 1) /\ c.past - 1 \in c.first..(to - 1)
              /\ ~IsBlank(c.first) /\ ~IsBlank(c.past - 1)
              /\ \A i \in from..(to - 1) : IsBlank(i) \/ i \in c.first..(c.past - 1)
<1> DEFINE letters == {i \in from..(to - 1) : ~IsBlank(i)}
<1>1. CASE letters = {}
  BY <1>1 DEF Chunk
<1>2. CASE letters # {}
  <2> DEFINE f == CHOOSE i \in letters : \A j \in letters : i <= j
             l == CHOOSE i \in letters : \A j \in letters : j <= i
             c == [first |-> f, past |-> 1 + l]
  <2>1. letters \in SUBSET Nat /\ letters \in SUBSET (0..Len(text)) /\ Len(text) \in Nat
    BY DEF SplitTypes
  <2>2. /\ \E i \in letters : \A j \in letters : i <= j
        /\ \E i \in letters : \A j \in letters : j <= i
    <3> HIDE DEF letters
    <3> QED
      BY <1>2, <2>1, LeastOf, GreatestOf
  <2>3. Chunk(from, to) = <<c>>
    BY <1>2 DEF Chunk
  <2>4. /\ f \in letters /\ \A j \in letters : f <= j
        /\ l \in letters /\ \A j \in letters : j <= l
    <3> HIDE DEF letters
    <3> QED
      BY <2>2
  <2>5. c.first = f /\ c.past = 1 + l
    OBVIOUS
  <2> HIDE DEF f, l, c
  <2>6. f \in Nat /\ l \in Nat /\ f <= l /\ c.past - 1 = l
    BY <2>1, <2>4, <2>5
  <2>7. c \in Spans
    BY <2>6 DEF c, Spans
  <2>8. f \in from..(to - 1) /\ l \in f..(to - 1) /\ ~IsBlank(f) /\ ~IsBlank(l)
    BY <2>4, <2>6
  <2>9. ASSUME NEW i \in from..(to - 1), ~IsBlank(i)
        PROVE  i \in f..l
    BY <2>4, <2>6, <2>9
  <2> QED
    BY <2>3, <2>5, <2>6, <2>7, <2>8, <2>9
<1> QED
  BY <1>1, <1>2

\* The last chunk begins before every letter that is left, and the next one
\* will not end before it.
LastFits ==
  chunks # <<>> =>
    LET c == chunks[Len(chunks)]
    IN /\ ~IsBlank(c.past - 1)
       /\ \A i \in start..(Len(text) - 1) : IsBlank(i) \/ c.first <= i
       /\ start < Len(text) => c.past - 1 < start \/ c.past <= CutAt(start)

SplitInv ==
  /\ SplitTypes
  /\ chunks \in Seq(Spans)
  /\ \A i \in 0..(start - 1) :
       IsBlank(i) \/ \E k \in 1..Len(chunks) : i \in chunks[k].first..(chunks[k].past - 1)
  /\ \A k \in 1..Len(chunks) : chunks[k].past - chunks[k].first <= size
  /\ \A k \in 1..(Len(chunks) - 1) : /\ chunks[k].first <= chunks[k + 1].first
                                     /\ chunks[k].past <= chunks[k + 1].past
  /\ Len(chunks) <= start
  /\ LastFits

LEMMA SplitInitInv == ProtectedInit => SplitInv
<1> SUFFICES ASSUME ProtectedInit PROVE SplitInv
  OBVIOUS
<1>1. start = 0 /\ chunks = <<>>
  BY DEF ProtectedInit, SplitInit, SplitOff
<1>2. SplitTypes
  <2>1. Len(text) \in Nat
    <3>1. CASE SplitInit
      <4>1. PICK n \in 0..MaxLength : text \in [1..n -> {"letter"} \cup Blanks]
        BY <3>1 DEF SplitInit, Texts
      <4>2. n \in Nat
        BY SplitAssumption
      <4> QED
        BY <4>1, <4>2
    <3>2. CASE SplitOff
      BY <3>2 DEF SplitOff
    <3> QED
      BY <3>1, <3>2 DEF ProtectedInit
  <2>2. size \in Nat \ {0} /\ overlap \in 0..(size - 1)
    BY SplitAssumption DEF ProtectedInit, SplitInit, SplitOff
  <2> QED
    BY <1>1, <2>1, <2>2 DEF SplitTypes
<1>3. chunks \in Seq(Spans) /\ Len(chunks) = 0
  BY <1>1
<1> QED
  BY <1>1, <1>2, <1>3 DEF SplitInv, LastFits

LEMMA SplitStepInv ==
  ASSUME SplitInv, SplitNext
  PROVE  SplitInv'
<1>1. /\ SplitTypes /\ start \in 0..(Len(text) - 1) /\ Len(text) \in Nat
      /\ UNCHANGED <<text, size, overlap>>
      /\ chunks \in Seq(Spans) /\ Len(chunks) \in Nat
  BY DEF SplitInv, SplitTypes, SplitNext
<1>2. PICK e \in (start + 1)..Len(text) :
        /\ e = CutAt(start) /\ e = End /\ e <= start + size
  <2>1. PICK s \in 0..(Len(text) - 1) : s = start
    BY <1>1
  <2>2. /\ WindowAt(s) \in (s + 1)..Len(text) /\ WindowAt(s) <= s + size
        /\ CutAt(s) \in (s + 1)..WindowAt(s)
    BY <1>1, CutBounds
  <2>3. CutAt(s) \in (s + 1)..Len(text) /\ CutAt(s) <= s + size
    BY <1>1, <2>2 DEF SplitTypes
  <2>4. CutAt(start) \in (start + 1)..Len(text) /\ CutAt(start) <= start + size
    BY <2>1, <2>3
  <2> QED
    BY <2>4, EndIsCut
<1>3. /\ chunks' = chunks \o Chunk(start, e)
      /\ start' \in (start + 1)..e
  BY <1>1, <1>2 DEF SplitNext, NextStart, SplitTypes
<1>4. PICK next \in (start + 1)..e : next = start'
  BY <1>3
<1>5. start \in Int /\ e \in Int
  BY <1>1, <1>2
<1>6. SplitTypes'
  BY <1>1, <1>2, <1>3 DEF SplitTypes
<1>7. \A i : IsBlank(i)' = IsBlank(i)
  BY <1>1 DEF IsBlank
<1>8. ASSUME start' < Len(text)
      PROVE  e <= CutAt(start')
  <2>1. PICK t \in 0..(Len(text) - 1) : t = start'
    BY <1>1, <1>2, <1>3, <1>8
  <2>2. PICK s \in 0..(Len(text) - 1) : s = start
    BY <1>1
  <2>3. s < t
    BY <1>1, <1>2, <1>3, <2>1, <2>2
  <2>4. CutAt(s) <= CutAt(t)
    BY <1>1, <2>3, CutGrows
  <2> QED
    BY <1>2, <2>1, <2>2, <2>4
<1>9. CutAt(start)' = CutAt(start')
  BY <1>1 DEF CutAt, BlanksAt, WindowAt, IsBlank
<1>10. ASSUME chunks # <<>>
      PROVE  /\ chunks[Len(chunks)] \in Spans /\ Len(chunks) \in 1..Len(chunks)
             /\ ~IsBlank(chunks[Len(chunks)].past - 1)
             /\ \A i \in start..(Len(text) - 1) : IsBlank(i) \/ chunks[Len(chunks)].first <= i
             /\ chunks[Len(chunks)].past - 1 < start \/ chunks[Len(chunks)].past <= e
  BY <1>1, <1>2, <1>10 DEF SplitInv, LastFits
<1>11. CASE Chunk(start, e) = <<>> /\ \A i \in start..(e - 1) : IsBlank(i)
  <2>1. chunks' = chunks
    BY <1>1, <1>3, <1>11
  <2>2. ASSUME NEW i \in 0..(next - 1)
        PROVE  IsBlank(i) \/ \E k \in 1..Len(chunks) : i \in chunks[k].first..(chunks[k].past - 1)
    <3>1. CASE i < start
      BY <1>5, <3>1 DEF SplitInv
    <3>2. CASE i >= start
      <4>1. i \in start..(e - 1)
        BY <1>5, <3>2
      <4> QED
        BY <1>11, <4>1
    <3> QED
      BY <1>5, <3>1, <3>2
  <2>3. LastFits'
    <3> SUFFICES ASSUME chunks # <<>>
                 PROVE  /\ ~IsBlank(chunks[Len(chunks)].past - 1)
                        /\ \A i \in start'..(Len(text) - 1) :
                             IsBlank(i) \/ chunks[Len(chunks)].first <= i
                        /\ start' < Len(text) =>
                             \/ chunks[Len(chunks)].past - 1 < start'
                             \/ chunks[Len(chunks)].past <= CutAt(start')
      BY <1>1, <1>7, <1>9, <2>1 DEF LastFits
    <3>1. chunks[Len(chunks)].past \in Nat
      BY <1>10 DEF Spans
    <3>2. start' < Len(text) => CutAt(start') \in Int
      BY <1>1, <1>3, CutBounds
    <3> QED
      BY <1>1, <1>2, <1>3, <1>8, <1>10, <3>1, <3>2
  <2>4. Len(chunks) <= start'
    BY <1>1, <1>3 DEF SplitInv
  <2> QED
    BY <1>1, <1>4, <1>7, <1>6, <2>1, <2>2, <2>3, <2>4 DEF SplitInv
<1>12. ASSUME NEW c \in Spans, Chunk(start, e) = <<c>>,
              c.first \in start..(e - 1), c.past - 1 \in c.first..(e - 1),
              ~IsBlank(c.first), ~IsBlank(c.past - 1),
              \A i \in start..(e - 1) : IsBlank(i) \/ i \in c.first..(c.past - 1)
       PROVE  SplitInv'
  <2> DEFINE n == Len(chunks)
  <2>1. /\ chunks' \in Seq(Spans) /\ Len(chunks') = n + 1 /\ chunks'[n + 1] = c
        /\ \A k \in 1..n : chunks'[k] = chunks[k]
    <3>1. chunks' = Append(chunks, c)
      BY <1>1, <1>3, <1>12
    <3> QED
      BY <1>1, <3>1, AppendProperties
  <2>2. n \in Nat /\ c.first \in Nat /\ c.past \in Nat
    BY <1>1 DEF Spans
  <2> HIDE DEF n
  <2>3. ASSUME NEW i \in 0..(next - 1)
        PROVE  IsBlank(i) \/ \E k \in 1..(n + 1) : i \in chunks'[k].first..(chunks'[k].past - 1)
    <3>1. CASE i < start
      <4>1. \A x \in 0..(start - 1) :
              IsBlank(x) \/ \E k \in 1..n : x \in chunks[k].first..(chunks[k].past - 1)
        BY DEF SplitInv, n
      <4>2. i \in 0..(start - 1)
        BY <1>5, <3>1
      <4>3. ASSUME NEW k \in 1..n PROVE k \in 1..(n + 1) /\ chunks'[k] = chunks[k]
        BY <2>1, <2>2
      <4> QED
        BY <4>1, <4>2, <4>3
    <3>2. CASE i >= start
      <4>1. i \in start..(e - 1)
        BY <1>5, <3>2
      <4> QED
        BY <1>12, <2>1, <2>2, <4>1
    <3> QED
      BY <1>5, <3>1, <3>2
  <2>4. ASSUME NEW k \in 1..(n + 1)
        PROVE  chunks'[k].past - chunks'[k].first <= size
    <3>1. CASE k = n + 1
      BY <1>1, <1>2, <1>12, <2>1, <2>2, <3>1 DEF SplitTypes
    <3>2. CASE k # n + 1
      BY <2>1, <2>2, <3>2 DEF SplitInv, n
    <3> QED
      BY <3>1, <3>2
  <2>5. ASSUME NEW k \in 1..n
        PROVE  /\ chunks'[k].first <= chunks'[k + 1].first
               /\ chunks'[k].past <= chunks'[k + 1].past
    <3>1. CASE k = n
      <4>1. chunks # <<>> /\ chunks'[k] = chunks[Len(chunks)] /\ chunks'[k + 1] = c
        BY <2>1, <2>2, <3>1 DEF n
      <4> DEFINE d == chunks[Len(chunks)]
      <4>2. /\ d \in Spans /\ ~IsBlank(d.past - 1) /\ d.first \in Nat /\ d.past \in Nat
            /\ \A i \in start..(Len(text) - 1) : IsBlank(i) \/ d.first <= i
            /\ d.past - 1 < start \/ d.past <= e
        BY <1>10, <4>1 DEF Spans
      <4> HIDE DEF d
      <4>3. d.first <= c.first
        BY <1>1, <1>2, <1>12, <2>2, <4>2
      <4>4. d.past <= c.past
        <5>1. CASE d.past - 1 < start
          BY <1>1, <1>12, <2>2, <4>2, <5>1
        <5>2. CASE d.past - 1 >= start
          <6>1. d.past - 1 \in start..(e - 1)
            BY <1>1, <1>2, <4>2, <5>2
          <6> QED
            BY <1>12, <2>2, <4>2, <6>1
        <5> QED
          BY <1>1, <4>2, <5>1, <5>2
      <4> QED
        BY <4>1, <4>3, <4>4 DEF d
    <3>2. CASE k # n
      <4>1. k \in 1..(n - 1) /\ chunks'[k] = chunks[k] /\ chunks'[k + 1] = chunks[k + 1]
        BY <2>1, <2>2, <3>2
      <4> QED
        BY <4>1 DEF SplitInv, n
    <3> QED
      BY <3>1, <3>2
  <2>6. n + 1 <= start'
    BY <1>1, <1>3, <2>2 DEF SplitInv, n
  <2>7. LastFits'
    <3>1. ASSUME NEW i \in start'..(Len(text) - 1), ~IsBlank(i)
          PROVE  c.first <= i
      <4>1. i \in Int /\ (i < e => i \in start..(e - 1))
        BY <1>1, <1>2, <1>3
      <4> QED
        BY <1>1, <1>2, <1>12, <2>2, <3>1, <4>1
    <3>2. start' < Len(text) => c.past <= CutAt(start')
      <4>1. start' < Len(text) => CutAt(start') \in Int
        BY <1>1, <1>3, CutBounds
      <4> QED
        BY <1>1, <1>2, <1>8, <1>12, <2>2, <4>1
    <3> QED
      BY <1>1, <1>7, <1>9, <1>12, <2>1, <3>1, <3>2 DEF LastFits
  <2> QED
    BY <1>1, <1>4, <1>7, <1>6, <2>1, <2>2, <2>3, <2>4, <2>5, <2>6, <2>7 DEF SplitInv
<1> QED
  <2>1. start \in 0..Len(text) /\ e \in start..Len(text)
    BY <1>1, <1>2
  <2> QED
    BY <1>1, <1>11, <1>12, <2>1, ChunkSpans

LEMMA SplitInvariant == ProtectedSpec => []SplitInv
<1>1. SplitInv /\ [ProtectedNext]_<<vars, chatVars, splitVars>> => SplitInv'
  <2> SUFFICES ASSUME SplitInv, [ProtectedNext]_<<vars, chatVars, splitVars>> PROVE SplitInv'
    OBVIOUS
  <2>1. CASE UNCHANGED splitVars
    BY <2>1 DEF splitVars, SplitInv, SplitTypes, LastFits, CutAt, BlanksAt, WindowAt, IsBlank
  <2>2. CASE SplitNext
    BY <2>2, SplitStepInv
  <2> QED
    BY <2>1, <2>2 DEF ProtectedNext
<1> QED
  BY <1>1, SplitInitInv, PTL DEF ProtectedSpec

\* For a text of any length, any chunk size and any overlap below it: no
\* letter is dropped, no chunk is too long, the chunks are in order, and there
\* are no more of them than characters.
THEOREM SplitKeepsAll == ProtectedSpec => []SplitKeepsText
<1>1. SplitInv => SplitKeepsText
  <2> SUFFICES ASSUME SplitInv PROVE SplitKeepsText
    OBVIOUS
  <2>1. DOMAIN chunks = 1..Len(chunks) /\ Len(chunks) \in Nat
    BY DEF SplitInv
  <2>2. Len(chunks) <= Len(text)
    BY <2>1 DEF SplitInv, SplitTypes
  <2> QED
    BY <2>1, <2>2 DEF SplitInv, SplitKeepsText
<1> QED
  BY <1>1, SplitInvariant, PTL
=============================================================================
