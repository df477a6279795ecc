--------------------------- MODULE AiServices_proofs ------------------------
(***************************************************************************)
(* Proofs about one analysis of the B service and one screening, for every *)
(* set of documents, every judge and every length of the retry window.     *)
(***************************************************************************)
EXTENDS AiServices, SequenceTheorems, FiniteSetTheorems, WellFoundedInduction, TLAPS

-----------------------------------------------------------------------------
(* Induction. The theorems of the library have a predicate as a parameter; for a
   set, well-foundedness gives it without one. *)

\* Well-foundedness of the natural numbers: a set of them has a least element.
LEMMA LeastOf ==
  ASSUME NEW T \in SUBSET Nat, T # {}
  PROVE  \E x \in T : \A y \in T : x <= y
<1> DEFINE R == OpToRel(<, Nat)
<1>1. IsWellFoundedOn(R, Nat)
  BY NatLessThanWellFounded
<1>2. \A x, y \in Nat : x < y => <<x, y>> \in R
  BY DEF OpToRel
<1> HIDE DEF R
<1>3. PICK x \in T : \A y \in T : ~(<<y, x>> \in R)
  BY <1>1, WFMin
<1>4. \A y \in T : x <= y
  <2>1. TAKE y \in T
  <2>2. x \in Nat /\ y \in Nat
    OBVIOUS
  <2>3. ~(y < x)
    BY <1>2, <1>3, <2>2
  <2> QED  BY <2>2, <2>3
<1> QED  BY <1>4

LEMMA GreatestOf ==
  ASSUME NEW T \in SUBSET Nat, T # {}, NEW n \in Nat, \A x \in T : x <= n
  PROVE  \E x \in T : \A y \in T : y <= x
<1> DEFINE C == {m \in Nat : \E x \in T : m = n - x}
<1>1. PICK x \in T : TRUE
  OBVIOUS
<1>2. C \in SUBSET Nat /\ C # {}
  <2>1. n - x \in Nat
    OBVIOUS
  <2> QED
    BY <2>1
<1>3. PICK c \in C : \A d \in C : c <= d
  <2> HIDE DEF C
  <2> QED
    BY <1>2, LeastOf
<1>4. PICK z \in T : c = n - z
  OBVIOUS
<1>5. ASSUME NEW y \in T PROVE y <= z
  <2>1. n - y \in C
    OBVIOUS
  <2>2. n - z <= n - y
    BY <1>3, <1>4, <2>1
  <2> QED
    BY <2>2
<1> QED
  BY <1>5

\* Induction, for a set in place of a predicate.
LEMMA AllNat ==
  ASSUME NEW T \in SUBSET Nat, 0 \in T, \A n \in T : n + 1 \in T
  PROVE  \A n \in Nat : n \in T
<1> SUFFICES ASSUME Nat \ T # {} PROVE FALSE
  OBVIOUS
<1>1. PICK x \in Nat \ T : \A y \in Nat \ T : x <= y
  BY LeastOf
<1>2. x - 1 \in T
  <2>1. x # 0
    OBVIOUS
  <2> QED
    BY <1>1, <2>1
<1> QED
  BY <1>2

\* Induction over sequences, for a set in place of a predicate.
LEMMA AllSeq ==
  ASSUME NEW V, NEW T \in SUBSET Seq(V), <<>> \in T,
         \A s \in T, e \in V : Append(s, e) \in T
  PROVE  \A s \in Seq(V) : s \in T
<1> DEFINE N == {n \in Nat : \A s \in Seq(V) : Len(s) = n => s \in T}
<1>1. 0 \in N
  <2>1. \A s \in Seq(V) : Len(s) = 0 => s = <<>>
    BY EmptySeq
  <2> QED
    BY <2>1
<1>2. ASSUME NEW n \in N PROVE n + 1 \in N
  <2>1. n \in Nat /\ \A s \in Seq(V) : Len(s) = n => s \in T
    OBVIOUS
  <2>2. ASSUME NEW s \in Seq(V), Len(s) = n + 1 PROVE s \in T
    <3>1. s # <<>>
      BY <2>1, <2>2, EmptySeq
    <3>2. PICK t \in Seq(V), e \in V : s = Append(t, e)
      BY <3>1, SequenceEmptyOrAppend
    <3>3. Len(t) = n
      BY <2>1, <2>2, <3>2, AppendProperties, LenProperties
    <3> QED
      BY <2>1, <3>2, <3>3
  <2> QED
    BY <2>1, <2>2
<1>3. N \in SUBSET Nat
  OBVIOUS
<1> HIDE DEF N
<1>4. \A n \in Nat : n \in N
  BY <1>1, <1>2, <1>3, AllNat
<1> QED
  BY <1>4, LenProperties DEF N
-----------------------------------------------------------------------------
(* Flattened, mapped and filtered sequences *)

\* What FlattenSeq's recursion computes.
IsFlat(ss, f) ==
  f = [i \in 1..Len(ss) |-> IF i = 1 THEN ss[i] ELSE f[i - 1] \o ss[i]]

LEMMA FlatExists ==
  ASSUME NEW V, NEW ss \in Seq(Seq(V))
  PROVE  \E f \in [1..Len(ss) -> Seq(V)] : IsFlat(ss, f)
<1> DEFINE E(g, i) == IF i = 1 THEN ss[i] ELSE g[i - 1] \o ss[i]
           T == {n \in Nat : \E g \in [1..Len(ss) -> Seq(V)] :
                               \A i \in 1..Len(ss) : i <= n => g[i] = E(g, i)}
<1>0. Len(ss) \in Nat /\ DOMAIN ss = 1..Len(ss) /\ \A i \in 1..Len(ss) : ss[i] \in Seq(V)
  BY LenProperties, ElementOfSeq
<1>1. 0 \in T
  <2>1. [i \in 1..Len(ss) |-> <<>>] \in [1..Len(ss) -> Seq(V)]
    OBVIOUS
  <2>2. \A i \in 1..Len(ss) : ~(i <= 0)
    OBVIOUS
  <2> QED
    BY <2>1, <2>2
<1>2. ASSUME NEW n \in T PROVE n + 1 \in T
  <2>1. PICK g \in [1..Len(ss) -> Seq(V)] : \A i \in 1..Len(ss) : i <= n => g[i] = E(g, i)
    OBVIOUS
  <2> DEFINE h == [i \in 1..Len(ss) |-> IF i = n + 1 THEN E(g, i) ELSE g[i]]
  <2>2. \A i \in 1..Len(ss) : E(g, i) \in Seq(V)
    <3> TAKE i \in 1..Len(ss)
    <3>1. ss[i] \in Seq(V)
      BY <1>0
    <3>2. i # 1 => i - 1 \in 1..Len(ss)
      BY <1>0
    <3>3. i # 1 => g[i - 1] \in Seq(V)
      BY <3>2
    <3> QED
      BY <3>1, <3>3
  <2>3. h \in [1..Len(ss) -> Seq(V)]
    BY <2>2
  <2>4. \A i \in 1..Len(ss) : i <= n + 1 => h[i] = E(h, i)
    <3> TAKE i \in 1..Len(ss)
    <3> HAVE i <= n + 1
    <3>1. i # 1 => /\ i - 1 \in 1..Len(ss) /\ i - 1 # n + 1 /\ i - 1 <= n
      BY <1>0
    <3>2. E(h, i) = E(g, i)
      BY <3>1
    <3>3. h[i] = E(g, i)
      <4>1. i = n + 1 \/ i <= n
        BY <1>0
      <4> QED
        BY <2>1, <4>1
    <3> QED
      BY <3>2, <3>3
  <2> HIDE DEF h
  <2>5. \E e \in [1..Len(ss) -> Seq(V)] : \A i \in 1..Len(ss) : i <= n + 1 => e[i] = E(e, i)
    BY <2>3, <2>4
  <2>6. n + 1 \in Nat
    OBVIOUS
  <2> QED
    BY <2>5, <2>6
<1> HIDE DEF T
<1>3. Len(ss) \in T
  <2>1. T \in SUBSET Nat
    BY DEF T
  <2> QED
    BY <1>0, <1>1, <1>2, <2>1, AllNat
<1>4. PICK f \in [1..Len(ss) -> Seq(V)] : \A i \in 1..Len(ss) : f[i] = E(f, i)
  <2>1. PICK f \in [1..Len(ss) -> Seq(V)] : \A i \in 1..Len(ss) : i <= Len(ss) => f[i] = E(f, i)
    BY <1>3 DEF T
  <2>2. \A i \in 1..Len(ss) : f[i] = E(f, i)
    BY <1>0, <2>1
  <2> QED
    BY <2>2
<1> QED
  BY <1>4 DEF IsFlat

LEMMA FlatAt ==
  ASSUME NEW ss, NEW f, IsFlat(ss, f), NEW i \in 1..Len(ss)
  PROVE  f[i] = IF i = 1 THEN ss[i] ELSE f[i - 1] \o ss[i]
BY DEF IsFlat

\* The recursion looks at the sequences up to its argument only.
LEMMA FlatAgrees ==
  ASSUME NEW V, NEW ss \in Seq(Seq(V)), NEW tt \in Seq(Seq(V)),
         NEW f, NEW g, IsFlat(ss, f), IsFlat(tt, g),
         NEW n \in 0..Len(ss), n <= Len(tt),
         \A i \in 1..n : ss[i] = tt[i]
  PROVE  \A i \in 1..n : f[i] = g[i] /\ f[i] \in Seq(V)
<1>0. /\ Len(ss) \in Nat /\ Len(tt) \in Nat
      /\ \A i \in 1..n : i \in 1..Len(ss) /\ i \in 1..Len(tt) /\ ss[i] \in Seq(V)
  BY LenProperties, ElementOfSeq
<1> DEFINE T == {k \in Nat : k \in 1..n => f[k] = g[k] /\ f[k] \in Seq(V)}
<1>1. 0 \in T
  OBVIOUS
<1>2. ASSUME NEW k \in T PROVE k + 1 \in T
  <2>1. SUFFICES ASSUME k + 1 \in 1..n
        PROVE  f[k + 1] = g[k + 1] /\ f[k + 1] \in Seq(V)
    OBVIOUS
  <2>2. /\ f[k + 1] = IF k + 1 = 1 THEN ss[1] ELSE f[k] \o ss[k + 1]
        /\ g[k + 1] = IF k + 1 = 1 THEN tt[1] ELSE g[k] \o tt[k + 1]
    <3>1. k + 1 \in 1..Len(ss) /\ k + 1 \in 1..Len(tt) /\ (k + 1) - 1 = k
      BY <1>0, <2>1
    <3> QED
      BY <3>1, FlatAt
  <2>3. ss[k + 1] = tt[k + 1] /\ ss[k + 1] \in Seq(V) /\ ss[1] = tt[1] /\ ss[1] \in Seq(V)
    BY <1>0, <2>1
  <2>4. k # 0 => f[k] = g[k] /\ f[k] \in Seq(V)
    BY <2>1
  <2> QED
    BY <2>2, <2>3, <2>4
<1> HIDE DEF T
<1>3. \A k \in Nat : k \in T
  <2>1. T \in SUBSET Nat
    BY DEF T
  <2> QED
    BY <1>1, <1>2, <2>1, AllNat
<1> QED
  BY <1>3 DEF T

LEMMA FlattenIs ==
  ASSUME NEW V, NEW ss \in Seq(Seq(V)), NEW f, IsFlat(ss, f), Len(ss) # 0
  PROVE  FlattenSeq(ss) = f[Len(ss)] /\ f[Len(ss)] \in Seq(V)
<1> DEFINE g == CHOOSE h : IsFlat(ss, h)
<1>1. IsFlat(ss, g)
  <2>1. \E h : IsFlat(ss, h)
    OBVIOUS
  <2> QED
    BY <2>1
<1>2. FlattenSeq(ss) = g[Len(ss)]
  BY DEF FlattenSeq, IsFlat
<1> HIDE DEF g
<1>3. Len(ss) \in 1..Len(ss)
  OBVIOUS
<1> QED
  BY <1>1, <1>2, <1>3, FlatAgrees

\* FlattenSeq by appending.
LEMMA FlattenEmpty == FlattenSeq(<<>>) = <<>>
BY DEF FlattenSeq

LEMMA FlattenType ==
  ASSUME NEW V, NEW ss \in Seq(Seq(V))
  PROVE  FlattenSeq(ss) \in Seq(V)
<1>1. CASE Len(ss) = 0
  <2>1. ss = <<>>
    BY <1>1, EmptySeq
  <2> QED
    BY <2>1, FlattenEmpty, EmptySeq
<1>2. CASE Len(ss) # 0
  BY <1>2, FlatExists, FlattenIs
<1> QED
  BY <1>1, <1>2

LEMMA FlattenAppend ==
  ASSUME NEW V, NEW ss \in Seq(Seq(V)), NEW s \in Seq(V)
  PROVE  FlattenSeq(Append(ss, s)) = FlattenSeq(ss) \o s
<1> DEFINE tt == Append(ss, s)
<1>1. /\ tt \in Seq(Seq(V)) /\ Len(tt) = Len(ss) + 1 /\ Len(tt) # 0
      /\ tt[Len(tt)] = s /\ \A i \in 1..Len(ss) : tt[i] = ss[i]
  BY AppendProperties
<1> HIDE DEF tt
<1>2. PICK g : IsFlat(tt, g)
  BY <1>1, FlatExists
<1>3. FlattenSeq(tt) = g[Len(tt)]
  BY <1>1, <1>2, FlattenIs
<1>4. CASE Len(ss) = 0
  <2>1. ss = <<>>
    BY <1>4
  <2>2. g[1] = s
    BY <1>1, <1>2, <1>4, FlatAt
  <2> QED
    BY <1>1, <1>3, <1>4, <2>1, <2>2, FlattenEmpty, ConcatEmptySeq DEF tt
<1>5. CASE Len(ss) # 0
  <2>1. PICK f : IsFlat(ss, f)
    BY FlatExists
  <2>2. FlattenSeq(ss) = f[Len(ss)]
    BY <1>5, <2>1, FlattenIs
  <2>3. Len(ss) \in 1..Len(ss) /\ Len(ss) \in 0..Len(ss) /\ Len(ss) <= Len(tt)
    BY <1>1, <1>5, LenProperties
  <2>4. f[Len(ss)] = g[Len(ss)]
    <3>1. \A i \in 1..Len(ss) : ss[i] = tt[i]
      BY <1>1
    <3>2. \A i \in 1..Len(ss) : f[i] = g[i] /\ f[i] \in Seq(V)
      BY <1>1, <1>2, <2>1, <2>3, <3>1, FlatAgrees
    <3> QED
      BY <2>3, <3>2
  <2>5. g[Len(tt)] = g[Len(ss)] \o s
    <3>1. Len(tt) \in 1..Len(tt) /\ Len(tt) # 1 /\ Len(tt) - 1 = Len(ss)
      BY <1>1, <1>5, <2>3
    <3>2. g[Len(tt)] = g[Len(tt) - 1] \o tt[Len(tt)]
      BY <1>2, <3>1, FlatAt
    <3> QED
      BY <1>1, <3>1, <3>2
  <2> QED
    BY <1>3, <2>2, <2>4, <2>5 DEF tt
<1> QED
  BY <1>4, <1>5

LEMMA FlattenConcat ==
  ASSUME NEW V, NEW ss \in Seq(Seq(V)), NEW tt \in Seq(Seq(V))
  PROVE  FlattenSeq(ss \o tt) = FlattenSeq(ss) \o FlattenSeq(tt)
<1> DEFINE T == {r \in Seq(Seq(V)) : FlattenSeq(ss \o r) = FlattenSeq(ss) \o FlattenSeq(r)}
<1>1. <<>> \in T
  <2>1. ss \o <<>> = ss
    BY ConcatEmptySeq
  <2>2. FlattenSeq(ss) \o <<>> = FlattenSeq(ss)
    BY FlattenType, ConcatEmptySeq
  <2> QED
    BY <2>1, <2>2, FlattenEmpty, EmptySeq
<1>2. ASSUME NEW r \in T, NEW s \in Seq(V) PROVE Append(r, s) \in T
  <2>1. r \in Seq(Seq(V)) /\ FlattenSeq(ss \o r) = FlattenSeq(ss) \o FlattenSeq(r)
    OBVIOUS
  <2> HIDE DEF T
  <2>2. ss \o r \in Seq(Seq(V)) /\ Append(r, s) \in Seq(Seq(V))
    BY <2>1, ConcatProperties, AppendProperties
  <2>3. ss \o Append(r, s) = Append(ss \o r, s)
    <3>1. /\ Append(r, s) = r \o <<s>> /\ Append(ss \o r, s) = (ss \o r) \o <<s>>
      BY <2>1, <2>2, AppendIsConcat
    <3>2. <<s>> \in Seq(Seq(V))
      OBVIOUS
    <3> QED
      BY <2>1, <3>1, <3>2, ConcatAssociative
  <2>4. FlattenSeq(Append(ss \o r, s)) = FlattenSeq(ss \o r) \o s
    BY <2>2, FlattenAppend
  <2>5. FlattenSeq(Append(r, s)) = FlattenSeq(r) \o s
    BY <2>1, FlattenAppend
  <2>6. FlattenSeq(ss) \in Seq(V) /\ FlattenSeq(r) \in Seq(V)
    BY <2>1, FlattenType
  <2>7. (FlattenSeq(ss) \o FlattenSeq(r)) \o s = FlattenSeq(ss) \o (FlattenSeq(r) \o s)
    BY <2>6, ConcatAssociative
  <2> QED
    BY <2>1, <2>2, <2>3, <2>4, <2>5, <2>7 DEF T
<1>3. T \in SUBSET Seq(Seq(V))
  OBVIOUS
<1> HIDE DEF T
<1>4. tt \in T
  BY <1>1, <1>2, <1>3, AllSeq
<1> QED
  BY <1>4 DEF T

\* The values that f gives for the members of s, and, where these are
\* sequences, all of them in one.
Mapped(f, s) == [i \in DOMAIN s |-> f[s[i]]]

Joined(f, s) == FlattenSeq(Mapped(f, s))

IsMap(f, V, W) == f \in [V -> W]

LEMMA MapType ==
  ASSUME NEW V, NEW W, NEW f, IsMap(f, V, W), NEW s \in Seq(V)
  PROVE  /\ Mapped(f, s) \in Seq(W)
         /\ Len(Mapped(f, s)) = Len(s)
         /\ \A i \in 1..Len(s) : Mapped(f, s)[i] = f[s[i]]
<1>1. DOMAIN s = 1..Len(s) /\ Len(s) \in Nat /\ \A i \in DOMAIN s : s[i] \in V
  BY LenProperties, ElementOfSeq
<1> QED
  BY <1>1 DEF Mapped, IsMap

LEMMA JoinedType ==
  ASSUME NEW V, NEW U, NEW f, IsMap(f, V, Seq(U)), NEW s \in Seq(V)
  PROVE  Joined(f, s) \in Seq(U)
<1>1. Mapped(f, s) \in Seq(Seq(U))
  BY MapType
<1> QED
  BY <1>1, FlattenType DEF Joined

LEMMA JoinedEmpty ==
  ASSUME NEW f
  PROVE  Joined(f, <<>>) = <<>>
<1>1. Mapped(f, <<>>) = <<>>
  BY DEF Mapped
<1> QED
  BY <1>1, FlattenEmpty DEF Joined

LEMMA MapConcat ==
  ASSUME NEW V, NEW W, NEW f, IsMap(f, V, W), NEW s \in Seq(V), NEW t \in Seq(V)
  PROVE  Mapped(f, s \o t) = Mapped(f, s) \o Mapped(f, t)
<1> DEFINE r == s \o t
<1>1. /\ r \in Seq(V) /\ Len(r) = Len(s) + Len(t)
      /\ Len(s) \in Nat /\ Len(t) \in Nat
  BY ConcatProperties, LenProperties
<1>r. \A i \in 1..(Len(s) + Len(t)) : r[i] = IF i <= Len(s) THEN s[i] ELSE t[i - Len(s)]
  BY ConcatProperties
<1> HIDE DEF r
<1>2. /\ Mapped(f, s) \in Seq(W) /\ Mapped(f, t) \in Seq(W) /\ Mapped(f, r) \in Seq(W)
      /\ Len(Mapped(f, s)) = Len(s) /\ Len(Mapped(f, t)) = Len(t)
      /\ Len(Mapped(f, r)) = Len(s) + Len(t)
  BY <1>1, MapType
<1>3. /\ Mapped(f, s) \o Mapped(f, t) \in Seq(W)
      /\ Len(Mapped(f, s) \o Mapped(f, t)) = Len(s) + Len(t)
  <2>1. Mapped(f, s) \in Seq(W) /\ Mapped(f, t) \in Seq(W)
    BY <1>2
  <2>2. /\ Mapped(f, s) \o Mapped(f, t) \in Seq(W)
        /\ Len(Mapped(f, s) \o Mapped(f, t)) = Len(Mapped(f, s)) + Len(Mapped(f, t))
    BY <2>1, ConcatProperties
  <2> QED
    BY <1>2, <2>2
<1>4. ASSUME NEW i \in 1..(Len(s) + Len(t))
      PROVE  Mapped(f, r)[i] = (Mapped(f, s) \o Mapped(f, t))[i]
  <2>1. r[i] = IF i <= Len(s) THEN s[i] ELSE t[i - Len(s)]
    BY <1>r
  <2>2. (Mapped(f, s) \o Mapped(f, t))[i]
        = IF i <= Len(s) THEN Mapped(f, s)[i] ELSE Mapped(f, t)[i - Len(s)]
    BY <1>2, ConcatProperties
  <2>3. Mapped(f, r)[i] = f[r[i]]
    BY <1>1, MapType
  <2>4. i <= Len(s) => Mapped(f, s)[i] = f[s[i]]
    BY <1>1, MapType
  <2>5. ~(i <= Len(s)) => Mapped(f, t)[i - Len(s)] = f[t[i - Len(s)]]
    <3>1. ~(i <= Len(s)) => i - Len(s) \in 1..Len(t)
      BY <1>1
    <3> QED
      BY <3>1, MapType
  <2> QED
    BY <2>1, <2>2, <2>3, <2>4, <2>5
<1> QED
  BY <1>2, <1>3, <1>4, SeqEqual DEF r

LEMMA JoinedConcat ==
  ASSUME NEW V, NEW U, NEW f, IsMap(f, V, Seq(U)), NEW s \in Seq(V), NEW t \in Seq(V)
  PROVE  Joined(f, s \o t) = Joined(f, s) \o Joined(f, t)
<1>1. Mapped(f, s) \in Seq(Seq(U)) /\ Mapped(f, t) \in Seq(Seq(U))
  BY MapType
<1>2. FlattenSeq(Mapped(f, s) \o Mapped(f, t)) = Joined(f, s) \o Joined(f, t)
  BY <1>1, FlattenConcat DEF Joined
<1>3. Mapped(f, s \o t) = Mapped(f, s) \o Mapped(f, t)
  BY MapConcat
<1> QED
  BY <1>2, <1>3 DEF Joined

LEMMA JoinedAppend ==
  ASSUME NEW V, NEW U, NEW f, IsMap(f, V, Seq(U)), NEW s \in Seq(V), NEW e \in V
  PROVE  Joined(f, Append(s, e)) = Joined(f, s) \o f[e]
<1>1. Append(s, e) = s \o <<e>> /\ <<e>> \in Seq(V)
  BY AppendIsConcat
<1> DEFINE t == <<e>>
<1>2. Joined(f, Append(s, e)) = Joined(f, s) \o Joined(f, <<e>>)
  <2>1. t \in Seq(V) /\ Append(s, e) = s \o t
    BY <1>1
  <2> HIDE DEF t
  <2>2. Joined(f, s \o t) = Joined(f, s) \o Joined(f, t)
    BY <2>1, JoinedConcat
  <2> QED
    BY <2>1, <2>2 DEF t
<1>3. Joined(f, <<e>>) = f[e]
  <2>1. Mapped(f, <<e>>) = Append(<<>>, f[e]) /\ f[e] \in Seq(U)
    BY DEF Mapped, IsMap
  <2>2. FlattenSeq(Append(<<>>, f[e])) = FlattenSeq(<<>>) \o f[e]
    BY <2>1, FlattenAppend, EmptySeq
  <2>3. <<>> \o f[e] = f[e]
    BY <2>1, ConcatEmptySeq
  <2> QED
    BY <2>1, <2>2, <2>3, FlattenEmpty DEF Joined
<1> QED
  BY <1>2, <1>3

LEMMA JoinedOne ==
  ASSUME NEW V, NEW U, NEW f, IsMap(f, V, Seq(U)), NEW e \in V
  PROVE  Joined(f, <<e>>) = f[e] /\ f[e] \in Seq(U)
<1>1. Mapped(f, <<e>>) = Append(<<>>, f[e]) /\ f[e] \in Seq(U)
  BY DEF Mapped, IsMap
<1>2. FlattenSeq(Append(<<>>, f[e])) = FlattenSeq(<<>>) \o f[e]
  BY <1>1, FlattenAppend, EmptySeq
<1>3. <<>> \o f[e] = f[e]
  BY <1>1, ConcatEmptySeq
<1> QED
  BY <1>1, <1>2, <1>3, FlattenEmpty DEF Joined

\* Without keeps a member or drops it.
Keeping(V, out) == [v \in V |-> IF v \in out THEN <<>> ELSE <<v>>]

LEMMA KeepingMaps ==
  ASSUME NEW V, NEW out
  PROVE  IsMap(Keeping(V, out), V, Seq(V \ out)) /\ IsMap(Keeping(V, out), V, Seq(V))
BY DEF Keeping, IsMap

LEMMA WithoutJoins ==
  ASSUME NEW V, NEW out, NEW s \in Seq(V)
  PROVE  Without(s, out) = Joined(Keeping(V, out), s)
<1>1. \A i \in DOMAIN s : s[i] \in V
  BY LenProperties, ElementOfSeq
<1>2. Mapped(Keeping(V, out), s) = [i \in DOMAIN s |-> IF s[i] \in out THEN <<>> ELSE <<s[i]>>]
  BY <1>1 DEF Mapped, Keeping
<1> QED
  BY <1>2 DEF Without, Joined

LEMMA WithoutType ==
  ASSUME NEW V, NEW out, NEW s \in Seq(V)
  PROVE  Without(s, out) \in Seq(V \ out) /\ Without(s, out) \in Seq(V)
<1>1. Joined(Keeping(V, out), s) \in Seq(V \ out)
  BY KeepingMaps, JoinedType
<1>2. Joined(Keeping(V, out), s) \in Seq(V)
  BY KeepingMaps, JoinedType
<1> QED
  BY <1>1, <1>2, WithoutJoins

LEMMA WithoutAppend ==
  ASSUME NEW V, NEW out, NEW s \in Seq(V), NEW e \in V
  PROVE  Without(Append(s, e), out)
         = Without(s, out) \o (IF e \in out THEN <<>> ELSE <<e>>)
<1>1. Append(s, e) \in Seq(V)
  BY AppendProperties
<1>2. Joined(Keeping(V, out), Append(s, e))
      = Joined(Keeping(V, out), s) \o Keeping(V, out)[e]
  <2>1. IsMap(Keeping(V, out), V, Seq(V))
    BY KeepingMaps
  <2> QED
    BY <2>1, JoinedAppend
<1>3. Keeping(V, out)[e] = IF e \in out THEN <<>> ELSE <<e>>
  BY DEF Keeping
<1>4. Without(Append(s, e), out) = Joined(Keeping(V, out), Append(s, e))
  BY <1>1, WithoutJoins
<1>5. Without(s, out) = Joined(Keeping(V, out), s)
  BY WithoutJoins
<1> QED
  BY <1>2, <1>3, <1>4, <1>5, Zenon

LEMMA WithoutNone == \A out : Without(<<>>, out) = <<>>
<1> TAKE out
<1>1. [i \in DOMAIN <<>> |-> IF <<>>[i] \in out THEN <<>> ELSE <<<<>>[i]>>] = <<>>
  OBVIOUS
<1> QED
  BY <1>1, FlattenEmpty DEF Without

\* Nothing is left only of a sequence of members of out.
LEMMA WithoutAll ==
  ASSUME NEW V, NEW out, NEW s \in Seq(V)
  PROVE  Without(s, out) = <<>> <=> \A i \in 1..Len(s) : s[i] \in out
<1> DEFINE T == {r \in Seq(V) : Without(r, out) = <<>> <=> \A i \in 1..Len(r) : r[i] \in out}
<1>1. <<>> \in T
  BY WithoutNone, EmptySeq
<1>2. ASSUME NEW r \in T, NEW e \in V PROVE Append(r, e) \in T
  <2>1. /\ r \in Seq(V)
        /\ Without(r, out) = <<>> <=> \A i \in 1..Len(r) : r[i] \in out
    OBVIOUS
  <2> HIDE DEF T
  <2>2. /\ Append(r, e) \in Seq(V) /\ Len(Append(r, e)) = Len(r) + 1 /\ Len(r) \in Nat
        /\ \A i \in 1..Len(r) : Append(r, e)[i] = r[i]
        /\ Append(r, e)[Len(r) + 1] = e
    BY <2>1, AppendProperties, LenProperties
  <2> DEFINE k == IF e \in out THEN <<>> ELSE <<e>>
  <2>3. k \in Seq(V) /\ (k = <<>> <=> e \in out)
    OBVIOUS
  <2> HIDE DEF k
  <2>4. Without(r, out) \in Seq(V)
    BY <2>1, WithoutType
  <2>5. Without(r, out) \o k = <<>> <=> Without(r, out) = <<>> /\ k = <<>>
    BY <2>3, <2>4, ConcatEqualIffEmpty
  <2>6. Without(Append(r, e), out) = Without(r, out) \o k
    BY <2>1, WithoutAppend DEF k
  <2>7. (\A i \in 1..Len(Append(r, e)) : Append(r, e)[i] \in out)
        <=> (\A i \in 1..Len(r) : r[i] \in out) /\ e \in out
    <3>1. 1..Len(Append(r, e)) = 1..Len(r) \cup {Len(r) + 1}
      BY <2>2
    <3> QED
      BY <2>2, <3>1
  <2> QED
    BY <2>1, <2>2, <2>3, <2>5, <2>6, <2>7 DEF T
<1>3. T \in SUBSET Seq(V)
  OBVIOUS
<1> HIDE DEF T
<1>4. s \in T
  BY <1>1, <1>2, <1>3, AllSeq
<1> QED
  BY <1>4 DEF T

\* What gives nothing may be left out.
LEMMA JoinedWithout ==
  ASSUME NEW V, NEW U, NEW f, IsMap(f, V, Seq(U)), NEW out,
         \A v \in V : v \in out => f[v] = <<>>,
         NEW s \in Seq(V)
  PROVE  Joined(f, Without(s, out)) = Joined(f, s)
<1>c. \A y, z \in Seq(V) : Joined(f, y \o z) = Joined(f, y) \o Joined(f, z)
  BY JoinedConcat
<1> DEFINE T == {r \in Seq(V) : Joined(f, Without(r, out)) = Joined(f, r)}
<1>1. <<>> \in T
  BY WithoutNone, EmptySeq
<1>2. ASSUME NEW r \in T, NEW e \in V PROVE Append(r, e) \in T
  <2>1. r \in Seq(V) /\ Joined(f, Without(r, out)) = Joined(f, r)
    OBVIOUS
  <2> HIDE DEF T
  <2>2. Append(r, e) \in Seq(V) /\ Without(r, out) \in Seq(V)
    BY <2>1, AppendProperties, WithoutType
  <2> DEFINE k == IF e \in out THEN <<>> ELSE <<e>>
  <2>3. k \in Seq(V) /\ Joined(f, k) = f[e]
    BY JoinedOne, JoinedEmpty
  <2> HIDE DEF k
  <2>4. Without(Append(r, e), out) = Without(r, out) \o k
    BY <2>1, WithoutAppend DEF k
  <2>5. Joined(f, Without(r, out) \o k) = Joined(f, Without(r, out)) \o Joined(f, k)
    <3> DEFINE w == Without(r, out)
    <3>1. w \in Seq(V) /\ k \in Seq(V) /\ IsMap(f, V, Seq(U))
      BY <2>2, <2>3
    <3> HIDE DEF w
    <3>2. Joined(f, w \o k) = Joined(f, w) \o Joined(f, k)
      BY <1>c, <3>1
    <3> QED
      BY <3>2 DEF w
  <2>6. Joined(f, Append(r, e)) = Joined(f, r) \o f[e]
    BY <2>1, JoinedAppend
  <2> QED
    BY <2>1, <2>2, <2>3, <2>4, <2>5, <2>6 DEF T
<1>3. T \in SUBSET Seq(V)
  OBVIOUS
<1> HIDE DEF T
<1>4. s \in T
  BY <1>1, <1>2, <1>3, AllSeq
<1> QED
  BY <1>4 DEF T

\* Occurrences add up.
LEMMA OccurrencesConcat ==
  ASSUME NEW V, NEW s \in Seq(V), NEW t \in Seq(V), NEW x
  PROVE  /\ Occurrences(x, s \o t) = Occurrences(x, s) + Occurrences(x, t)
         /\ Occurrences(x, s) \in Nat
<1> DEFINE S == {i \in 1..Len(s) : s[i] = x}
           T == {i \in 1..Len(t) : t[i] = x}
           R == {j \in (Len(s) + 1)..(Len(s) + Len(t)) : t[j - Len(s)] = x}
           B == {i \in 1..(Len(s) + Len(t)) : (s \o t)[i] = x}
<1>1. /\ Len(s) \in Nat /\ Len(t) \in Nat
      /\ DOMAIN s = 1..Len(s) /\ DOMAIN t = 1..Len(t)
      /\ DOMAIN (s \o t) = 1..(Len(s) + Len(t))
      /\ \A i \in 1..(Len(s) + Len(t)) :
           (s \o t)[i] = IF i <= Len(s) THEN s[i] ELSE t[i - Len(s)]
  BY LenProperties, ConcatProperties
<1>2. /\ Occurrences(x, s) = Cardinality(S) /\ Occurrences(x, t) = Cardinality(T)
      /\ Occurrences(x, s \o t) = Cardinality(B)
  BY <1>1 DEF Occurrences
<1>3. B = S \cup R /\ S \cap R = {}
  BY <1>1
<1>4. /\ IsFiniteSet(S) /\ IsFiniteSet(T) /\ IsFiniteSet(R)
  <2>1. IsFiniteSet(1..Len(s)) /\ IsFiniteSet(1..Len(t))
        /\ IsFiniteSet((Len(s) + 1)..(Len(s) + Len(t)))
    BY <1>1, FS_Interval
  <2>2. /\ S \in SUBSET (1..Len(s)) /\ T \in SUBSET (1..Len(t))
        /\ R \in SUBSET ((Len(s) + 1)..(Len(s) + Len(t)))
    OBVIOUS
  <2> HIDE DEF S, T, R
  <2> QED
    BY <2>1, <2>2, FS_Subset
<1>5. Cardinality(R) = Cardinality(T)
  <2> DEFINE h == [i \in T |-> i + Len(s)]
  <2>1. h \in Bijection(T, R)
    <3>1. h \in [T -> R]
      BY <1>1
    <3>2. \A i, j \in T : h[i] = h[j] => i = j
      BY <1>1
    <3>3. \A j \in R : j - Len(s) \in T /\ h[j - Len(s)] = j
      BY <1>1
    <3> HIDE DEF h, T, R
    <3> QED
      BY <3>1, <3>2, <3>3 DEF Bijection, Injection, Surjection, IsInjective
  <2>2. ExistsBijection(T, R)
    BY <2>1 DEF ExistsBijection
  <2> HIDE DEF T, R
  <2> QED
    BY <1>4, <2>2, FS_Bijection
<1> HIDE DEF S, T, R, B
<1>6. Cardinality(S \cup R) = Cardinality(S) + Cardinality(R) - Cardinality(S \cap R)
  BY <1>4, FS_Union
<1>7. Cardinality(S \cap R) = 0
  BY <1>3, FS_EmptySet
<1>8. Cardinality(S) \in Nat /\ Cardinality(R) \in Nat
  BY <1>4, FS_CardinalityType
<1> QED
  BY <1>2, <1>3, <1>5, <1>6, <1>7, <1>8
-----------------------------------------------------------------------------
(* The matches of the diff: the longest blocks, found window by window, rise on
   both sides *)

\* A common block of a[la..ha] and b[lb..hb].
IsCommon(a, b, la, ha, lb, hb, m) ==
  /\ m.i \in la..ha /\ m.j \in lb..hb /\ m.k \in 1..Len(a)
  /\ m.i + m.k - 1 <= ha /\ m.j + m.k - 1 <= hb
  /\ \A n \in 0..(m.k - 1) : a[m.i + n] = b[m.j + n]

\* The longest one is found, if there is one.
LEMMA BlockLongest ==
  ASSUME NEW a, NEW b, Len(a) \in Nat,
         NEW la \in Nat, NEW ha \in Nat, NEW lb \in Nat, NEW hb \in Nat
  PROVE  LET m == Block(a, b, la, ha, lb, hb)
         IN  \/ /\ m.k = 0
                /\ \A o \in [i : la..ha, j : lb..hb, k : 1..Len(a)] :
                     ~IsCommon(a, b, la, ha, lb, hb, o)
             \/ /\ IsCommon(a, b, la, ha, lb, hb, m)
                /\ \A o \in [i : la..ha, j : lb..hb, k : 1..Len(a)] :
                     IsCommon(a, b, la, ha, lb, hb, o) => o.k <= m.k
<1> DEFINE Box == [i : la..ha, j : lb..hb, k : 1..Len(a)]
           Fits(m) == /\ m.i + m.k - 1 <= ha /\ m.j + m.k - 1 <= hb
                      /\ \A n \in 0..(m.k - 1) : a[m.i + n] = b[m.j + n]
           F == {m \in Box : Fits(m)}
           Best(m) == \A o \in F : \/ m.k > o.k
                                   \/ m.k = o.k /\ (m.i < o.i \/ (m.i = o.i /\ m.j <= o.j))
<1>1. Block(a, b, la, ha, lb, hb)
      = IF F = {} THEN [i |-> la, j |-> lb, k |-> 0] ELSE CHOOSE m \in F : Best(m)
  BY DEF Block
<1>2. \A m \in Box : m \in F <=> IsCommon(a, b, la, ha, lb, hb, m)
  BY DEF IsCommon
<1>3. \A m \in F : m.i \in Nat /\ m.j \in Nat /\ m.k \in Nat /\ m.k <= Len(a)
  OBVIOUS
<1>4. CASE F # {}
  <2> DEFINE K == {m.k : m \in F}
  <2>1. PICK k \in K : \A x \in K : x <= k
    <3>1. K \in SUBSET Nat /\ K # {} /\ \A x \in K : x <= Len(a)
      BY <1>3, <1>4
    <3> HIDE DEF K
    <3> QED
      BY <3>1, GreatestOf
  <2> DEFINE I == {m.i : m \in {o \in F : o.k = k}}
  <2>2. PICK i \in I : \A x \in I : i <= x
    <3>1. I \in SUBSET Nat /\ I # {}
      <4> HIDE DEF F
      <4> QED
        BY <1>3, <2>1
    <3> HIDE DEF I
    <3> QED
      BY <3>1, LeastOf
  <2> DEFINE J == {m.j : m \in {o \in F : o.k = k /\ o.i = i}}
  <2>3. PICK j \in J : \A x \in J : j <= x
    <3>1. J \in SUBSET Nat /\ J # {}
      <4> HIDE DEF F
      <4> QED
        BY <1>3, <2>2
    <3> HIDE DEF J
    <3> QED
      BY <3>1, LeastOf
  <2> HIDE DEF F
  <2>4. PICK m \in F : m.k = k /\ m.i = i /\ m.j = j
    BY <2>3
  <2>5. ASSUME NEW o \in F
        PROVE  \/ m.k > o.k
               \/ m.k = o.k /\ (m.i < o.i \/ (m.i = o.i /\ m.j <= o.j))
    <3>1. o.k <= k
      BY <2>1
    <3>2. o.k = k => i <= o.i
      BY <2>2
    <3>3. o.k = k /\ o.i = i => j <= o.j
      BY <2>3
    <3> QED
      BY <1>3, <2>4, <3>1, <3>2, <3>3
  <2>6. Best(m)
    BY <2>5
  <2> DEFINE c == CHOOSE x \in F : Best(x)
  <2>7. c \in F /\ Best(c)
    <3> HIDE DEF Best
    <3> QED
      BY <2>4, <2>6
  <2>8. Block(a, b, la, ha, lb, hb) = c
    BY <1>1, <1>4
  <2> HIDE DEF c
  <2>9. \A o \in F : o.k <= c.k
    BY <1>3, <2>7
  <2>10. c \in Box /\ \A o \in Box : o \in F <=> IsCommon(a, b, la, ha, lb, hb, o)
    BY <1>2, <2>7 DEF F
  <2> HIDE DEF Box
  <2> QED
    BY <2>7, <2>8, <2>9, <2>10 DEF Box
<1>5. CASE F = {}
  <2>1. Block(a, b, la, ha, lb, hb).k = 0
    BY <1>1, <1>5
  <2>2. \A o \in Box : ~IsCommon(a, b, la, ha, lb, hb, o)
    BY <1>2, <1>5
  <2> QED
    BY <2>1, <2>2
<1> QED
  BY <1>4, <1>5

\* The recursion of Matched, in parts.
Windows(a, b) == [la : 1..(Len(a) + 1), ha : 0..Len(a),
                  lb : 1..(Len(b) + 1), hb : 0..Len(b)]

Whole(a, b) == [la |-> 1, ha |-> Len(a), lb |-> 1, hb |-> Len(b)]

BlockOf(a, b, w) == Block(a, b, w.la, w.ha, w.lb, w.hb)

LeftOf(w, m) == [w EXCEPT !.ha = m.i - 1, !.hb = m.j - 1]

RightOf(w, m) == [w EXCEPT !.la = m.i + m.k, !.lb = m.j + m.k]

Diagonal(m) == [n \in 1..m.k |-> <<m.i + n - 1, m.j + n - 1>>]

Parts(a, b, g, w) ==
  IF BlockOf(a, b, w).k = 0 THEN <<>>
  ELSE g[LeftOf(w, BlockOf(a, b, w))] \o Diagonal(BlockOf(a, b, w))
       \o g[RightOf(w, BlockOf(a, b, w))]

Size(w) == w.ha - w.la + 1

IsMatch(a, b, M) == M = [w \in Windows(a, b) |-> Parts(a, b, M, w)]

LEMMA WindowType ==
  ASSUME NEW V, NEW a \in Seq(V), NEW b \in Seq(V), NEW w \in Windows(a, b)
  PROVE  /\ Len(a) \in Nat /\ Len(b) \in Nat
         /\ w.la \in Nat /\ w.ha \in Nat /\ w.lb \in Nat /\ w.hb \in Nat
         /\ 1 <= w.la /\ w.ha <= Len(a) /\ 1 <= w.lb /\ w.hb <= Len(b)
         /\ w.la <= Len(a) + 1 /\ w.lb <= Len(b) + 1
         /\ Size(w) \in Int /\ Size(w) = w.ha - w.la + 1
<1>1. Len(a) \in Nat /\ Len(b) \in Nat
  BY LenProperties
<1> QED
  BY <1>1 DEF Windows, Size

LEMMA BlockInWindow ==
  ASSUME NEW V, NEW a \in Seq(V), NEW b \in Seq(V), NEW w \in Windows(a, b),
         NEW m, m = BlockOf(a, b, w), m.k # 0
  PROVE  /\ m.i \in Nat /\ m.j \in Nat /\ m.k \in Nat /\ 1 <= m.k
         /\ w.la <= m.i /\ m.i + m.k - 1 <= w.ha
         /\ w.lb <= m.j /\ m.j + m.k - 1 <= w.hb
         /\ \A n \in 0..(m.k - 1) : a[m.i + n] = b[m.j + n]
<1>1. /\ Len(a) \in Nat
      /\ w.la \in Nat /\ w.ha \in Nat /\ w.lb \in Nat /\ w.hb \in Nat
  BY WindowType
<1> DEFINE la == w.la  ha == w.ha  lb == w.lb  hb == w.hb
<1>2. /\ m = Block(a, b, la, ha, lb, hb) /\ m.k # 0 /\ Len(a) \in Nat
      /\ la \in Nat /\ ha \in Nat /\ lb \in Nat /\ hb \in Nat
  BY <1>1 DEF BlockOf
<1>3. IsCommon(a, b, la, ha, lb, hb, m)
  <2> HIDE DEF la, ha, lb, hb
  <2> QED
    BY <1>2, BlockLongest
<1>4. m.i \in la..ha /\ m.j \in lb..hb /\ m.k \in 1..Len(a)
  BY <1>3 DEF IsCommon
<1>5. /\ m.i + m.k - 1 <= ha /\ m.j + m.k - 1 <= hb
      /\ \A n \in 0..(m.k - 1) : a[m.i + n] = b[m.j + n]
  BY <1>3 DEF IsCommon
<1> HIDE DEF la, ha, lb, hb
<1>6. m.i \in Nat /\ m.j \in Nat /\ m.k \in Nat /\ 1 <= m.k /\ la <= m.i /\ lb <= m.j
  BY <1>2, <1>4
<1> QED
  BY <1>5, <1>6 DEF la, ha, lb, hb

LEMMA BlockMatches ==
  ASSUME NEW V, NEW a \in Seq(V), NEW b \in Seq(V), NEW w \in Windows(a, b),
         NEW m, m = BlockOf(a, b, w), m.k # 0, NEW n \in 0..(m.k - 1)
  PROVE  a[m.i + n] = b[m.j + n]
BY BlockInWindow

LEMMA Edited ==
  ASSUME NEW A, NEW H, NEW B, NEW K, NEW w \in [la : A, ha : H, lb : B, hb : K],
         NEW x, NEW y
  PROVE  /\ x \in H /\ y \in K =>
              /\ [w EXCEPT !.ha = x, !.hb = y] \in [la : A, ha : H, lb : B, hb : K]
              /\ [w EXCEPT !.ha = x, !.hb = y].la = w.la
              /\ [w EXCEPT !.ha = x, !.hb = y].ha = x
              /\ [w EXCEPT !.ha = x, !.hb = y].lb = w.lb
              /\ [w EXCEPT !.ha = x, !.hb = y].hb = y
         /\ x \in A /\ y \in B =>
              /\ [w EXCEPT !.la = x, !.lb = y] \in [la : A, ha : H, lb : B, hb : K]
              /\ [w EXCEPT !.la = x, !.lb = y].la = x
              /\ [w EXCEPT !.la = x, !.lb = y].ha = w.ha
              /\ [w EXCEPT !.la = x, !.lb = y].lb = y
              /\ [w EXCEPT !.la = x, !.lb = y].hb = w.hb
OBVIOUS

LEMMA Halves ==
  ASSUME NEW V, NEW a \in Seq(V), NEW b \in Seq(V), NEW w \in Windows(a, b),
         NEW m, m = BlockOf(a, b, w), m.k # 0
  PROVE  /\ m.i - 1 \in 0..Len(a) /\ m.j - 1 \in 0..Len(b)
         /\ m.i + m.k \in 1..(Len(a) + 1) /\ m.j + m.k \in 1..(Len(b) + 1)
         /\ (m.i - 1) - w.la + 1 < w.ha - w.la + 1
         /\ w.ha - (m.i + m.k) + 1 < w.ha - w.la + 1
<1>1. PICK i \in Nat, j \in Nat, k \in Nat : i = m.i /\ j = m.j /\ k = m.k
  BY BlockInWindow
<1>2. PICK la \in Nat, ha \in Nat, lb \in Nat, hb \in Nat :
        la = w.la /\ ha = w.ha /\ lb = w.lb /\ hb = w.hb
  BY WindowType
<1>3. 1 <= k /\ la <= i /\ i + k - 1 <= ha /\ lb <= j /\ j + k - 1 <= hb
  BY <1>1, <1>2, BlockInWindow
<1>4. PICK p \in Nat, q \in Nat : p = Len(a) /\ q = Len(b)
  BY WindowType
<1>5. 1 <= la /\ 1 <= lb /\ ha <= p /\ hb <= q
  BY <1>2, <1>4, WindowType
<1>6. /\ i - 1 \in 0..p /\ j - 1 \in 0..q
      /\ i + k \in 1..(p + 1) /\ j + k \in 1..(q + 1)
      /\ (i - 1) - la + 1 < ha - la + 1 /\ ha - (i + k) + 1 < ha - la + 1
  BY ONLY <1>3, <1>5, i \in Nat, j \in Nat, k \in Nat, la \in Nat, ha \in Nat,
     lb \in Nat, hb \in Nat, p \in Nat, q \in Nat
<1> QED
  BY <1>1, <1>2, <1>4, <1>6

LEMMA LeftWindow ==
  ASSUME NEW V, NEW a \in Seq(V), NEW b \in Seq(V), NEW w \in Windows(a, b),
         NEW m, m = BlockOf(a, b, w), m.k # 0
  PROVE  /\ LeftOf(w, m) \in Windows(a, b)
         /\ LeftOf(w, m).la = w.la /\ LeftOf(w, m).ha = m.i - 1
         /\ LeftOf(w, m).lb = w.lb /\ LeftOf(w, m).hb = m.j - 1
         /\ Size(LeftOf(w, m)) < Size(w)
<1>1. /\ m.i - 1 \in 0..Len(a) /\ m.j - 1 \in 0..Len(b)
      /\ (m.i - 1) - w.la + 1 < w.ha - w.la + 1
  BY Halves
<1>2. /\ LeftOf(w, m) \in Windows(a, b)
      /\ LeftOf(w, m).la = w.la /\ LeftOf(w, m).ha = m.i - 1
      /\ LeftOf(w, m).lb = w.lb /\ LeftOf(w, m).hb = m.j - 1
  BY <1>1, Edited DEF LeftOf, Windows
<1> QED
  BY <1>1, <1>2 DEF Size

LEMMA RightWindow ==
  ASSUME NEW V, NEW a \in Seq(V), NEW b \in Seq(V), NEW w \in Windows(a, b),
         NEW m, m = BlockOf(a, b, w), m.k # 0
  PROVE  /\ RightOf(w, m) \in Windows(a, b)
         /\ RightOf(w, m).la = m.i + m.k /\ RightOf(w, m).ha = w.ha
         /\ RightOf(w, m).lb = m.j + m.k /\ RightOf(w, m).hb = w.hb
         /\ Size(RightOf(w, m)) < Size(w)
<1>1. /\ m.i + m.k \in 1..(Len(a) + 1) /\ m.j + m.k \in 1..(Len(b) + 1)
      /\ w.ha - (m.i + m.k) + 1 < w.ha - w.la + 1
  BY Halves
<1>2. /\ RightOf(w, m) \in Windows(a, b)
      /\ RightOf(w, m).la = m.i + m.k /\ RightOf(w, m).ha = w.ha
      /\ RightOf(w, m).lb = m.j + m.k /\ RightOf(w, m).hb = w.hb
  BY <1>1, Edited DEF RightOf, Windows
<1> QED
  BY <1>1, <1>2 DEF Size

LEMMA DiagonalType ==
  ASSUME NEW m, m.i \in Nat, m.j \in Nat, m.k \in Nat, 1 <= m.i, 1 <= m.j
  PROVE  /\ Diagonal(m) \in Seq(Nat \X Nat) /\ Len(Diagonal(m)) = m.k
         /\ \A n \in 1..m.k : Diagonal(m)[n] = <<m.i + n - 1, m.j + n - 1>>
<1> DEFINE D(n) == <<m.i + n - 1, m.j + n - 1>>
<1>1. \A n \in 1..m.k : D(n) \in Nat \X Nat
  <2> TAKE n \in 1..m.k
  <2>1. m.i + n - 1 \in Nat /\ m.j + n - 1 \in Nat
    OBVIOUS
  <2> QED
    BY <2>1
<1>2. Diagonal(m) = [n \in 1..m.k |-> D(n)]
  BY DEF Diagonal
<1> HIDE DEF D
<1>3. /\ Diagonal(m) \in Seq(Nat \X Nat) /\ Len(Diagonal(m)) = m.k
      /\ \A n \in 1..m.k : Diagonal(m)[n] = D(n)
  BY <1>1, <1>2
<1> QED
  BY <1>3 DEF D

LEMMA PartsType ==
  ASSUME NEW V, NEW a \in Seq(V), NEW b \in Seq(V), NEW w \in Windows(a, b),
         NEW g \in [Windows(a, b) -> Seq(Nat \X Nat)]
  PROVE  Parts(a, b, g, w) \in Seq(Nat \X Nat)
<1> DEFINE m == BlockOf(a, b, w)
<1>1. CASE m.k = 0
  BY <1>1 DEF Parts
<1>2. CASE m.k # 0
  <2>0. /\ m.i \in Nat /\ m.j \in Nat /\ m.k \in Nat /\ w.la <= m.i /\ w.lb <= m.j
    BY <1>2, BlockInWindow
  <2>w. w.la \in Nat /\ w.lb \in Nat /\ 1 <= w.la /\ 1 <= w.lb
    BY WindowType
  <2>1. /\ m.i \in Nat /\ m.j \in Nat /\ m.k \in Nat /\ 1 <= m.i /\ 1 <= m.j
    BY <2>0, <2>w
  <2>2. g[LeftOf(w, m)] \in Seq(Nat \X Nat) /\ g[RightOf(w, m)] \in Seq(Nat \X Nat)
    BY <1>2, LeftWindow, RightWindow
  <2> HIDE DEF m
  <2>3. Diagonal(m) \in Seq(Nat \X Nat)
    BY <2>1, DiagonalType
  <2>4. g[LeftOf(w, m)] \o Diagonal(m) \o g[RightOf(w, m)] \in Seq(Nat \X Nat)
    BY <2>2, <2>3, ConcatProperties
  <2> QED
    BY <1>2, <2>4 DEF Parts, m
<1> QED
  BY <1>1, <1>2

\* Parts looks at smaller windows only.
LEMMA PartsAgree ==
  ASSUME NEW V, NEW a \in Seq(V), NEW b \in Seq(V), NEW w \in Windows(a, b),
         NEW g, NEW h,
         \A v \in Windows(a, b) : Size(v) < Size(w) => g[v] = h[v]
  PROVE  Parts(a, b, g, w) = Parts(a, b, h, w)
<1> DEFINE m == BlockOf(a, b, w)
<1>1. CASE m.k = 0
  BY <1>1 DEF Parts
<1>2. CASE m.k # 0
  <2>1. /\ LeftOf(w, m) \in Windows(a, b) /\ Size(LeftOf(w, m)) < Size(w)
        /\ RightOf(w, m) \in Windows(a, b) /\ Size(RightOf(w, m)) < Size(w)
    BY <1>2, LeftWindow, RightWindow
  <2> HIDE DEF m
  <2>2. g[LeftOf(w, m)] = h[LeftOf(w, m)] /\ g[RightOf(w, m)] = h[RightOf(w, m)]
    BY <2>1
  <2> QED
    BY <2>2 DEF Parts, m
<1> QED
  BY <1>1, <1>2

LEMMA NoRoom ==
  ASSUME NEW V, NEW a \in Seq(V), NEW b \in Seq(V), NEW w \in Windows(a, b),
         Size(w) <= 0
  PROVE  BlockOf(a, b, w).k = 0
<1> SUFFICES ASSUME BlockOf(a, b, w).k # 0 PROVE FALSE
  OBVIOUS
<1> DEFINE m == BlockOf(a, b, w)
<1>1. /\ m.i \in Nat /\ m.k \in Nat /\ 1 <= m.k /\ w.la <= m.i /\ m.i + m.k - 1 <= w.ha
  BY BlockInWindow
<1>2. w.la \in Nat /\ w.ha \in Nat /\ w.ha - w.la + 1 <= 0
  BY WindowType
<1> HIDE DEF m
<1>3. PICK i \in Nat, k \in Nat, la \in Nat, ha \in Nat :
        1 <= k /\ la <= i /\ i + k - 1 <= ha /\ ha - la + 1 <= 0
  BY <1>1, <1>2
<1> QED
  BY <1>3

LEMMA MatchExists ==
  ASSUME NEW V, NEW a \in Seq(V), NEW b \in Seq(V)
  PROVE  \E M \in [Windows(a, b) -> Seq(Nat \X Nat)] : IsMatch(a, b, M)
<1> DEFINE F == [Windows(a, b) -> Seq(Nat \X Nat)]
           Good(g, n) == \A w \in Windows(a, b) : Size(w) <= n => g[w] = Parts(a, b, g, w)
           T == {n \in Nat : \E g \in F : Good(g, n)}
<1>0. Len(a) \in Nat /\ Len(b) \in Nat
  BY LenProperties
<1>1. 0 \in T
  <2> DEFINE g == [w \in Windows(a, b) |-> <<>>]
  <2>1. g \in F
    OBVIOUS
  <2>2. Good(g, 0)
    <3> TAKE w \in Windows(a, b)
    <3> HAVE Size(w) <= 0
    <3>1. BlockOf(a, b, w).k = 0
      BY NoRoom
    <3> QED
      BY <3>1 DEF Parts
  <2> HIDE DEF g, F, Good
  <2> QED
    BY <2>1, <2>2
<1>2. ASSUME NEW n \in T PROVE n + 1 \in T
  <2>1. PICK g \in F : Good(g, n)
    OBVIOUS
  <2> DEFINE h == [w \in Windows(a, b) |-> IF Size(w) <= n THEN g[w] ELSE Parts(a, b, g, w)]
  <2>2. h \in F
    BY PartsType
  <2>3. ASSUME NEW w \in Windows(a, b), Size(w) <= n + 1
        PROVE  h[w] = Parts(a, b, h, w)
    <3>1. \A v \in Windows(a, b) : Size(v) < Size(w) => g[v] = h[v]
      <4> TAKE v \in Windows(a, b)
      <4> HAVE Size(v) < Size(w)
      <4>1. Size(v) <= n
        BY <2>3, WindowType
      <4> QED
        BY <4>1
    <3>2. Parts(a, b, g, w) = Parts(a, b, h, w)
      <4> HIDE DEF h, F, T
      <4> QED
        BY <3>1, PartsAgree
    <3>3. h[w] = Parts(a, b, g, w)
      BY <2>1
    <3> QED
      BY <3>2, <3>3
  <2> HIDE DEF h
  <2>4. Good(h, n + 1)
    BY <2>3
  <2> HIDE DEF F, Good
  <2> QED
    BY <2>2, <2>4
<1>3. T \in SUBSET Nat
  OBVIOUS
<1> HIDE DEF T
<1>4. Len(a) \in T
  BY <1>0, <1>1, <1>2, <1>3, AllNat
<1>5. PICK g \in F : Good(g, Len(a))
  BY <1>4 DEF T
<1>6. \A w \in Windows(a, b) : g[w] = Parts(a, b, g, w)
  <2> TAKE w \in Windows(a, b)
  <2>1. Size(w) <= Len(a)
    <3>1. /\ Len(a) \in Nat /\ w.la \in Nat /\ w.ha \in Nat
          /\ 1 <= w.la /\ w.ha <= Len(a) /\ Size(w) = w.ha - w.la + 1
      BY WindowType
    <3> HIDE DEF F, Good
    <3> QED
      BY <3>1
  <2> QED
    BY <1>5, <2>1
<1>7. g \in [Windows(a, b) -> Seq(Nat \X Nat)]
  OBVIOUS
<1> HIDE DEF F, Good
<1>8. g = [w \in Windows(a, b) |-> Parts(a, b, g, w)]
  BY <1>6, <1>7
<1> QED
  BY <1>7, <1>8 DEF IsMatch

LEMMA MatchAt ==
  ASSUME NEW a, NEW b, NEW M, IsMatch(a, b, M), NEW w \in Windows(a, b)
  PROVE  M[w] = Parts(a, b, M, w)
BY DEF IsMatch

LEMMA MatchedIs ==
  ASSUME NEW V, NEW a \in Seq(V), NEW b \in Seq(V)
  PROVE  \E M : IsMatch(a, b, M) /\ Matched(a, b) = M[Whole(a, b)]
<1> DEFINE G == CHOOSE M : IsMatch(a, b, M)
<1>1. IsMatch(a, b, G)
  <2>1. \E M : IsMatch(a, b, M)
    BY MatchExists
  <2> QED
    BY <2>1
<1>2. Matched(a, b) = G[Whole(a, b)]
  BY DEF Matched, Whole, IsMatch, Windows, Parts, BlockOf, LeftOf, RightOf, Diagonal
<1> HIDE DEF G
<1> QED
  BY <1>1, <1>2

\* A path of matches: pairs within the bounds that rise on either side.
IsPath(a, b, s, la, ha, lb, hb) ==
  /\ s \in Seq(Nat \X Nat)
  /\ \A n \in 1..Len(s) :
       /\ la <= s[n][1] /\ s[n][1] <= ha
       /\ lb <= s[n][2] /\ s[n][2] <= hb
       /\ a[s[n][1]] = b[s[n][2]]
  /\ \A n \in 1..(Len(s) - 1) : s[n][1] < s[n + 1][1] /\ s[n][2] < s[n + 1][2]

LEMMA PathAt ==
  ASSUME NEW a, NEW b, NEW s, NEW la, NEW ha, NEW lb, NEW hb,
         IsPath(a, b, s, la, ha, lb, hb), NEW n \in 1..Len(s)
  PROVE  /\ s[n] = <<s[n][1], s[n][2]>> /\ s[n][1] \in Nat /\ s[n][2] \in Nat
         /\ la <= s[n][1] /\ s[n][1] <= ha /\ lb <= s[n][2] /\ s[n][2] <= hb
         /\ a[s[n][1]] = b[s[n][2]]
<1>1. s \in Seq(Nat \X Nat)
  BY DEF IsPath
<1>2. s[n] \in Nat \X Nat
  BY <1>1, ElementOfSeq
<1>3. s[n] = <<s[n][1], s[n][2]>> /\ s[n][1] \in Nat /\ s[n][2] \in Nat
  BY <1>2
<1>4. /\ la <= s[n][1] /\ s[n][1] <= ha /\ lb <= s[n][2] /\ s[n][2] <= hb
      /\ a[s[n][1]] = b[s[n][2]]
  BY DEF IsPath
<1> QED
  BY <1>3, <1>4

LEMMA PathRises ==
  ASSUME NEW a, NEW b, NEW s, NEW la, NEW ha, NEW lb, NEW hb,
         IsPath(a, b, s, la, ha, lb, hb), NEW n \in 1..(Len(s) - 1)
  PROVE  s[n][1] < s[n + 1][1] /\ s[n][2] < s[n + 1][2]
BY DEF IsPath

LEMMA PathConcat ==
  ASSUME NEW a, NEW b, NEW s, NEW t,
         NEW la \in Int, NEW ha \in Int, NEW lb \in Int, NEW hb \in Int,
         NEW lc \in Int, NEW hc \in Int, NEW ld \in Int, NEW hd \in Int,
         IsPath(a, b, s, la, ha, lb, hb), IsPath(a, b, t, lc, hc, ld, hd),
         ha < lc, hb < ld, la <= lc, ha <= hc, lb <= ld, hb <= hd
  PROVE  IsPath(a, b, s \o t, la, hc, lb, hd)
<1> DEFINE r == s \o t
<1>1. s \in Seq(Nat \X Nat) /\ t \in Seq(Nat \X Nat)
  BY DEF IsPath
<1>p. PICK p \in Nat, q \in Nat : p = Len(s) /\ q = Len(t)
  BY <1>1, LenProperties
<1>2. r \in Seq(Nat \X Nat) /\ Len(r) = p + q
  BY <1>1, <1>p, ConcatProperties
<1>r. \A n \in 1..(p + q) : r[n] = IF n <= p THEN s[n] ELSE t[n - p]
  BY <1>1, <1>p, ConcatProperties
<1> HIDE DEF r
<1>s. ASSUME NEW n \in 1..p
      PROVE  /\ r[n] = s[n] /\ s[n][1] \in Nat /\ s[n][2] \in Nat
             /\ la <= s[n][1] /\ s[n][1] <= ha /\ lb <= s[n][2] /\ s[n][2] <= hb
             /\ a[s[n][1]] = b[s[n][2]]
  <2>1. r[n] = s[n]
    <3>1. n \in 1..(p + q) /\ n <= p
      OBVIOUS
    <3> QED
      BY <1>r, <3>1
  <2> QED
    BY <1>p, <2>1, PathAt
<1>t. ASSUME NEW n \in 1..q
      PROVE  /\ r[p + n] = t[n] /\ t[n][1] \in Nat /\ t[n][2] \in Nat
             /\ lc <= t[n][1] /\ t[n][1] <= hc /\ ld <= t[n][2] /\ t[n][2] <= hd
             /\ a[t[n][1]] = b[t[n][2]]
  <2>1. r[p + n] = t[n]
    <3>1. p + n \in 1..(p + q) /\ ~(p + n <= p) /\ (p + n) - p = n
      OBVIOUS
    <3> QED
      BY <1>r, <3>1
  <2> QED
    BY <1>p, <2>1, PathAt
<1>3. ASSUME NEW n \in 1..(p + q)
      PROVE  /\ la <= r[n][1] /\ r[n][1] <= hc
             /\ lb <= r[n][2] /\ r[n][2] <= hd
             /\ a[r[n][1]] = b[r[n][2]]
  <2>1. CASE n \in 1..p
    <3> DEFINE x == s[n][1]  y == s[n][2]
    <3>1. /\ x \in Nat /\ y \in Nat /\ la <= x /\ x <= ha /\ lb <= y /\ y <= hb
          /\ r[n] = s[n] /\ a[x] = b[y]
      BY <2>1, <1>s
    <3> HIDE DEF x, y
    <3>2. la <= x /\ x <= hc /\ lb <= y /\ y <= hd
      BY <3>1
    <3> QED
      BY <3>1, <3>2 DEF x, y
  <2>2. CASE n \notin 1..p
    <3>1. PICK k \in 1..q : n = p + k
      <4>1. n - p \in 1..q /\ n = p + (n - p)
        BY <2>2
      <4> QED
        BY <4>1
    <3> DEFINE x == t[k][1]  y == t[k][2]
    <3>2. /\ x \in Nat /\ y \in Nat /\ lc <= x /\ x <= hc /\ ld <= y /\ y <= hd
          /\ r[n] = t[k] /\ a[x] = b[y]
      BY <3>1, <1>t
    <3> HIDE DEF x, y
    <3>3. la <= x /\ x <= hc /\ lb <= y /\ y <= hd
      BY <3>2
    <3> QED
      BY <3>2, <3>3 DEF x, y
  <2> QED
    BY <2>1, <2>2
<1>4. ASSUME NEW n \in 1..(p + q - 1)
      PROVE  r[n][1] < r[n + 1][1] /\ r[n][2] < r[n + 1][2]
  <2>1. CASE n + 1 \in 1..p
    <3>1. n \in 1..p /\ n \in 1..(p - 1)
      BY <2>1
    <3>2. s[n][1] < s[n + 1][1] /\ s[n][2] < s[n + 1][2]
      BY <1>p, <3>1, PathRises
    <3>3. r[n] = s[n] /\ r[n + 1] = s[n + 1]
      BY <2>1, <3>1, <1>s
    <3> QED
      BY <3>2, <3>3
  <2>2. CASE n = p
    <3>1. n \in 1..p /\ 1 \in 1..q
      BY <2>2
    <3> DEFINE x == s[n][1]  y == s[n][2]  u == t[1][1]  v == t[1][2]
    <3>2. /\ x \in Nat /\ y \in Nat /\ x <= ha /\ y <= hb /\ r[n] = s[n]
      BY <3>1, <1>s
    <3>3. /\ u \in Nat /\ v \in Nat /\ lc <= u /\ ld <= v /\ r[n + 1] = t[1]
      BY <2>2, <3>1, <1>t
    <3> HIDE DEF x, y, u, v
    <3>4. x < u /\ y < v
      BY <3>2, <3>3
    <3> QED
      BY <3>2, <3>3, <3>4 DEF x, y, u, v
  <2>3. CASE n > p
    <3>1. PICK k \in 1..q : /\ n = p + k /\ k + 1 \in 1..q
                            /\ k \in 1..(q - 1) /\ n + 1 = p + (k + 1)
      <4>1. /\ n - p \in 1..q /\ n = p + (n - p)
            /\ (n - p) + 1 \in 1..q /\ n - p \in 1..(q - 1)
            /\ n + 1 = p + ((n - p) + 1)
        BY <2>3
      <4> QED
        BY <4>1
    <3>2. t[k][1] < t[k + 1][1] /\ t[k][2] < t[k + 1][2]
      BY <1>p, <3>1, PathRises
    <3>3. r[n] = t[k] /\ r[n + 1] = t[k + 1]
      BY <3>1, <1>t
    <3> QED
      BY <3>2, <3>3
  <2> QED
    BY <2>1, <2>2, <2>3
<1>5. 1..Len(r) = 1..(p + q) /\ 1..(Len(r) - 1) = 1..(p + q - 1)
  BY <1>2
<1>6. IsPath(a, b, r, la, hc, lb, hd)
  BY <1>2, <1>3, <1>4, <1>5 DEF IsPath
<1> QED
  BY <1>6 DEF r

LEMMA EmptyPath ==
  ASSUME NEW a, NEW b, NEW la, NEW ha, NEW lb, NEW hb
  PROVE  IsPath(a, b, <<>>, la, ha, lb, hb)
BY DEF IsPath

LEMMA DiagonalPath ==
  ASSUME NEW V, NEW a \in Seq(V), NEW b \in Seq(V), NEW w \in Windows(a, b),
         NEW m, m = BlockOf(a, b, w), m.k # 0
  PROVE  IsPath(a, b, Diagonal(m), m.i, m.i + m.k - 1, m.j, m.j + m.k - 1)
<1>1. PICK i \in Nat, j \in Nat, k \in Nat : i = m.i /\ j = m.j /\ k = m.k
  BY BlockInWindow
<1>2. 1 <= i /\ 1 <= j
  <2>1. w.la <= m.i /\ w.lb <= m.j
    BY BlockInWindow
  <2>2. w.la \in Nat /\ w.lb \in Nat /\ 1 <= w.la /\ 1 <= w.lb
    BY WindowType
  <2> QED
    BY <1>1, <2>1, <2>2
<1>m. ASSUME NEW n \in 0..(k - 1) PROVE a[i + n] = b[j + n]
  <2>1. n \in 0..(m.k - 1)
    BY <1>1
  <2>2. a[m.i + n] = b[m.j + n]
    BY <2>1, BlockMatches
  <2> QED
    BY <1>1, <2>2
<1> DEFINE s == Diagonal(m)
<1>3. /\ s \in Seq(Nat \X Nat) /\ Len(s) = k
      /\ \A n \in 1..k : s[n] = <<i + n - 1, j + n - 1>>
  BY <1>1, <1>2, DiagonalType
<1> HIDE DEF s
<1>4. ASSUME NEW n \in 1..k
      PROVE  /\ s[n][1] = i + n - 1 /\ s[n][2] = j + n - 1
             /\ i <= s[n][1] /\ s[n][1] <= i + k - 1
             /\ j <= s[n][2] /\ s[n][2] <= j + k - 1
             /\ a[s[n][1]] = b[s[n][2]]
  <2>1. s[n][1] = i + n - 1 /\ s[n][2] = j + n - 1
    BY <1>3
  <2>2. n - 1 \in 0..(k - 1) /\ i + n - 1 = i + (n - 1) /\ j + n - 1 = j + (n - 1)
    OBVIOUS
  <2>3. a[i + (n - 1)] = b[j + (n - 1)]
    BY <1>m, <2>2
  <2>4. i <= i + n - 1 /\ i + n - 1 <= i + k - 1 /\ j <= j + n - 1 /\ j + n - 1 <= j + k - 1
    OBVIOUS
  <2> QED
    BY <2>1, <2>2, <2>3, <2>4
<1>5. ASSUME NEW n \in 1..(k - 1)
      PROVE  s[n][1] < s[n + 1][1] /\ s[n][2] < s[n + 1][2]
  <2>1. n \in 1..k /\ n + 1 \in 1..k
    OBVIOUS
  <2> QED
    BY <1>4, <2>1
<1>6. IsPath(a, b, s, i, i + k - 1, j, j + k - 1)
  BY <1>3, <1>4, <1>5 DEF IsPath
<1> QED
  BY <1>1, <1>6 DEF s

LEMMA PartsPath ==
  ASSUME NEW V, NEW a \in Seq(V), NEW b \in Seq(V), NEW w \in Windows(a, b), NEW M,
         \A v \in Windows(a, b) :
           Size(v) < Size(w) => IsPath(a, b, M[v], v.la, v.ha, v.lb, v.hb)
  PROVE  IsPath(a, b, Parts(a, b, M, w), w.la, w.ha, w.lb, w.hb)
<1> DEFINE m == BlockOf(a, b, w)
<1>1. CASE m.k = 0
  BY <1>1, EmptyPath DEF Parts
<1>2. CASE m.k # 0
  <2>1. PICK i \in Nat, j \in Nat, k \in Nat : i = m.i /\ j = m.j /\ k = m.k
    BY <1>2, BlockInWindow
  <2>2. PICK la \in Nat, ha \in Nat, lb \in Nat, hb \in Nat :
          la = w.la /\ ha = w.ha /\ lb = w.lb /\ hb = w.hb
    BY WindowType
  <2>3. 1 <= k /\ la <= i /\ i + k - 1 <= ha /\ lb <= j /\ j + k - 1 <= hb
    BY <1>2, <2>1, <2>2, BlockInWindow
  <2> DEFINE l == M[LeftOf(w, m)]  d == Diagonal(m)  r == M[RightOf(w, m)]
  <2>4. IsPath(a, b, l, la, i - 1, lb, j - 1)
    <3>1. /\ LeftOf(w, m) \in Windows(a, b) /\ Size(LeftOf(w, m)) < Size(w)
          /\ LeftOf(w, m).la = la /\ LeftOf(w, m).ha = i - 1
          /\ LeftOf(w, m).lb = lb /\ LeftOf(w, m).hb = j - 1
      BY <1>2, <2>1, <2>2, LeftWindow
    <3> HIDE DEF m
    <3> QED
      BY <3>1
  <2>5. IsPath(a, b, r, i + k, ha, j + k, hb)
    <3>1. /\ RightOf(w, m) \in Windows(a, b) /\ Size(RightOf(w, m)) < Size(w)
          /\ RightOf(w, m).la = i + k /\ RightOf(w, m).ha = ha
          /\ RightOf(w, m).lb = j + k /\ RightOf(w, m).hb = hb
      BY <1>2, <2>1, <2>2, RightWindow
    <3> HIDE DEF m
    <3> QED
      BY <3>1
  <2>6. IsPath(a, b, d, i, i + k - 1, j, j + k - 1)
    BY <1>2, <2>1, DiagonalPath
  <2>7. Parts(a, b, M, w) = l \o d \o r
    BY <1>2 DEF Parts
  <2> HIDE DEF l, d, r
  <2>8. IsPath(a, b, l \o d, la, i + k - 1, lb, j + k - 1)
    <3>1. /\ la \in Int /\ i - 1 \in Int /\ lb \in Int /\ j - 1 \in Int
          /\ i \in Int /\ i + k - 1 \in Int /\ j \in Int /\ j + k - 1 \in Int
          /\ i - 1 < i /\ j - 1 < j /\ la <= i /\ i - 1 <= i + k - 1
          /\ lb <= j /\ j - 1 <= j + k - 1
      BY <2>3
    <3> QED
      BY <2>4, <2>6, <3>1, PathConcat
  <2>9. IsPath(a, b, (l \o d) \o r, la, ha, lb, hb)
    <3>1. /\ la \in Int /\ i + k - 1 \in Int /\ lb \in Int /\ j + k - 1 \in Int
          /\ i + k \in Int /\ ha \in Int /\ j + k \in Int /\ hb \in Int
          /\ i + k - 1 < i + k /\ j + k - 1 < j + k /\ la <= i + k /\ i + k - 1 <= ha
          /\ lb <= j + k /\ j + k - 1 <= hb
      BY <2>3
    <3> QED
      BY <2>5, <2>8, <3>1, PathConcat
  <2> QED
    BY <2>2, <2>7, <2>9
<1> QED
  BY <1>1, <1>2

LEMMA MatchPath ==
  ASSUME NEW V, NEW a \in Seq(V), NEW b \in Seq(V), NEW M, IsMatch(a, b, M),
         NEW w \in Windows(a, b)
  PROVE  IsPath(a, b, M[w], w.la, w.ha, w.lb, w.hb)
<1> DEFINE P(v) == IsPath(a, b, M[v], v.la, v.ha, v.lb, v.hb)
           T == {n \in Nat : \A v \in Windows(a, b) : Size(v) < n => P(v)}
<1>c. \A v \in Windows(a, b) : Size(v) <= 0 => P(v)
  <2> TAKE v \in Windows(a, b)
  <2> HAVE Size(v) <= 0
  <2>1. BlockOf(a, b, v).k = 0
    BY NoRoom
  <2>2. M[v] = <<>>
    BY <2>1, MatchAt DEF Parts
  <2> QED
    BY <2>2, EmptyPath
<1>d. \A v \in Windows(a, b) : (\A u \in Windows(a, b) : Size(u) < Size(v) => P(u)) => P(v)
  <2> TAKE v \in Windows(a, b)
  <2> HAVE \A u \in Windows(a, b) : Size(u) < Size(v) => P(u)
  <2>1. IsPath(a, b, Parts(a, b, M, v), v.la, v.ha, v.lb, v.hb)
    BY PartsPath
  <2> QED
    BY <2>1, MatchAt
<1>s. \A v \in Windows(a, b) : Size(v) \in Int /\ Size(v) <= Len(a) /\ Len(a) \in Nat
  <2> TAKE v \in Windows(a, b)
  <2>1. /\ Len(a) \in Nat /\ v.la \in Nat /\ v.ha \in Nat
        /\ 1 <= v.la /\ v.ha <= Len(a) /\ Size(v) = v.ha - v.la + 1
    BY WindowType
  <2> HIDE DEF P
  <2> QED
    BY <2>1
<1> HIDE DEF P
<1>1. 0 \in T
  BY <1>c, <1>s
<1>2. ASSUME NEW n \in T PROVE n + 1 \in T
  <2>1. n \in Nat /\ \A v \in Windows(a, b) : Size(v) < n => P(v)
    OBVIOUS
  <2>2. ASSUME NEW v \in Windows(a, b), Size(v) < n + 1 PROVE P(v)
    <3>1. \A u \in Windows(a, b) : Size(u) < Size(v) => P(u)
      <4> TAKE u \in Windows(a, b)
      <4> HAVE Size(u) < Size(v)
      <4>1. Size(u) < n
        BY <1>s, <2>1, <2>2
      <4> QED
        BY <2>1, <4>1
    <3> QED
      BY <1>d, <3>1
  <2> QED
    BY <2>1, <2>2
<1>3. T \in SUBSET Nat
  OBVIOUS
<1> HIDE DEF T
<1>4. Len(a) + 1 \in T
  BY <1>s, <1>1, <1>2, <1>3, AllNat
<1>5. Size(w) < Len(a) + 1
  BY <1>s
<1>6. P(w)
  BY <1>4, <1>5 DEF T
<1> QED
  BY <1>6 DEF P

\* Matched between the fences of Gaps.
Fenced(a, b) == <<<<0, 0>>>> \o Matched(a, b) \o <<<<Len(a) + 1, Len(b) + 1>>>>

IsLadder(a, b, p) ==
  /\ p \in Seq(Nat \X Nat) /\ Len(p) >= 2
  /\ p[1] = <<0, 0>> /\ p[Len(p)] = <<Len(a) + 1, Len(b) + 1>>
  /\ \A n \in 2..(Len(p) - 1) : a[p[n][1]] = b[p[n][2]]
  /\ \A n \in 1..(Len(p) - 1) : p[n][1] < p[n + 1][1] /\ p[n][2] < p[n + 1][2]

LEMMA MatchedPath ==
  ASSUME NEW V, NEW a \in Seq(V), NEW b \in Seq(V)
  PROVE  IsPath(a, b, Matched(a, b), 1, Len(a), 1, Len(b))
<1> DEFINE w == Whole(a, b)
<1>1. /\ w \in Windows(a, b) /\ w.la = 1 /\ w.ha = Len(a) /\ w.lb = 1 /\ w.hb = Len(b)
  <2>1. Len(a) \in Nat /\ Len(b) \in Nat
    BY LenProperties
  <2> QED
    BY <2>1 DEF Whole, Windows
<1>2. PICK M : IsMatch(a, b, M) /\ Matched(a, b) = M[w]
  BY MatchedIs
<1> HIDE DEF w
<1>3. IsPath(a, b, M[w], w.la, w.ha, w.lb, w.hb)
  BY <1>1, <1>2, MatchPath
<1> QED
  BY <1>1, <1>2, <1>3

LEMMA ConcatAt ==
  ASSUME NEW V, NEW s \in Seq(V), NEW t \in Seq(V)
  PROVE  /\ s \o t \in Seq(V) /\ Len(s \o t) = Len(s) + Len(t)
         /\ \A n \in 1..Len(s) : (s \o t)[n] = s[n]
         /\ \A n \in 1..Len(t) : (s \o t)[Len(s) + n] = t[n]
<1> DEFINE r == s \o t
<1>p. PICK p \in Nat, q \in Nat : p = Len(s) /\ q = Len(t)
  BY LenProperties
<1>1. r \in Seq(V) /\ Len(r) = p + q
  BY <1>p, ConcatProperties
<1>2. \A n \in 1..(p + q) : r[n] = IF n <= p THEN s[n] ELSE t[n - p]
  BY <1>p, ConcatProperties
<1> HIDE DEF r
<1>3. \A n \in 1..p : r[n] = s[n]
  BY <1>2
<1>4. ASSUME NEW n \in 1..q PROVE r[p + n] = t[n]
  <2>1. p + n \in 1..(p + q) /\ ~(p + n <= p) /\ (p + n) - p = n
    OBVIOUS
  <2> QED
    BY <1>2, <2>1
<1> QED
  BY <1>p, <1>1, <1>3, <1>4 DEF r

LEMMA FencedLadder ==
  ASSUME NEW V, NEW a \in Seq(V), NEW b \in Seq(V)
  PROVE  IsLadder(a, b, Fenced(a, b))
<1> DEFINE s == Matched(a, b)
           x == <<<<0, 0>>>>
           y == <<<<Len(a) + 1, Len(b) + 1>>>>
           p == x \o s \o y
<1>0. PICK la \in Nat, lb \in Nat : la = Len(a) /\ lb = Len(b)
  BY LenProperties
<1>1. IsPath(a, b, s, 1, la, 1, lb)
  BY <1>0, MatchedPath
<1>2. s \in Seq(Nat \X Nat)
  BY <1>1 DEF IsPath
<1>3. /\ x \in Seq(Nat \X Nat) /\ y \in Seq(Nat \X Nat) /\ Len(x) = 1 /\ Len(y) = 1
      /\ x[1] = <<0, 0>> /\ y[1] = <<la + 1, lb + 1>>
  BY <1>0
<1>4. PICK k \in Nat : k = Len(s)
  BY <1>2, LenProperties
<1> HIDE DEF x, y, s
<1>5. /\ x \o s \in Seq(Nat \X Nat) /\ Len(x \o s) = 1 + k
      /\ (x \o s)[1] = x[1] /\ \A n \in 1..k : (x \o s)[1 + n] = s[n]
  <2>1. /\ x \o s \in Seq(Nat \X Nat) /\ Len(x \o s) = Len(x) + Len(s)
        /\ \A n \in 1..Len(x) : (x \o s)[n] = x[n]
        /\ \A n \in 1..Len(s) : (x \o s)[Len(x) + n] = s[n]
    <3> DEFINE W == Nat \X Nat
    <3>1. x \in Seq(W) /\ s \in Seq(W)
      BY <1>2, <1>3
    <3> HIDE DEF W
    <3>2. x \o s \in Seq(W)
      BY <3>1, ConcatAt
    <3> QED
      BY <3>1, <3>2, ConcatAt DEF W
  <2>2. 1 \in 1..1
    OBVIOUS
  <2> QED
    BY <1>3, <1>4, <2>1, <2>2
<1>6. /\ p \in Seq(Nat \X Nat) /\ Len(p) = k + 2 /\ p[k + 2] = y[1]
      /\ \A n \in 1..(1 + k) : p[n] = (x \o s)[n]
  <2> DEFINE z == x \o s
  <2>1. z \in Seq(Nat \X Nat) /\ Len(z) = 1 + k /\ 1 \in 1..1
    BY <1>5
  <2> HIDE DEF z
  <2>4. /\ z \o y \in Seq(Nat \X Nat) /\ Len(z \o y) = Len(z) + Len(y)
        /\ \A n \in 1..Len(z) : (z \o y)[n] = z[n]
        /\ \A n \in 1..Len(y) : (z \o y)[Len(z) + n] = y[n]
    <3> DEFINE W == Nat \X Nat
    <3>1. z \in Seq(W) /\ y \in Seq(W)
      BY <1>3, <2>1
    <3> HIDE DEF W
    <3>2. z \o y \in Seq(W)
      BY <3>1, ConcatAt
    <3> QED
      BY <3>1, <3>2, ConcatAt DEF W
  <2>2. /\ z \o y \in Seq(Nat \X Nat) /\ Len(z \o y) = (1 + k) + 1
        /\ \A n \in 1..(1 + k) : (z \o y)[n] = z[n]
        /\ (z \o y)[(1 + k) + 1] = y[1]
    BY <1>3, <2>1, <2>4
  <2>3. (1 + k) + 1 = k + 2
    OBVIOUS
  <2> QED
    BY <2>2, <2>3 DEF z
<1> HIDE DEF p
<1>7. p[1] = <<0, 0>> /\ p[k + 2] = <<la + 1, lb + 1>>
  <2>1. 1 \in 1..(1 + k)
    OBVIOUS
  <2> QED
    BY <1>3, <1>5, <1>6, <2>1
<1>8. ASSUME NEW n \in 1..k
      PROVE  /\ p[n + 1] = s[n]
             /\ s[n][1] \in Nat /\ s[n][2] \in Nat
             /\ 1 <= s[n][1] /\ s[n][1] <= la /\ 1 <= s[n][2] /\ s[n][2] <= lb
             /\ a[s[n][1]] = b[s[n][2]]
  <2>1. 1 + n \in 1..(1 + k) /\ 1 + n = n + 1
    OBVIOUS
  <2>2. p[n + 1] = s[n]
    BY <1>5, <1>6, <2>1
  <2> QED
    BY <1>1, <1>4, <2>2, PathAt
<1>9. ASSUME NEW n \in 2..(k + 1) PROVE a[p[n][1]] = b[p[n][2]]
  <2>1. PICK j \in 1..k : n = j + 1
    <3>1. n - 1 \in 1..k /\ n = (n - 1) + 1
      OBVIOUS
    <3> QED
      BY <3>1
  <2> QED
    BY <1>8, <2>1
<1>10. ASSUME NEW n \in 1..(k + 1)
       PROVE  p[n][1] < p[n + 1][1] /\ p[n][2] < p[n + 1][2]
  <2>1. CASE n = 1 /\ k = 0
    BY <1>7, <2>1
  <2>2. CASE n = 1 /\ k # 0
    <3>1. 1 \in 1..k
      BY <2>2
    <3>2. p[2] = s[1] /\ 1 <= s[1][1] /\ 1 <= s[1][2] /\ s[1][1] \in Nat /\ s[1][2] \in Nat
      BY <1>8, <3>1
    <3> DEFINE u == s[1][1]  v == s[1][2]
    <3>3. u \in Nat /\ v \in Nat /\ 1 <= u /\ 1 <= v
      BY <3>2
    <3> HIDE DEF u, v
    <3>4. 0 < u /\ 0 < v
      BY <3>3
    <3>5. p[1][1] = 0 /\ p[1][2] = 0
      BY <1>7
    <3> QED
      BY <2>2, <3>2, <3>4, <3>5 DEF u, v
  <2>3. CASE n # 1 /\ n = k + 1
    <3>1. k \in 1..k /\ n + 1 = k + 2
      BY <2>3
    <3>2. s[k][1] < la + 1 /\ s[k][2] < lb + 1
      <4> DEFINE u == s[k][1]  v == s[k][2]
      <4>1. u \in Nat /\ v \in Nat /\ u <= la /\ v <= lb
        BY <1>8, <3>1
      <4> HIDE DEF u, v
      <4>2. u < la + 1 /\ v < lb + 1
        BY <4>1
      <4> QED
        BY <4>2 DEF u, v
    <3> QED
      BY <1>7, <1>8, <2>3, <3>1, <3>2
  <2>4. CASE n # 1 /\ n # k + 1
    <3>1. PICK j \in 1..(k - 1) : n = j + 1
      <4>1. n - 1 \in 1..(k - 1) /\ n = (n - 1) + 1
        BY <2>4
      <4> QED
        BY <4>1
    <3>2. j \in 1..k /\ j + 1 \in 1..k
      OBVIOUS
    <3>3. s[j][1] < s[j + 1][1] /\ s[j][2] < s[j + 1][2]
      BY <1>1, <1>4, PathRises
    <3> QED
      BY <1>8, <3>1, <3>2, <3>3
  <2> QED
    BY <2>1, <2>2, <2>3, <2>4
<1>11. Len(p) >= 2 /\ Len(p) - 1 = k + 1
  BY <1>6
<1>12. IsLadder(a, b, p)
  BY <1>0, <1>6, <1>7, <1>9, <1>10, <1>11 DEF IsLadder
<1> QED
  BY <1>12 DEF p, x, y, s, Fenced

LEMMA RungType ==
  ASSUME NEW a, NEW b, NEW p, IsLadder(a, b, p), NEW n \in 1..Len(p)
  PROVE  p[n] = <<p[n][1], p[n][2]>> /\ p[n][1] \in Nat /\ p[n][2] \in Nat
<1>1. p \in Seq(Nat \X Nat)
  BY DEF IsLadder
<1>2. p[n] \in Nat \X Nat
  BY <1>1, ElementOfSeq
<1> QED
  BY <1>2

\* The rungs lie between the fences.
LEMMA RungBounds ==
  ASSUME NEW V, NEW a \in Seq(V), NEW b \in Seq(V), NEW p, IsLadder(a, b, p),
         NEW n \in 1..(Len(p) - 1)
  PROVE  /\ 0 <= p[n][1] /\ p[n][1] < p[n + 1][1] /\ p[n + 1][1] <= Len(a) + 1
         /\ 0 <= p[n][2] /\ p[n][2] < p[n + 1][2] /\ p[n + 1][2] <= Len(b) + 1
         /\ p[n][1] \in Nat /\ p[n][2] \in Nat
         /\ p[n + 1][1] \in Nat /\ p[n + 1][2] \in Nat
<1>0. PICK la \in Nat, lb \in Nat : la = Len(a) /\ lb = Len(b)
  BY LenProperties
<1>1. PICK k \in Nat : k = Len(p) /\ k >= 2
  <2>1. p \in Seq(Nat \X Nat) /\ Len(p) >= 2
    BY DEF IsLadder
  <2> QED
    BY <2>1, LenProperties
<1>t. \A i \in 1..k : p[i][1] \in Nat /\ p[i][2] \in Nat
  BY <1>1, RungType
<1>r. \A i \in 1..(k - 1) : p[i][1] < p[i + 1][1] /\ p[i][2] < p[i + 1][2]
  BY <1>1 DEF IsLadder
<1>l. p[k][1] = la + 1 /\ p[k][2] = lb + 1
  BY <1>0, <1>1 DEF IsLadder
<1> DEFINE T == {d \in Nat : d < k => p[k - d][1] <= la + 1 /\ p[k - d][2] <= lb + 1}
<1>2. 0 \in T
  BY <1>l
<1>3. ASSUME NEW d \in T PROVE d + 1 \in T
  <2>0. d \in Nat
    OBVIOUS
  <2>1. SUFFICES ASSUME d + 1 < k
        PROVE  p[k - (d + 1)][1] <= la + 1 /\ p[k - (d + 1)][2] <= lb + 1
    OBVIOUS
  <2>2. p[k - d][1] <= la + 1 /\ p[k - d][2] <= lb + 1
    BY <2>1
  <2> HIDE DEF T
  <2>3. PICK i \in 1..(k - 1) : i = k - (d + 1) /\ i + 1 = k - d
    <3>1. k - (d + 1) \in 1..(k - 1) /\ (k - (d + 1)) + 1 = k - d
      BY <2>0, <2>1
    <3> QED
      BY <3>1
  <2>4. i \in 1..k /\ i + 1 \in 1..k
    OBVIOUS
  <2> DEFINE u == p[i][1]  v == p[i][2]  x == p[i + 1][1]  y == p[i + 1][2]
  <2>5. u \in Nat /\ v \in Nat /\ x \in Nat /\ y \in Nat /\ u < x /\ v < y
        /\ x <= la + 1 /\ y <= lb + 1
    BY <1>t, <1>r, <2>2, <2>3, <2>4
  <2> HIDE DEF u, v, x, y
  <2>6. u <= la + 1 /\ v <= lb + 1
    BY <2>5
  <2> QED
    BY <2>3, <2>6 DEF u, v
<1>4. T \in SUBSET Nat
  OBVIOUS
<1> HIDE DEF T
<1>5. \A d \in Nat : d \in T
  BY <1>2, <1>3, <1>4, AllNat
<1>6. p[n + 1][1] <= la + 1 /\ p[n + 1][2] <= lb + 1
  <2>1. k - (n + 1) \in Nat /\ k - (n + 1) < k /\ k - (k - (n + 1)) = n + 1
    BY <1>1
  <2> QED
    BY <1>5, <2>1 DEF T
<1>7. n \in 1..(k - 1) /\ n \in 1..k /\ n + 1 \in 1..k
  BY <1>1
<1> DEFINE u == p[n][1]  v == p[n][2]
<1>8. u \in Nat /\ v \in Nat
  BY <1>t, <1>7
<1> HIDE DEF u, v
<1>9. 0 <= u /\ 0 <= v
  BY <1>8
<1> QED
  BY <1>0, <1>6, <1>7, <1>9, <1>t, <1>r DEF u, v
-----------------------------------------------------------------------------
(* What lies between the matches *)

\* What lies between matches, over the members of V.
Gap(V) == [before : Seq(V), after : Seq(V)]

BeforeOf(V) == [g \in Gap(V) |-> g.before]

AfterOf(V) == [g \in Gap(V) |-> g.after]

LEMMA SidesMap ==
  ASSUME NEW V
  PROVE  /\ IsMap(BeforeOf(V), Gap(V), Seq(V)) /\ IsMap(AfterOf(V), Gap(V), Seq(V))
         /\ NoGap \in Gap(V)
         /\ \A g \in Gap(V) : BeforeOf(V)[g] = g.before /\ AfterOf(V)[g] = g.after
                              /\ g.before \in Seq(V) /\ g.after \in Seq(V)
<1>1. <<>> \in Seq(V)
  OBVIOUS
<1> QED
  BY <1>1 DEF IsMap, BeforeOf, AfterOf, Gap, NoGap

LEMMA SidesJoined ==
  ASSUME NEW V, NEW gaps \in Seq(Gap(V))
  PROVE  Befores(gaps) = Joined(BeforeOf(V), gaps) /\ Afters(gaps) = Joined(AfterOf(V), gaps)
<1>1. \A n \in DOMAIN gaps : gaps[n] \in Gap(V)
  BY LenProperties, ElementOfSeq
<1>2. /\ Mapped(BeforeOf(V), gaps) = [n \in DOMAIN gaps |-> gaps[n].before]
      /\ Mapped(AfterOf(V), gaps) = [n \in DOMAIN gaps |-> gaps[n].after]
  BY <1>1, SidesMap DEF Mapped
<1> QED
  BY <1>2 DEF Joined, Befores, Afters

LEMMA SliceType ==
  ASSUME NEW V, NEW a \in Seq(V), NEW b \in Seq(V), NEW p, IsLadder(a, b, p)
  PROVE  /\ Slices(a, b, p) \in Seq(Gap(V)) /\ Len(Slices(a, b, p)) = Len(p) - 1
         /\ \A n \in 1..(Len(p) - 1) :
              /\ Slices(a, b, p)[n].before = SubSeq(a, p[n][1] + 1, p[n + 1][1] - 1)
              /\ Slices(a, b, p)[n].after = SubSeq(b, p[n][2] + 1, p[n + 1][2] - 1)
              /\ SubSeq(a, p[n][1] + 1, p[n + 1][1] - 1) \in Seq(V)
              /\ SubSeq(b, p[n][2] + 1, p[n + 1][2] - 1) \in Seq(V)
<1>0. PICK k \in Nat : k = Len(p) - 1
  <2>1. Len(p) >= 2 /\ p \in Seq(Nat \X Nat)
    BY DEF IsLadder
  <2>2. Len(p) - 1 \in Nat
    BY <2>1, LenProperties
  <2> QED
    BY <2>2
<1>e. \A i \in 1..Len(a) : a[i] \in V
  BY ElementOfSeq
<1>f. \A i \in 1..Len(b) : b[i] \in V
  BY ElementOfSeq
<1>1. ASSUME NEW n \in 1..k
      PROVE  /\ SubSeq(a, p[n][1] + 1, p[n + 1][1] - 1) \in Seq(V)
             /\ SubSeq(b, p[n][2] + 1, p[n + 1][2] - 1) \in Seq(V)
  <2>1. PICK u \in Nat, v \in Nat, x \in Nat, y \in Nat :
          u = p[n][1] /\ v = p[n][2] /\ x = p[n + 1][1] /\ y = p[n + 1][2]
    BY <1>0, RungBounds
  <2>2. x <= Len(a) + 1 /\ y <= Len(b) + 1
    BY <1>0, <2>1, RungBounds
  <2>3. Len(a) \in Nat /\ Len(b) \in Nat
    BY LenProperties
  <2>4. SubSeq(a, u + 1, x - 1) \in Seq(V)
    <3>1. u + 1 \in Int /\ x - 1 \in Int /\ \A i \in (u + 1)..(x - 1) : i \in 1..Len(a)
      BY <2>2, <2>3
    <3> QED
      BY <1>e, <3>1, SubSeqProperties
  <2>5. SubSeq(b, v + 1, y - 1) \in Seq(V)
    <3>1. v + 1 \in Int /\ y - 1 \in Int /\ \A i \in (v + 1)..(y - 1) : i \in 1..Len(b)
      BY <2>2, <2>3
    <3> QED
      BY <1>f, <3>1, SubSeqProperties
  <2> QED
    BY <2>1, <2>4, <2>5
<1> DEFINE B(n) == SubSeq(a, p[n][1] + 1, p[n + 1][1] - 1)
           A(n) == SubSeq(b, p[n][2] + 1, p[n + 1][2] - 1)
           G(n) == [before |-> B(n), after |-> A(n)]
<1>2. Slices(a, b, p) = [n \in 1..k |-> G(n)]
  BY <1>0 DEF Slices
<1>3. \A n \in 1..k : B(n) \in Seq(V) /\ A(n) \in Seq(V)
  BY <1>1
<1> HIDE DEF A, B
<1>4. \A n \in 1..k : G(n) \in Gap(V) /\ G(n).before = B(n) /\ G(n).after = A(n)
  BY <1>3 DEF Gap
<1> HIDE DEF G
<1>5. /\ Slices(a, b, p) \in Seq(Gap(V)) /\ Len(Slices(a, b, p)) = k
      /\ \A n \in 1..k : Slices(a, b, p)[n] = G(n)
  BY <1>2, <1>4
<1>6. \A n \in 1..k : Slices(a, b, p)[n].before = B(n) /\ Slices(a, b, p)[n].after = A(n)
  BY <1>4, <1>5
<1> QED
  BY <1>0, <1>3, <1>5, <1>6 DEF A, B

LEMMA GapsAre ==
  ASSUME NEW V, NEW a \in Seq(V), NEW b \in Seq(V)
  PROVE  /\ Gaps(a, b) = Without(Slices(a, b, Fenced(a, b)), {NoGap})
         /\ Gaps(a, b) \in Seq(Gap(V)) /\ Slices(a, b, Fenced(a, b)) \in Seq(Gap(V))
         /\ \A i \in 1..Len(Gaps(a, b)) : /\ Gaps(a, b)[i] \in Gap(V)
                                          /\ Gaps(a, b)[i] # NoGap
         /\ Befores(Gaps(a, b)) \in Seq(V) /\ Afters(Gaps(a, b)) \in Seq(V)
<1> DEFINE s == Slices(a, b, Fenced(a, b))
<1>1. s \in Seq(Gap(V))
  BY FencedLadder, SliceType
<1>2. Gaps(a, b) = Without(s, {NoGap})
  BY DEF Gaps, Fenced
<1> HIDE DEF s
<1>3. Gaps(a, b) \in Seq(Gap(V)) /\ Gaps(a, b) \in Seq(Gap(V) \ {NoGap})
  BY <1>1, <1>2, WithoutType
<1>4. \A i \in 1..Len(Gaps(a, b)) : Gaps(a, b)[i] \in Gap(V) \ {NoGap}
  BY <1>3, ElementOfSeq
<1>5. Joined(BeforeOf(V), Gaps(a, b)) \in Seq(V) /\ Joined(AfterOf(V), Gaps(a, b)) \in Seq(V)
  BY <1>3, SidesMap, JoinedType
<1> QED
  BY <1>1, <1>2, <1>3, <1>4, <1>5, SidesJoined DEF s

\* How often x comes up in what f makes of the members of s.
Mu(f, x, s) == Occurrences(x, Joined(f, s))

LEMMA MuConcat ==
  ASSUME NEW V, NEW U, NEW f, IsMap(f, V, Seq(U)), NEW x,
         NEW s \in Seq(V), NEW t \in Seq(V)
  PROVE  Mu(f, x, s \o t) = Mu(f, x, s) + Mu(f, x, t) /\ Mu(f, x, s) \in Nat
<1>1. Joined(f, s) \in Seq(U) /\ Joined(f, t) \in Seq(U)
  BY JoinedType
<1>2. Joined(f, s \o t) = Joined(f, s) \o Joined(f, t)
  BY JoinedConcat
<1> DEFINE y == Joined(f, s)  z == Joined(f, t)
<1>3. Occurrences(x, y \o z) = Occurrences(x, y) + Occurrences(x, z) /\ Occurrences(x, y) \in Nat
  <2>1. y \in Seq(U) /\ z \in Seq(U)
    BY <1>1
  <2> HIDE DEF y, z
  <2> QED
    BY <2>1, OccurrencesConcat
<1> QED
  BY <1>2, <1>3 DEF Mu

LEMMA MuNone ==
  ASSUME NEW f, NEW x
  PROVE  Mu(f, x, <<>>) = 0
<1>1. Joined(f, <<>>) = <<>>
  BY JoinedEmpty
<1>2. {i \in DOMAIN <<>> : <<>>[i] = x} = {}
  OBVIOUS
<1> QED
  BY <1>1, <1>2, FS_EmptySet DEF Mu, Occurrences

\* The count up to a place, at it, and between two places.
Upto(f, x, s, q) == Mu(f, x, SubSeq(s, 1, q - 1))

At(f, x, s, p) == Mu(f, x, <<s[p]>>)

Between(f, x, s, p, q) == Mu(f, x, SubSeq(s, p + 1, q - 1))

\* A prefix up to a later place is the prefix, the place and what lies between.
LEMMA PrefixGrows ==
  ASSUME NEW V, NEW U, NEW f, IsMap(f, V, Seq(U)), NEW x, NEW s \in Seq(V),
         NEW p \in Nat, NEW q \in Nat, 1 <= p, p < q, q <= Len(s) + 1
  PROVE  /\ Upto(f, x, s, q) = Upto(f, x, s, p) + At(f, x, s, p) + Between(f, x, s, p, q)
         /\ Upto(f, x, s, p) \in Nat /\ At(f, x, s, p) \in Nat
         /\ Between(f, x, s, p, q) \in Nat
<1>0. PICK k \in Nat : k = Len(s)
  BY LenProperties
<1>e. \A i \in 1..k : s[i] \in V
  BY <1>0, ElementOfSeq
<1> DEFINE y == SubSeq(s, 1, p - 1)  w == SubSeq(s, p, q - 1)
           z == SubSeq(s, p + 1, q - 1)  e == <<s[p]>>
<1>1. y \in Seq(V) /\ w \in Seq(V) /\ z \in Seq(V) /\ e \in Seq(V)
  <2>1. /\ 1 \in Int /\ p - 1 \in Int /\ p \in Int /\ q - 1 \in Int /\ p + 1 \in Int
        /\ \A i \in 1..(p - 1) : i \in 1..k /\ \A j \in p..(q - 1) : j \in 1..k
        /\ \A j \in p..(q - 1) : j \in 1..k
        /\ \A i \in (p + 1)..(q - 1) : i \in 1..k
    BY <1>0
  <2>2. y \in Seq(V)
    BY <1>e, <2>1, SubSeqProperties
  <2>3. w \in Seq(V)
    BY <1>e, <2>1, SubSeqProperties
  <2>4. z \in Seq(V)
    BY <1>e, <2>1, SubSeqProperties
  <2>5. s[p] \in V
    BY <1>0, <1>e
  <2> QED
    BY <2>2, <2>3, <2>4, <2>5
<1>2. SubSeq(s, 1, q - 1) = y \o w
  <2>1. 1 \in 1..(Len(s) + 1) /\ p - 1 \in (1 - 1)..Len(s) /\ q - 1 \in (p - 1)..Len(s)
        /\ (p - 1) + 1 = p
    BY <1>0
  <2>2. SubSeq(s, 1, p - 1) \o SubSeq(s, (p - 1) + 1, q - 1) = SubSeq(s, 1, q - 1)
    BY <2>1, ConcatAdjacentSubSeq
  <2> QED
    BY <2>1, <2>2
<1>3. w = e \o z
  <2>1. p \in 1..Len(s) /\ q - 1 \in p..Len(s)
    BY <1>0
  <2> QED
    BY <2>1, SubSeqRecursiveFirst
<1> HIDE DEF y, w, z, e
<1>4. Mu(f, x, y \o w) = Mu(f, x, y) + Mu(f, x, w) /\ Mu(f, x, y) \in Nat
  BY <1>1, MuConcat
<1>5. Mu(f, x, e \o z) = Mu(f, x, e) + Mu(f, x, z) /\ Mu(f, x, e) \in Nat
  BY <1>1, MuConcat
<1>6. Mu(f, x, z) \in Nat
  BY <1>1, MuConcat
<1>7. Mu(f, x, y \o w) = Mu(f, x, y) + Mu(f, x, e) + Mu(f, x, z)
  BY <1>3, <1>4, <1>5, <1>6
<1> QED
  BY <1>2, <1>4, <1>5, <1>6, <1>7 DEF y, z, e, Upto, At, Between

\* What the gaps up to a rung of the ladder take and bring.
Took(V, f, x, a, b, p, n) ==
  Mu(f, x, Joined(BeforeOf(V), SubSeq(Slices(a, b, p), 1, n)))

Brought(V, f, x, a, b, p, n) ==
  Mu(f, x, Joined(AfterOf(V), SubSeq(Slices(a, b, p), 1, n)))

LEMMA TookMore ==
  ASSUME NEW V, NEW U, NEW f, IsMap(f, V, Seq(U)), NEW x,
         NEW a \in Seq(V), NEW b \in Seq(V), NEW p, IsLadder(a, b, p),
         NEW n \in Nat, n + 1 < Len(p)
  PROVE  /\ Took(V, f, x, a, b, p, n + 1)
            = Took(V, f, x, a, b, p, n)
              + Between(f, x, a, p[n + 1][1], p[n + 2][1])
         /\ Brought(V, f, x, a, b, p, n + 1)
            = Brought(V, f, x, a, b, p, n)
              + Between(f, x, b, p[n + 1][2], p[n + 2][2])
         /\ Took(V, f, x, a, b, p, n) \in Nat /\ Brought(V, f, x, a, b, p, n) \in Nat
         /\ Between(f, x, a, p[n + 1][1], p[n + 2][1]) \in Nat
         /\ Between(f, x, b, p[n + 1][2], p[n + 2][2]) \in Nat
<1> DEFINE sl == Slices(a, b, p)
           g == sl[n + 1]
           s == SubSeq(sl, 1, n)
           t == SubSeq(sl, 1, n + 1)
<1>0. PICK k \in Nat : k = Len(p) - 1 /\ n + 1 <= k
  <2>1. Len(p) >= 2 /\ p \in Seq(Nat \X Nat)
    BY DEF IsLadder
  <2>2. Len(p) - 1 \in Nat /\ n + 1 <= Len(p) - 1
    BY <2>1, LenProperties
  <2> QED
    BY <2>2
<1>1. sl \in Seq(Gap(V)) /\ Len(sl) = k
  <2>1. IsLadder(a, b, p) /\ a \in Seq(V) /\ b \in Seq(V)
    OBVIOUS
  <2>2. Slices(a, b, p) \in Seq(Gap(V)) /\ Len(Slices(a, b, p)) = Len(p) - 1
    BY <2>1, SliceType
  <2> QED
    BY <1>0, <2>2
<1>2. /\ g.before = SubSeq(a, p[n + 1][1] + 1, p[n + 2][1] - 1) /\ g.before \in Seq(V)
      /\ g.after = SubSeq(b, p[n + 1][2] + 1, p[n + 2][2] - 1) /\ g.after \in Seq(V)
  <2>1. n + 1 \in 1..(Len(p) - 1) /\ (n + 1) + 1 = n + 2
    BY <1>0
  <2>2. IsLadder(a, b, p) /\ a \in Seq(V) /\ b \in Seq(V)
    OBVIOUS
  <2>3. \A i \in 1..(Len(p) - 1) :
          /\ Slices(a, b, p)[i].before = SubSeq(a, p[i][1] + 1, p[i + 1][1] - 1)
          /\ Slices(a, b, p)[i].after = SubSeq(b, p[i][2] + 1, p[i + 1][2] - 1)
          /\ SubSeq(a, p[i][1] + 1, p[i + 1][1] - 1) \in Seq(V)
          /\ SubSeq(b, p[i][2] + 1, p[i + 1][2] - 1) \in Seq(V)
    BY <2>2, SliceType
  <2> QED
    BY <2>1, <2>3
<1> HIDE DEF sl
<1>3. g \in Gap(V) /\ s \in Seq(Gap(V)) /\ t = Append(s, g)
  <2>1. \A i \in 1..k : sl[i] \in Gap(V)
    BY <1>1, ElementOfSeq
  <2>2. g \in Gap(V)
    BY <1>0, <2>1
  <2>3. s \in Seq(Gap(V))
    <3>1. 1 \in Int /\ n \in Int /\ \A i \in 1..n : i \in 1..k
      BY <1>0
    <3> QED
      BY <2>1, <3>1, SubSeqProperties
  <2>4. t = s \o <<g>>
    <3>1. 1 \in 1..Len(sl) /\ n + 1 \in 1..Len(sl) /\ (n + 1) - 1 = n
      BY <1>0, <1>1
    <3> QED
      BY <1>1, <3>1, SubSeqRecursiveSecond
  <2>5. Append(s, g) = s \o <<g>>
    BY <2>2, <2>3, AppendIsConcat
  <2> QED
    BY <2>2, <2>3, <2>4, <2>5
<1> HIDE DEF g, s, t
<1> DEFINE js == Joined(BeforeOf(V), s)  ks == Joined(AfterOf(V), s)
           gb == g.before  ga == g.after
<1>4. /\ Joined(BeforeOf(V), t) = js \o gb /\ js \in Seq(V) /\ gb \in Seq(V)
      /\ Joined(AfterOf(V), t) = ks \o ga /\ ks \in Seq(V) /\ ga \in Seq(V)
  <2>1. Joined(BeforeOf(V), Append(s, g)) = Joined(BeforeOf(V), s) \o BeforeOf(V)[g]
    BY <1>3, SidesMap, JoinedAppend
  <2>2. Joined(AfterOf(V), Append(s, g)) = Joined(AfterOf(V), s) \o AfterOf(V)[g]
    BY <1>3, SidesMap, JoinedAppend
  <2>3. js \in Seq(V) /\ ks \in Seq(V)
    BY <1>3, SidesMap, JoinedType
  <2> QED
    BY <1>3, <2>1, <2>2, <2>3, SidesMap
<1> HIDE DEF js, ks, gb, ga
<1>5. Mu(f, x, js \o gb) = Mu(f, x, js) + Mu(f, x, gb) /\ Mu(f, x, js) \in Nat
  BY <1>4, MuConcat
<1>6. Mu(f, x, ks \o ga) = Mu(f, x, ks) + Mu(f, x, ga) /\ Mu(f, x, ks) \in Nat
  BY <1>4, MuConcat
<1>7. Mu(f, x, gb) \in Nat /\ Mu(f, x, ga) \in Nat
  BY <1>4, MuConcat
<1>8. /\ Took(V, f, x, a, b, p, n) = Mu(f, x, js)
      /\ Took(V, f, x, a, b, p, n + 1) = Mu(f, x, js \o gb)
      /\ Brought(V, f, x, a, b, p, n) = Mu(f, x, ks)
      /\ Brought(V, f, x, a, b, p, n + 1) = Mu(f, x, ks \o ga)
  BY <1>4 DEF Took, Brought, js, ks, s, t, sl
<1> QED
  BY <1>2, <1>5, <1>6, <1>7, <1>8 DEF gb, ga, Between

\* The prefixes up to a rung differ by what the gaps before it took and brought.
LEMMA RungBalance ==
  ASSUME NEW V, NEW U, NEW f, IsMap(f, V, Seq(U)), NEW x,
         NEW a \in Seq(V), NEW b \in Seq(V), NEW p, IsLadder(a, b, p),
         NEW n \in 1..Len(p)
  PROVE  /\ Upto(f, x, b, p[n][2]) + Took(V, f, x, a, b, p, n - 1)
            = Upto(f, x, a, p[n][1]) + Brought(V, f, x, a, b, p, n - 1)
         /\ Upto(f, x, b, p[n][2]) \in Nat
         /\ Upto(f, x, a, p[n][1]) \in Nat
         /\ Took(V, f, x, a, b, p, n - 1) \in Nat /\ Brought(V, f, x, a, b, p, n - 1) \in Nat
<1> DEFINE A(i) == Upto(f, x, a, p[i + 1][1])
           B(i) == Upto(f, x, b, p[i + 1][2])
           t(i) == Took(V, f, x, a, b, p, i)
           r(i) == Brought(V, f, x, a, b, p, i)
           c(i) == Between(f, x, a, p[i + 1][1], p[i + 2][1])
           d(i) == Between(f, x, b, p[i + 1][2], p[i + 2][2])
           Good(i) == /\ B(i) + t(i) = A(i) + r(i)
                      /\ A(i) \in Nat /\ B(i) \in Nat /\ t(i) \in Nat /\ r(i) \in Nat
           T == {i \in Nat : i < Len(p) => Good(i)}
<1>0. PICK k \in Nat : k = Len(p) /\ k >= 2
  <2>1. Len(p) >= 2 /\ p \in Seq(Nat \X Nat)
    BY DEF IsLadder
  <2> QED
    BY <2>1, LenProperties
<1>m. ASSUME NEW i \in Nat, i + 1 < k
      PROVE  /\ t(i + 1) = t(i) + c(i) /\ r(i + 1) = r(i) + d(i)
             /\ t(i) \in Nat /\ r(i) \in Nat /\ c(i) \in Nat /\ d(i) \in Nat
  <2>1. IsMap(f, V, Seq(U)) /\ IsLadder(a, b, p) /\ a \in Seq(V) /\ b \in Seq(V)
    OBVIOUS
  <2>2. i + 1 < Len(p)
    BY <1>0, <1>m
  <2>3. t(i + 1) = t(i) + c(i)
    BY <2>1, <2>2, TookMore, SMTT(30)
  <2>5. r(i + 1) = r(i) + d(i)
    BY <2>1, <2>2, TookMore, SMTT(30)
  <2>4. t(i) \in Nat /\ r(i) \in Nat
    BY <2>1, <2>2, TookMore, SMTT(30)
  <2>6. c(i) \in Nat /\ d(i) \in Nat
    <3> HIDE DEF t, r
    <3>1. \A j \in Nat : j + 1 < Len(p) => c(j) \in Nat /\ d(j) \in Nat
      BY <2>1, TookMore, ZenonT(30)
    <3> QED
      BY <2>2, <3>1
  <2> QED
    BY <2>3, <2>4, <2>5, <2>6
<1>f. p[1][1] = 0 /\ p[1][2] = 0
  BY DEF IsLadder
<1>1. Good(0)
  <2>1. SubSeq(a, 1, p[1][1] - 1) = <<>> /\ SubSeq(b, 1, p[1][2] - 1) = <<>>
    <3>1. 1 \in Int /\ 0 - 1 \in Int /\ 0 - 1 < 1
      OBVIOUS
    <3>2. SubSeq(a, 1, 0 - 1) = <<>> /\ SubSeq(b, 1, 0 - 1) = <<>>
      BY <3>1, SubSeqEmpty
    <3> QED
      BY <1>f, <3>2
  <2>2. A(0) = 0 /\ B(0) = 0
    <3>1. Mu(f, x, <<>>) = 0 /\ 0 + 1 = 1
      BY MuNone
    <3> QED
      BY <2>1, <3>1 DEF Upto
  <2>3. t(0) = 0 /\ r(0) = 0
    <3>1. SubSeq(Slices(a, b, p), 1, 0) = <<>>
      BY SubSeqEmpty
    <3> QED
      BY <3>1, JoinedEmpty, MuNone DEF Took, Brought
  <2> HIDE DEF A, B, t, r
  <2> QED
    BY <2>2, <2>3
<1>2. ASSUME NEW i \in Nat, Good(i), i + 1 < k PROVE Good(i + 1)
  <2>1. PICK u \in Nat, v \in Nat, y \in Nat, z \in Nat :
          /\ u = p[i + 1][1] /\ v = p[i + 1][2] /\ y = p[i + 2][1] /\ z = p[i + 2][2]
          /\ u < y /\ v < z /\ y <= Len(a) + 1 /\ z <= Len(b) + 1
    <3>1. i + 1 \in 1..(Len(p) - 1) /\ (i + 1) + 1 = i + 2
      BY <1>0, <1>2
    <3>2. IsLadder(a, b, p) /\ a \in Seq(V) /\ b \in Seq(V)
      OBVIOUS
    <3> DEFINE j == i + 1
    <3>3. j \in 1..(Len(p) - 1) /\ j + 1 = i + 2
      BY <3>1
    <3> HIDE DEF j
    <3>4. /\ p[j][1] < p[j + 1][1] /\ p[j + 1][1] <= Len(a) + 1
          /\ p[j][2] < p[j + 1][2] /\ p[j + 1][2] <= Len(b) + 1
          /\ p[j][1] \in Nat /\ p[j][2] \in Nat
          /\ p[j + 1][1] \in Nat /\ p[j + 1][2] \in Nat
      BY <3>2, <3>3, RungBounds
    <3> QED
      BY <3>3, <3>4 DEF j
  <2>2. CASE i = 0
    <3>1. u = 0 /\ v = 0
      BY <1>f, <2>1, <2>2
    <3>2. A(1) = c(0) /\ B(1) = d(0)
      <4>1. 0 + 1 = 1 /\ 0 + 2 = 2 /\ 1 + 1 = 2
        OBVIOUS
      <4> QED
        BY <1>f, <4>1 DEF Upto, Between
    <3>3. t(1) = t(0) + c(0) /\ r(1) = r(0) + d(0) /\ c(0) \in Nat /\ d(0) \in Nat
      BY <1>2, <2>2, <1>m
    <3>4. t(0) = 0 /\ r(0) = 0
      <4>1. SubSeq(Slices(a, b, p), 1, 0) = <<>>
        BY SubSeqEmpty
      <4> QED
        BY <4>1, JoinedEmpty, MuNone DEF Took, Brought
    <3> HIDE DEF A, B, t, r, c, d
    <3>5. Good(1)
      BY <3>2, <3>3, <3>4
    <3>6. i + 1 = 1
      BY <2>2
    <3> HIDE DEF Good
    <3> QED
      BY <3>5, <3>6
  <2>3. CASE i # 0
    <3>1. i + 1 \in 2..(Len(p) - 1)
      BY <1>0, <1>2, <2>3
    <3>2. a[u] = b[v]
      BY <2>1, <3>1 DEF IsLadder
    <3>3. 1 <= u /\ 1 <= v
      <4>1. i \in 1..(Len(p) - 1)
        BY <1>0, <1>2, <2>3
      <4>2. PICK g \in Nat, h \in Nat : g < u /\ h < v
        BY <2>1, <4>1, RungBounds
      <4> QED
        BY <4>2
    <3> DEFINE e == At(f, x, a, u)
    <3>4. A(i + 1) = A(i) + e + c(i) /\ A(i) \in Nat /\ e \in Nat /\ c(i) \in Nat
      <4>1. (i + 1) + 1 = i + 2
        OBVIOUS
      <4>2. /\ IsMap(f, V, Seq(U)) /\ a \in Seq(V) /\ u \in Nat /\ y \in Nat
            /\ 1 <= u /\ u < y /\ y <= Len(a) + 1
        BY <2>1, <3>3
      <4>3. /\ Upto(f, x, a, y) = Upto(f, x, a, u) + At(f, x, a, u) + Between(f, x, a, u, y)
            /\ Upto(f, x, a, u) \in Nat /\ At(f, x, a, u) \in Nat
            /\ Between(f, x, a, u, y) \in Nat
        BY <4>2, PrefixGrows
      <4> QED
        BY <2>1, <4>1, <4>3
    <3>5. B(i + 1) = B(i) + e + d(i) /\ B(i) \in Nat /\ d(i) \in Nat
      <4>1. (i + 1) + 1 = i + 2
        OBVIOUS
      <4>2. /\ IsMap(f, V, Seq(U)) /\ b \in Seq(V) /\ v \in Nat /\ z \in Nat
            /\ 1 <= v /\ v < z /\ z <= Len(b) + 1
        BY <2>1, <3>3
      <4>3. /\ Upto(f, x, b, z) = Upto(f, x, b, v) + At(f, x, b, v) + Between(f, x, b, v, z)
            /\ Upto(f, x, b, v) \in Nat /\ At(f, x, b, v) \in Nat
            /\ Between(f, x, b, v, z) \in Nat
        BY <4>2, PrefixGrows
      <4>4. At(f, x, b, v) = e
        BY <3>2 DEF At
      <4> QED
        BY <2>1, <4>1, <4>3, <4>4
    <3>6. t(i + 1) = t(i) + c(i) /\ r(i + 1) = r(i) + d(i)
      BY <1>2, <1>m
    <3>7. B(i) + t(i) = A(i) + r(i) /\ t(i) \in Nat /\ r(i) \in Nat
      BY <1>2
    <3> HIDE DEF A, B, t, r, c, d, e
    <3>8. PICK a0 \in Nat, b0 \in Nat, t0 \in Nat, r0 \in Nat, c0 \in Nat, d0 \in Nat, e0 \in Nat :
            /\ a0 = A(i) /\ b0 = B(i) /\ t0 = t(i) /\ r0 = r(i)
            /\ c0 = c(i) /\ d0 = d(i) /\ e0 = e
      BY <3>4, <3>5, <3>7
    <3>9. /\ A(i + 1) = a0 + e0 + c0 /\ B(i + 1) = b0 + e0 + d0
          /\ t(i + 1) = t0 + c0 /\ r(i + 1) = r0 + d0 /\ b0 + t0 = a0 + r0
      BY <3>4, <3>5, <3>6, <3>7, <3>8
    <3> QED
      BY <3>9
  <2> QED
    BY <2>2, <2>3
<1> HIDE DEF Good
<1>3. 0 \in T
  BY <1>1
<1>4. ASSUME NEW i \in T PROVE i + 1 \in T
  <2>1. i \in Nat /\ (i < k => Good(i))
    BY <1>0
  <2>2. i + 1 < k => Good(i + 1)
    BY <1>2, <2>1
  <2> QED
    BY <1>0, <2>1, <2>2
<1>5. T \in SUBSET Nat
  OBVIOUS
<1> HIDE DEF T
<1>6. \A i \in Nat : i \in T
  BY <1>3, <1>4, <1>5, AllNat
<1>7. Good(n - 1) /\ (n - 1) + 1 = n
  <2>1. n - 1 \in Nat /\ n - 1 < Len(p) /\ (n - 1) + 1 = n
    BY <1>0
  <2> QED
    BY <1>6, <2>1 DEF T
<1> QED
  BY <1>7 DEF Good

\* Balance: what f makes of b has x as much more often than what it makes of
\* a, as what it makes of the gaps' new sides has than of their old ones.
LEMMA GapsBalance ==
  ASSUME NEW V, NEW U, NEW f, IsMap(f, V, Seq(U)), NEW x,
         NEW a \in Seq(V), NEW b \in Seq(V)
  PROVE  /\ Mu(f, x, b) + Mu(f, x, Befores(Gaps(a, b)))
            = Mu(f, x, a) + Mu(f, x, Afters(Gaps(a, b)))
         /\ Mu(f, x, a) \in Nat /\ Mu(f, x, b) \in Nat
         /\ Mu(f, x, Befores(Gaps(a, b))) \in Nat /\ Mu(f, x, Afters(Gaps(a, b))) \in Nat
<1> DEFINE p == Fenced(a, b)
           sl == Slices(a, b, p)
<1>0. PICK k \in Nat, la \in Nat, lb \in Nat :
        k = Len(p) /\ k >= 2 /\ la = Len(a) /\ lb = Len(b)
  <2>1. Len(p) >= 2 /\ p \in Seq(Nat \X Nat)
    BY FencedLadder DEF IsLadder
  <2>2. Len(p) \in Nat /\ Len(a) \in Nat /\ Len(b) \in Nat
    BY <2>1, LenProperties
  <2> QED
    BY <2>1, <2>2
<1>1. IsLadder(a, b, p)
  BY FencedLadder
<1>2. sl \in Seq(Gap(V)) /\ Len(sl) = k - 1
  BY <1>0, <1>1, SliceType
<1>3. Gaps(a, b) = Without(sl, {NoGap}) /\ Gaps(a, b) \in Seq(Gap(V))
  BY GapsAre
<1> HIDE DEF p, sl
<1>4. p[k][1] = la + 1 /\ p[k][2] = lb + 1
  BY <1>0, <1>1 DEF IsLadder
<1>5. SubSeq(a, 1, p[k][1] - 1) = a /\ SubSeq(b, 1, p[k][2] - 1) = b
  <2>1. (la + 1) - 1 = Len(a) /\ (lb + 1) - 1 = Len(b)
    BY <1>0
  <2>2. SubSeq(a, 1, Len(a)) = a /\ SubSeq(b, 1, Len(b)) = b
    BY SubSeqFull
  <2> QED
    BY <1>4, <2>1, <2>2
<1>6. SubSeq(sl, 1, k - 1) = sl
  BY <1>2, SubSeqFull
<1>7. /\ Joined(BeforeOf(V), Without(sl, {NoGap})) = Joined(BeforeOf(V), sl)
      /\ Joined(AfterOf(V), Without(sl, {NoGap})) = Joined(AfterOf(V), sl)
  <2>1. \A v \in Gap(V) : v \in {NoGap} => BeforeOf(V)[v] = <<>> /\ AfterOf(V)[v] = <<>>
    BY SidesMap DEF NoGap
  <2>2. Joined(BeforeOf(V), Without(sl, {NoGap})) = Joined(BeforeOf(V), sl)
    BY <1>2, <2>1, SidesMap, JoinedWithout
  <2>3. Joined(AfterOf(V), Without(sl, {NoGap})) = Joined(AfterOf(V), sl)
    BY <1>2, <2>1, SidesMap, JoinedWithout
  <2> QED
    BY <2>2, <2>3
<1>8. /\ Took(V, f, x, a, b, p, k - 1) = Mu(f, x, Befores(Gaps(a, b)))
      /\ Brought(V, f, x, a, b, p, k - 1) = Mu(f, x, Afters(Gaps(a, b)))
  <2>1. /\ Befores(Gaps(a, b)) = Joined(BeforeOf(V), sl)
        /\ Afters(Gaps(a, b)) = Joined(AfterOf(V), sl)
    BY <1>3, <1>7, SidesJoined
  <2> QED
    BY <1>6, <2>1 DEF Took, Brought, sl
<1>9. k \in 1..Len(p)
  BY <1>0
<1>10. /\ Mu(f, x, b) + Took(V, f, x, a, b, p, k - 1)
          = Mu(f, x, a) + Brought(V, f, x, a, b, p, k - 1)
       /\ Mu(f, x, b) \in Nat /\ Mu(f, x, a) \in Nat
       /\ Took(V, f, x, a, b, p, k - 1) \in Nat /\ Brought(V, f, x, a, b, p, k - 1) \in Nat
  <2>1. IsMap(f, V, Seq(U)) /\ a \in Seq(V) /\ b \in Seq(V) /\ IsLadder(a, b, p)
    BY <1>1
  <2>2. /\ Upto(f, x, b, p[k][2]) + Took(V, f, x, a, b, p, k - 1)
           = Upto(f, x, a, p[k][1]) + Brought(V, f, x, a, b, p, k - 1)
        /\ Upto(f, x, b, p[k][2]) \in Nat
        /\ Upto(f, x, a, p[k][1]) \in Nat
        /\ Took(V, f, x, a, b, p, k - 1) \in Nat /\ Brought(V, f, x, a, b, p, k - 1) \in Nat
    BY <2>1, <1>9, RungBalance
  <2> QED
    BY <1>5, <2>2 DEF Upto
<1> QED
  BY <1>8, <1>10

\* A sequence matches itself all along.
LEMMA MatchedSelf ==
  ASSUME NEW V, NEW a \in Seq(V)
  PROVE  /\ Len(Matched(a, a)) = Len(a)
         /\ \A n \in 1..Len(a) : Matched(a, a)[n] = <<n, n>>
<1> DEFINE w == Whole(a, a)
           m == BlockOf(a, a, w)
<1>0. PICK k \in Nat : k = Len(a)
  BY LenProperties
<1>w. w \in Windows(a, a) /\ w.la = 1 /\ w.ha = k /\ w.lb = 1 /\ w.hb = k
  BY <1>0 DEF Whole, Windows
<1>1. PICK M : IsMatch(a, a, M) /\ Matched(a, a) = M[w]
  BY MatchedIs
<1> HIDE DEF w, m
<1>2. M[w] = Parts(a, a, M, w)
  BY <1>1, <1>w, MatchAt
<1>3. CASE k = 0
  <2>1. BlockOf(a, a, w).k = 0
    <3>1. Size(w) <= 0
      BY <1>w, <1>3 DEF Size
    <3> QED
      BY <1>w, <3>1, NoRoom
  <2>2. Matched(a, a) = <<>>
    BY <1>1, <1>2, <2>1 DEF Parts
  <2> QED
    BY <1>0, <1>3, <2>2
<1>4. CASE k # 0
  <2> DEFINE o == [i |-> 1, j |-> 1, k |-> k]
  <2>1. o \in [i : 1..k, j : 1..k, k : 1..Len(a)] /\ IsCommon(a, a, 1, k, 1, k, o)
    BY <1>0, <1>4 DEF IsCommon
  <2>2. m.k # 0 /\ k <= m.k
    <3> DEFINE c == Block(a, a, 1, k, 1, k)
    <3>1. \/ /\ c.k = 0
             /\ \A x \in [i : 1..k, j : 1..k, k : 1..Len(a)] : ~IsCommon(a, a, 1, k, 1, k, x)
          \/ /\ IsCommon(a, a, 1, k, 1, k, c)
             /\ \A x \in [i : 1..k, j : 1..k, k : 1..Len(a)] :
                  IsCommon(a, a, 1, k, 1, k, x) => x.k <= c.k
      <4>1. Len(a) \in Nat /\ 1 \in Nat
        BY <1>0
      <4> HIDE DEF c
      <4> QED
        BY <4>1, BlockLongest DEF c
    <3>2. m = c
      BY <1>w DEF m, BlockOf
    <3>3. o.k = k
      OBVIOUS
    <3> HIDE DEF c, o
    <3>4. IsCommon(a, a, 1, k, 1, k, c) /\ k <= c.k
      BY <2>1, <3>1, <3>3
    <3>5. c.k \in 1..Len(a)
      BY <3>4 DEF IsCommon
    <3> QED
      BY <1>0, <3>2, <3>4, <3>5
  <2>3. /\ m.i \in Nat /\ m.j \in Nat /\ m.k \in Nat
        /\ 1 <= m.i /\ m.i + m.k - 1 <= k /\ 1 <= m.j /\ m.j + m.k - 1 <= k
    BY <1>w, <2>2, BlockInWindow DEF m
  <2>4. m.i = 1 /\ m.j = 1 /\ m.k = k
    <3>1. PICK i \in Nat, j \in Nat, l \in Nat : i = m.i /\ j = m.j /\ l = m.k
      BY <2>3
    <3> QED
      BY <2>2, <2>3, <3>1
  <2> DEFINE l == LeftOf(w, m)  r == RightOf(w, m)
  <2>5. /\ l \in Windows(a, a) /\ l.la = 1 /\ l.ha = 0
        /\ r \in Windows(a, a) /\ r.la = 1 + k /\ r.ha = k
    <3>1. 1 - 1 = 0
      OBVIOUS
    <3> QED
      BY <1>w, <2>2, <2>4, <3>1, LeftWindow, RightWindow DEF m
  <2>6. M[l] = <<>> /\ M[r] = <<>>
    <3> HIDE DEF l, r
    <3>1. Size(l) <= 0 /\ Size(r) <= 0
      BY <2>5 DEF Size
    <3>2. BlockOf(a, a, l).k = 0 /\ BlockOf(a, a, r).k = 0
      BY <2>5, <3>1, NoRoom
    <3>3. M[l] = Parts(a, a, M, l) /\ M[r] = Parts(a, a, M, r)
      BY <1>1, <2>5, MatchAt
    <3> QED
      BY <3>2, <3>3 DEF Parts
  <2>7. Matched(a, a) = M[l] \o Diagonal(m) \o M[r]
    BY <1>1, <1>2, <2>2 DEF Parts, m
  <2>8. /\ Diagonal(m) \in Seq(Nat \X Nat) /\ Len(Diagonal(m)) = m.k
        /\ \A n \in 1..m.k : Diagonal(m)[n] = <<m.i + n - 1, m.j + n - 1>>
    BY <2>3, DiagonalType
  <2>9. Matched(a, a) = Diagonal(m)
    <3> DEFINE d == Diagonal(m)
    <3>1. d \in Seq(Nat \X Nat)
      BY <2>8
    <3> HIDE DEF d
    <3>2. <<>> \o d = d /\ d \o <<>> = d
      BY <3>1, ConcatEmptySeq
    <3> QED
      BY <2>6, <2>7, <3>2 DEF d
  <2>10. \A n \in 1..k : Diagonal(m)[n] = <<n, n>>
    <3> TAKE n \in 1..k
    <3>1. 1 + n - 1 = n
      OBVIOUS
    <3> QED
      BY <2>4, <2>8, <3>1
  <2> QED
    BY <1>0, <2>4, <2>8, <2>9, <2>10
<1> QED
  BY <1>3, <1>4

\* The rungs of a sequence against itself, and of nothing but matches.
LEMMA FencedSelf ==
  ASSUME NEW V, NEW a \in Seq(V)
  PROVE  \A n \in 1..Len(Fenced(a, a)) :
           Fenced(a, a)[n][1] = n - 1 /\ Fenced(a, a)[n][2] = n - 1
<1> DEFINE s == Matched(a, a)
           x == <<<<0, 0>>>>
           y == <<<<Len(a) + 1, Len(a) + 1>>>>
           W == Nat \X Nat
<1>0. PICK k \in Nat : k = Len(a)
  BY LenProperties
<1>1. s \in Seq(W) /\ Len(s) = k /\ \A n \in 1..k : s[n] = <<n, n>>
  <2>1. s \in Seq(W)
    BY MatchedPath DEF IsPath
  <2> QED
    BY <1>0, <2>1, MatchedSelf
<1>2. /\ x \in Seq(W) /\ Len(x) = 1 /\ x[1] = <<0, 0>>
      /\ y \in Seq(W) /\ Len(y) = 1 /\ y[1] = <<k + 1, k + 1>>
  BY <1>0
<1> HIDE DEF s, x, y, W
<1> DEFINE z == x \o s
<1>3. /\ z \in Seq(W) /\ Len(z) = Len(x) + Len(s)
      /\ \A n \in 1..Len(x) : z[n] = x[n]
      /\ \A n \in 1..Len(s) : z[Len(x) + n] = s[n]
  <2>1. x \in Seq(W) /\ s \in Seq(W)
    BY <1>1, <1>2
  <2>2. x \o s \in Seq(W)
    BY <2>1, ConcatAt
  <2> QED
    BY <2>1, <2>2, ConcatAt
<1> HIDE DEF z
<1> DEFINE p == z \o y
<1>4. /\ p \in Seq(W) /\ Len(p) = Len(z) + Len(y)
      /\ \A n \in 1..Len(z) : p[n] = z[n]
      /\ \A n \in 1..Len(y) : p[Len(z) + n] = y[n]
  <2>1. z \in Seq(W) /\ y \in Seq(W)
    BY <1>2, <1>3
  <2>2. z \o y \in Seq(W)
    BY <2>1, ConcatAt
  <2> QED
    BY <2>1, <2>2, ConcatAt
<1> HIDE DEF p
<1>5. Len(z) = 1 + k /\ Len(p) = 1 + k + 1
  BY <1>1, <1>2, <1>3, <1>4
<1>6. ASSUME NEW n \in 1..Len(p) PROVE p[n][1] = n - 1 /\ p[n][2] = n - 1
  <2>1. CASE n = 1
    <3>1. 1 \in 1..Len(x) /\ 1 \in 1..Len(z) /\ 1 - 1 = 0
      BY <1>2, <1>5
    <3>2. p[1] = <<0, 0>>
      BY <1>2, <1>3, <1>4, <3>1
    <3> QED
      BY <2>1, <3>1, <3>2
  <2>2. CASE n # 1 /\ n # 1 + k + 1
    <3>1. PICK j \in 1..k : n = 1 + j /\ n - 1 = j /\ n \in 1..Len(z)
      <4>1. n - 1 \in 1..k /\ n = 1 + (n - 1) /\ n \in 1..Len(z)
        BY <1>5, <2>2
      <4> QED
        BY <4>1
    <3>2. p[n] = z[n] /\ z[n] = s[j] /\ s[j] = <<j, j>>
      BY <1>1, <1>2, <1>3, <1>4, <3>1
    <3> QED
      BY <3>1, <3>2
  <2>3. CASE n = 1 + k + 1
    <3>1. 1 \in 1..Len(y) /\ Len(z) + 1 = n /\ n - 1 = k + 1
      BY <1>2, <1>5, <2>3
    <3>2. p[n] = <<k + 1, k + 1>>
      BY <1>2, <1>4, <3>1
    <3> QED
      BY <3>1, <3>2
  <2> QED
    BY <2>1, <2>2, <2>3
<1>7. p = Fenced(a, a)
  BY DEF p, z, x, y, s, Fenced
<1> QED
  BY <1>6, <1>7

\* Where nothing lies between the matches, the rungs are the places themselves.
LEMMA TightLadder ==
  ASSUME NEW V, NEW a \in Seq(V), NEW b \in Seq(V), NEW p, IsLadder(a, b, p),
         \A n \in 1..(Len(p) - 1) : /\ SubSeq(a, p[n][1] + 1, p[n + 1][1] - 1) = <<>>
                                    /\ SubSeq(b, p[n][2] + 1, p[n + 1][2] - 1) = <<>>
  PROVE  \A n \in 1..Len(p) : p[n][1] = n - 1 /\ p[n][2] = n - 1
<1>0. PICK k \in Nat : k = Len(p) /\ k >= 2
  <2>1. Len(p) >= 2 /\ p \in Seq(Nat \X Nat)
    BY DEF IsLadder
  <2> QED
    BY <2>1, LenProperties
<1>e. \A n \in 1..Len(a) : a[n] \in V
  BY ElementOfSeq
<1>g. \A n \in 1..Len(b) : b[n] \in V
  BY ElementOfSeq
<1>n. Len(a) \in Nat /\ Len(b) \in Nat
  BY LenProperties
<1>f. p[1][1] = 0 /\ p[1][2] = 0
  BY DEF IsLadder
<1>h. IsLadder(a, b, p) /\ a \in Seq(V) /\ b \in Seq(V)
  OBVIOUS
<1> DEFINE T == {i \in Nat : i < k => p[i + 1][1] = i /\ p[i + 1][2] = i}
<1>1. 0 \in T
  <2>1. 0 + 1 = 1
    OBVIOUS
  <2> QED
    BY <1>f, <2>1
<1>2. ASSUME NEW i \in T PROVE i + 1 \in T
  <2>0. i \in Nat /\ (i < k => p[i + 1][1] = i /\ p[i + 1][2] = i)
    OBVIOUS
  <2> SUFFICES ASSUME i + 1 < k
               PROVE  p[(i + 1) + 1][1] = i + 1 /\ p[(i + 1) + 1][2] = i + 1
    BY <2>0
  <2> HIDE DEF T
  <2> DEFINE j == i + 1
  <2>1. j \in 1..(Len(p) - 1) /\ j \in Nat
    BY <1>0, <2>0
  <2>2. p[j][1] = i /\ p[j][2] = i
    BY <2>0
  <2> HIDE DEF j
  <2>3. PICK y \in Nat, z \in Nat :
          /\ y = p[j + 1][1] /\ z = p[j + 1][2]
          /\ i < y /\ i < z /\ y <= Len(a) + 1 /\ z <= Len(b) + 1
    <3>1. /\ p[j][1] < p[j + 1][1] /\ p[j + 1][1] <= Len(a) + 1
          /\ p[j][2] < p[j + 1][2] /\ p[j + 1][2] <= Len(b) + 1
          /\ p[j + 1][1] \in Nat /\ p[j + 1][2] \in Nat
      BY <1>h, <2>1, RungBounds
    <3> QED
      BY <2>2, <3>1
  <2>4. SubSeq(a, i + 1, y - 1) = <<>> /\ SubSeq(b, i + 1, z - 1) = <<>>
    BY <2>1, <2>2, <2>3
  <2>5. y = i + 1
    <3>1. /\ i + 1 \in Int /\ y - 1 \in Int
          /\ \A x \in (i + 1)..(y - 1) : x \in 1..Len(a)
      BY <1>n, <2>0, <2>3
    <3>2. Len(SubSeq(a, i + 1, y - 1)) = IF i + 1 <= y - 1 THEN (y - 1) - (i + 1) + 1 ELSE 0
      BY <1>e, <3>1, SubSeqProperties
    <3>3. ~(i + 1 <= y - 1)
      <4> SUFFICES ASSUME i + 1 <= y - 1 PROVE FALSE
        OBVIOUS
      <4>1. (y - 1) - (i + 1) + 1 = 0
        BY <2>4, <3>2
      <4> QED
        BY <2>0, <2>3, <4>1
    <3> QED
      BY <2>0, <2>3, <3>3
  <2>6. z = i + 1
    <3>1. /\ i + 1 \in Int /\ z - 1 \in Int
          /\ \A x \in (i + 1)..(z - 1) : x \in 1..Len(b)
      BY <1>n, <2>0, <2>3
    <3>2. Len(SubSeq(b, i + 1, z - 1)) = IF i + 1 <= z - 1 THEN (z - 1) - (i + 1) + 1 ELSE 0
      BY <1>g, <3>1, SubSeqProperties
    <3>3. ~(i + 1 <= z - 1)
      <4> SUFFICES ASSUME i + 1 <= z - 1 PROVE FALSE
        OBVIOUS
      <4>1. (z - 1) - (i + 1) + 1 = 0
        BY <2>4, <3>2
      <4> QED
        BY <2>0, <2>3, <4>1
    <3> QED
      BY <2>0, <2>3, <3>3
  <2> QED
    BY <2>3, <2>5, <2>6 DEF j
<1>3. T \in SUBSET Nat
  OBVIOUS
<1> HIDE DEF T
<1>4. \A i \in Nat : i \in T
  BY <1>1, <1>2, <1>3, AllNat
<1> TAKE n \in 1..Len(p)
<1>5. n - 1 \in Nat /\ n - 1 < k /\ (n - 1) + 1 = n
  BY <1>0
<1> QED
  BY <1>4, <1>5 DEF T

\* The diff is empty for equal sequences only.
LEMMA GapsEmpty ==
  ASSUME NEW V, NEW a \in Seq(V), NEW b \in Seq(V)
  PROVE  Gaps(a, b) = <<>> <=> a = b
<1> DEFINE p == Fenced(a, b)
           sl == Slices(a, b, p)
           B(n) == SubSeq(a, p[n][1] + 1, p[n + 1][1] - 1)
           A(n) == SubSeq(b, p[n][2] + 1, p[n + 1][2] - 1)
<1>1. IsLadder(a, b, p)
  BY FencedLadder
<1>2. sl \in Seq(Gap(V)) /\ Len(sl) = Len(p) - 1
  BY <1>1, SliceType
<1>3. \A n \in 1..(Len(p) - 1) : sl[n].before = B(n) /\ sl[n].after = A(n)
  BY <1>1, SliceType
<1>4. Gaps(a, b) = Without(sl, {NoGap})
  BY GapsAre
<1> HIDE DEF p, sl, A, B
<1>5. Gaps(a, b) = <<>> <=> \A n \in 1..(Len(p) - 1) : B(n) = <<>> /\ A(n) = <<>>
  <2>1. Without(sl, {NoGap}) = <<>> <=> \A n \in 1..Len(sl) : sl[n] \in {NoGap}
    BY <1>2, WithoutAll
  <2>2. \A n \in 1..(Len(p) - 1) : sl[n] \in {NoGap} <=> B(n) = <<>> /\ A(n) = <<>>
    <3> TAKE n \in 1..(Len(p) - 1)
    <3>1. sl[n] \in Gap(V)
      BY <1>2, ElementOfSeq
    <3>2. sl[n] = [before |-> sl[n].before, after |-> sl[n].after]
      BY <3>1 DEF Gap
    <3> QED
      BY <1>3, <3>2 DEF NoGap
  <2> QED
    BY <1>2, <1>4, <2>1, <2>2
<1>n. PICK k \in Nat, la \in Nat, lb \in Nat :
        k = Len(p) /\ k >= 2 /\ la = Len(a) /\ lb = Len(b)
  <2>1. Len(p) >= 2 /\ p \in Seq(Nat \X Nat)
    BY <1>1 DEF IsLadder
  <2>2. Len(p) \in Nat /\ Len(a) \in Nat /\ Len(b) \in Nat
    BY <2>1, LenProperties
  <2> QED
    BY <2>1, <2>2
<1>6. ASSUME a = b PROVE \A n \in 1..(Len(p) - 1) : B(n) = <<>> /\ A(n) = <<>>
  <2> TAKE n \in 1..(Len(p) - 1)
  <2>1. \A i \in 1..Len(p) : p[i][1] = i - 1 /\ p[i][2] = i - 1
    BY <1>6, FencedSelf DEF p
  <2>2. n \in 1..Len(p) /\ n + 1 \in 1..Len(p) /\ (n - 1) + 1 = n /\ ((n + 1) - 1) - 1 = n - 1
    BY <1>n
  <2>3. n \in Int /\ n - 1 \in Int /\ n - 1 < n
    OBVIOUS
  <2>4. SubSeq(a, n, n - 1) = <<>> /\ SubSeq(b, n, n - 1) = <<>>
    BY <2>3, SubSeqEmpty
  <2>5. /\ p[n][1] + 1 = n /\ p[n][2] + 1 = n
        /\ p[n + 1][1] - 1 = n - 1 /\ p[n + 1][2] - 1 = n - 1
    BY <2>1, <2>2
  <2> QED
    BY <2>4, <2>5 DEF A, B
<1>7. ASSUME \A n \in 1..(Len(p) - 1) : B(n) = <<>> /\ A(n) = <<>> PROVE a = b
  <2>1. \A n \in 1..Len(p) : p[n][1] = n - 1 /\ p[n][2] = n - 1
    BY <1>1, <1>7, TightLadder DEF A, B
  <2>2. p[k][1] = la + 1 /\ p[k][2] = lb + 1
    BY <1>1, <1>n DEF IsLadder
  <2>3. la = lb /\ k = la + 2
    BY <1>n, <2>1, <2>2
  <2>4. ASSUME NEW i \in 1..la PROVE a[i] = b[i]
    <3>1. i + 1 \in 2..(Len(p) - 1) /\ i + 1 \in 1..Len(p) /\ (i + 1) - 1 = i
      BY <1>n, <2>3
    <3>2. a[p[i + 1][1]] = b[p[i + 1][2]]
      BY <1>1, <3>1 DEF IsLadder
    <3> QED
      BY <2>1, <3>1, <3>2
  <2> QED
    BY <1>n, <2>3, <2>4, SeqEqual
<1> QED
  BY <1>5, <1>6, <1>7

\* Each member of V as a sequence of its own: joining these gives s back.
One(V) == [v \in V |-> <<v>>]

LEMMA OneMaps ==
  ASSUME NEW V
  PROVE  IsMap(One(V), V, Seq(V))
BY DEF IsMap, One

LEMMA JoinedOnes ==
  ASSUME NEW V, NEW s \in Seq(V)
  PROVE  Joined(One(V), s) = s
<1> DEFINE T == {r \in Seq(V) : Joined(One(V), r) = r}
<1>1. <<>> \in T
  BY JoinedEmpty, EmptySeq
<1>2. ASSUME NEW r \in T, NEW e \in V PROVE Append(r, e) \in T
  <2>1. r \in Seq(V) /\ Joined(One(V), r) = r
    OBVIOUS
  <2> HIDE DEF T
  <2>2. Joined(One(V), Append(r, e)) = Joined(One(V), r) \o One(V)[e]
    <3> DEFINE f == One(V)
    <3>1. IsMap(f, V, Seq(V))
      BY OneMaps
    <3> HIDE DEF f
    <3>2. Joined(f, Append(r, e)) = Joined(f, r) \o f[e]
      BY <2>1, <3>1, JoinedAppend
    <3> QED
      BY <3>2 DEF f
  <2>3. Append(r, e) = r \o <<e>> /\ Append(r, e) \in Seq(V)
    BY <2>1, AppendIsConcat, AppendProperties
  <2>4. One(V)[e] = <<e>>
    BY DEF One
  <2> QED
    BY <2>1, <2>2, <2>3, <2>4 DEF T
<1>3. T \in SUBSET Seq(V)
  OBVIOUS
<1> HIDE DEF T
<1>4. s \in T
  BY <1>1, <1>2, <1>3, AllSeq
<1> QED
  BY <1>4 DEF T

LEMMA GapsBalanceOnes ==
  ASSUME NEW V, NEW a \in Seq(V), NEW b \in Seq(V), NEW x
  PROVE  /\ Occurrences(x, b) + Occurrences(x, Befores(Gaps(a, b)))
            = Occurrences(x, a) + Occurrences(x, Afters(Gaps(a, b)))
         /\ Occurrences(x, a) \in Nat /\ Occurrences(x, b) \in Nat
         /\ Occurrences(x, Befores(Gaps(a, b))) \in Nat
         /\ Occurrences(x, Afters(Gaps(a, b))) \in Nat
<1> DEFINE f == One(V)  y == Befores(Gaps(a, b))  z == Afters(Gaps(a, b))
<1>1. IsMap(f, V, Seq(V))
  BY OneMaps
<1>2. y \in Seq(V) /\ z \in Seq(V)
  BY GapsAre
<1>3. /\ Mu(f, x, b) + Mu(f, x, y) = Mu(f, x, a) + Mu(f, x, z)
      /\ Mu(f, x, a) \in Nat /\ Mu(f, x, b) \in Nat /\ Mu(f, x, y) \in Nat /\ Mu(f, x, z) \in Nat
  <2> HIDE DEF f
  <2> QED
    BY <1>1, GapsBalance
<1> HIDE DEF y, z
<1>4. \A s \in Seq(V) : Mu(f, x, s) = Occurrences(x, s)
  BY JoinedOnes DEF Mu
<1> HIDE DEF f
<1>5. /\ Mu(f, x, a) = Occurrences(x, a) /\ Mu(f, x, b) = Occurrences(x, b)
      /\ Mu(f, x, y) = Occurrences(x, y) /\ Mu(f, x, z) = Occurrences(x, z)
  BY <1>2, <1>4
<1> QED
  BY <1>3, <1>5 DEF y, z

LEMMA UnitsType ==
  ASSUME NEW units \in Seq([text : Texts, hidden : BOOLEAN])
  PROVE  NormalizedUnits(TextsOf(units)) \in Seq(Texts)
<1>0. \A i \in DOMAIN units : units[i].text \in Texts
  <2>1. \A i \in DOMAIN units : units[i] \in [text : Texts, hidden : BOOLEAN]
    BY LenProperties, ElementOfSeq
  <2> QED
    BY <2>1
<1>1. PICK k \in Nat : DOMAIN units = 1..k
  BY LenProperties
<1> DEFINE t == TextsOf(units)
<1>2. DOMAIN t = 1..k /\ \A i \in 1..k : t[i] \in Texts
  BY <1>0, <1>1 DEF TextsOf
<1> HIDE DEF t
<1> DEFINE s == [i \in DOMAIN t |-> Normal[t[i]]]
<1>3. s \in Seq(Texts)
  BY <1>2, DiffAssumption
<1>4. NormalizedUnits(t) = Without(s, Blank)
  BY DEF NormalizedUnits
<1> HIDE DEF s
<1>5. Without(s, Blank) \in Seq(Texts)
  BY <1>3, WithoutType
<1> QED
  BY <1>4, <1>5 DEF t

\* The gap's sides are pieces of the two sequences.
Pieces(V, s) ==
  {r \in Seq(V) : r = <<>> \/ \E i, j \in DOMAIN s : r = SubSeq(s, i, j)}

LEMMA PieceOf ==
  ASSUME NEW V, NEW s \in Seq(V), NEW i \in Nat, NEW j \in Nat,
         j <= Len(s), 1 <= i, SubSeq(s, i, j) \in Seq(V)
  PROVE  SubSeq(s, i, j) \in Pieces(V, s)
<1>0. PICK k \in Nat : k = Len(s) /\ DOMAIN s = 1..k
  BY LenProperties
<1>1. CASE j < i
  BY <1>1, SubSeqEmpty DEF Pieces
<1>2. CASE i <= j
  <2>1. i \in DOMAIN s /\ j \in DOMAIN s
    BY <1>0, <1>2
  <2> QED
    BY <2>1 DEF Pieces
<1> QED
  BY <1>1, <1>2

LEMMA GapsInPieces ==
  ASSUME NEW V, NEW a \in Seq(V), NEW b \in Seq(V),
         NEW i \in 1..Len(Gaps(a, b))
  PROVE  Gaps(a, b)[i].before \in Pieces(V, a) /\ Gaps(a, b)[i].after \in Pieces(V, b)
<1> DEFINE p == Fenced(a, b)
           sl == Slices(a, b, p)
           U == {g \in Gap(V) : g.before \in Pieces(V, a) /\ g.after \in Pieces(V, b)}
<1>1. IsLadder(a, b, p)
  BY FencedLadder
<1> HIDE DEF p
<1>2. PICK k \in Nat : k = Len(sl) /\ k = Len(p) - 1 /\ sl \in Seq(Gap(V))
  <2>1. sl \in Seq(Gap(V)) /\ Len(sl) = Len(p) - 1
    BY <1>1, SliceType
  <2> QED
    BY <2>1, LenProperties
<1>3. ASSUME NEW n \in 1..k PROVE sl[n] \in U
  <2>1. PICK u \in Nat, v \in Nat, x \in Nat, y \in Nat :
          u = p[n][1] /\ v = p[n][2] /\ x = p[n + 1][1] /\ y = p[n + 1][2]
    BY <1>1, <1>2, RungBounds
  <2>2. /\ u < x /\ x <= Len(a) + 1 /\ v < y /\ y <= Len(b) + 1
        /\ Len(a) \in Nat /\ Len(b) \in Nat
    <3>1. /\ p[n][1] < p[n + 1][1] /\ p[n + 1][1] <= Len(a) + 1
          /\ p[n][2] < p[n + 1][2] /\ p[n + 1][2] <= Len(b) + 1
      BY <1>1, <1>2, RungBounds
    <3> QED
      BY <2>1, <3>1, LenProperties
  <2>3. /\ sl[n].before = SubSeq(a, u + 1, x - 1) /\ SubSeq(a, u + 1, x - 1) \in Seq(V)
        /\ sl[n].after = SubSeq(b, v + 1, y - 1) /\ SubSeq(b, v + 1, y - 1) \in Seq(V)
    <3>1. n \in 1..(Len(p) - 1)
      BY <1>2
    <3>2. /\ sl[n].before = SubSeq(a, p[n][1] + 1, p[n + 1][1] - 1)
          /\ sl[n].after = SubSeq(b, p[n][2] + 1, p[n + 1][2] - 1)
          /\ SubSeq(a, p[n][1] + 1, p[n + 1][1] - 1) \in Seq(V)
          /\ SubSeq(b, p[n][2] + 1, p[n + 1][2] - 1) \in Seq(V)
      BY <1>1, <3>1, SliceType
    <3> QED
      BY <2>1, <3>2
  <2>4. /\ u + 1 \in Nat /\ x - 1 \in Nat /\ 1 <= u + 1 /\ x - 1 <= Len(a)
        /\ v + 1 \in Nat /\ y - 1 \in Nat /\ 1 <= v + 1 /\ y - 1 <= Len(b)
    BY <2>2
  <2>5. sl[n].before \in Pieces(V, a)
    BY <2>3, <2>4, PieceOf
  <2>6. sl[n].after \in Pieces(V, b)
    BY <2>3, <2>4, PieceOf
  <2>7. sl[n] \in Gap(V)
    BY <1>2, ElementOfSeq
  <2> QED
    BY <2>5, <2>6, <2>7
<1>4. sl \in Seq(U)
  <2> HIDE DEF U, sl
  <2>1. PICK V2 : sl \in Seq(V2)
    BY <1>2
  <2>2. /\ Len(sl) = k /\ k \in Nat
        /\ \A n \in 1..Len(sl) : sl[n] \in U
    BY <1>2, <1>3
  <2> QED
    BY <2>1, <2>2
<1>5. Gaps(a, b) = Without(sl, {NoGap})
  BY GapsAre DEF p
<1> HIDE DEF sl, U
<1>6. Gaps(a, b) \in Seq(U)
  BY <1>4, <1>5, WithoutType
<1>7. Gaps(a, b)[i] \in U
  BY <1>6, ElementOfSeq
<1> QED
  BY <1>7 DEF U

\* The texts in which the numbers can be read, and the numbers of one.
Readable == {t \in Texts : Numbers(<<t>>) \in Seq(Nat)}

Nums == [t \in Readable |-> Numbers(<<t>>)]

\* The numbers of a slice are those of its texts.
Plain(slice) == Numbers(slice) = Joined(Nums, slice)

PlainGaps == {g \in Gap(Readable) : Plain(g.before) /\ Plain(g.after)}

\* The numeric evidence of a gap balances its two sides.
Evidence == [g \in PlainGaps |-> ChangedNumbers(g)]

LEMMA NumsMap == IsMap(Nums, Readable, Seq(Nat))
BY DEF IsMap, Nums, Readable

LEMMA EvidenceSound ==
  ASSUME NEW g, Numbers(g.before) \in Seq(Nat), Numbers(g.after) \in Seq(Nat), NEW x
  PROVE  /\ ChangedNumbers(g) \in Gap(Nat)
         /\ Occurrences(x, Numbers(g.after)) + Occurrences(x, ChangedNumbers(g).before)
            = Occurrences(x, Numbers(g.before)) + Occurrences(x, ChangedNumbers(g).after)
         /\ Occurrences(x, Numbers(g.before)) \in Nat
         /\ Occurrences(x, Numbers(g.after)) \in Nat
         /\ Occurrences(x, ChangedNumbers(g).before) \in Nat
         /\ Occurrences(x, ChangedNumbers(g).after) \in Nat
<1> DEFINE a == Numbers(g.before)  b == Numbers(g.after)
           y == Befores(Gaps(a, b))  z == Afters(Gaps(a, b))
<1>1. a \in Seq(Nat) /\ b \in Seq(Nat)
  OBVIOUS
<1>2. ChangedNumbers(g) = [before |-> y, after |-> z]
  BY DEF ChangedNumbers
<1> HIDE DEF a, b
<1>3. y \in Seq(Nat) /\ z \in Seq(Nat)
  BY <1>1, GapsAre
<1>4. /\ Occurrences(x, b) + Occurrences(x, y) = Occurrences(x, a) + Occurrences(x, z)
      /\ Occurrences(x, a) \in Nat /\ Occurrences(x, b) \in Nat
      /\ Occurrences(x, y) \in Nat /\ Occurrences(x, z) \in Nat
  BY <1>1, GapsBalanceOnes
<1> HIDE DEF y, z
<1>5. /\ ChangedNumbers(g) \in Gap(Nat)
      /\ ChangedNumbers(g).before = y /\ ChangedNumbers(g).after = z
  BY <1>2, <1>3 DEF Gap
<1> QED
  BY <1>4, <1>5 DEF a, b

LEMMA EvidenceOfGap ==
  ASSUME NEW g \in PlainGaps, NEW x
  PROVE  /\ Evidence[g] \in Gap(Nat)
         /\ Mu(Nums, x, g.after) + Occurrences(x, Evidence[g].before)
            = Mu(Nums, x, g.before) + Occurrences(x, Evidence[g].after)
         /\ Mu(Nums, x, g.before) \in Nat /\ Mu(Nums, x, g.after) \in Nat
         /\ Occurrences(x, Evidence[g].before) \in Nat
         /\ Occurrences(x, Evidence[g].after) \in Nat
<1>1. /\ g.before \in Seq(Readable) /\ g.after \in Seq(Readable)
      /\ Numbers(g.before) = Joined(Nums, g.before) /\ Numbers(g.after) = Joined(Nums, g.after)
  BY DEF PlainGaps, Plain, Gap
<1>2. Numbers(g.before) \in Seq(Nat) /\ Numbers(g.after) \in Seq(Nat)
  BY <1>1, NumsMap, JoinedType
<1>3. /\ Mu(Nums, x, g.before) = Occurrences(x, Numbers(g.before))
      /\ Mu(Nums, x, g.after) = Occurrences(x, Numbers(g.after))
  BY <1>1 DEF Mu
<1>4. Evidence[g] = ChangedNumbers(g)
  BY DEF Evidence
<1> QED
  BY <1>2, <1>3, <1>4, EvidenceSound

LEMMA EvidenceMaps == IsMap(Evidence, PlainGaps, Gap(Nat))
<1>1. \A g \in PlainGaps : Evidence[g] \in Gap(Nat)
  BY EvidenceOfGap
<1>2. Evidence = [g \in PlainGaps |-> Evidence[g]]
  BY DEF Evidence
<1> QED
  BY <1>1, <1>2 DEF IsMap

LEMMA MapAppend ==
  ASSUME NEW V, NEW W, NEW f, IsMap(f, V, W), NEW s \in Seq(V), NEW e \in V
  PROVE  Mapped(f, Append(s, e)) = Append(Mapped(f, s), f[e]) /\ f[e] \in W
<1>1. f[e] \in W
  BY DEF IsMap
<1>2. Mapped(f, s) \in Seq(W)
  BY MapType
<1> DEFINE t == <<e>>
<1>3. Append(s, e) = s \o t /\ t \in Seq(V) /\ Mapped(f, t) = <<f[e]>>
  <2>1. Append(s, e) = s \o <<e>>
    BY AppendIsConcat
  <2> QED
    BY <2>1 DEF Mapped
<1> HIDE DEF t
<1>4. Mapped(f, s \o t) = Mapped(f, s) \o Mapped(f, t)
  <2>1. IsMap(f, V, W) /\ s \in Seq(V) /\ t \in Seq(V)
    BY <1>3
  <2> QED
    BY <2>1, MapConcat
<1>5. Append(Mapped(f, s), f[e]) = Mapped(f, s) \o <<f[e]>>
  BY <1>1, <1>2, AppendIsConcat
<1> QED
  BY <1>1, <1>3, <1>4, <1>5

LEMMA SidesAppend ==
  ASSUME NEW V, NEW s \in Seq(Gap(V)), NEW g \in Gap(V)
  PROVE  /\ Befores(Append(s, g)) = Befores(s) \o g.before
         /\ Afters(Append(s, g)) = Afters(s) \o g.after
         /\ Befores(s) \in Seq(V) /\ Afters(s) \in Seq(V)
         /\ g.before \in Seq(V) /\ g.after \in Seq(V)
<1>1. Append(s, g) \in Seq(Gap(V))
  BY AppendProperties
<1>2. Joined(BeforeOf(V), Append(s, g)) = Joined(BeforeOf(V), s) \o BeforeOf(V)[g]
  BY SidesMap, JoinedAppend
<1>3. Joined(AfterOf(V), Append(s, g)) = Joined(AfterOf(V), s) \o AfterOf(V)[g]
  BY SidesMap, JoinedAppend
<1>4. Joined(BeforeOf(V), s) \in Seq(V) /\ Joined(AfterOf(V), s) \in Seq(V)
  BY SidesMap, JoinedType
<1> QED
  BY <1>1, <1>2, <1>3, <1>4, SidesJoined, SidesMap

LEMMA EvidenceBalance ==
  ASSUME NEW gaps \in Seq(PlainGaps), NEW x
  PROVE  /\ Mu(Nums, x, Afters(gaps)) + Occurrences(x, Befores(Mapped(Evidence, gaps)))
            = Mu(Nums, x, Befores(gaps)) + Occurrences(x, Afters(Mapped(Evidence, gaps)))
         /\ Mu(Nums, x, Afters(gaps)) \in Nat /\ Mu(Nums, x, Befores(gaps)) \in Nat
         /\ Occurrences(x, Befores(Mapped(Evidence, gaps))) \in Nat
         /\ Occurrences(x, Afters(Mapped(Evidence, gaps))) \in Nat
<1> DEFINE A(s) == Mu(Nums, x, Afters(s))
           B(s) == Mu(Nums, x, Befores(s))
           y(s) == Occurrences(x, Befores(Mapped(Evidence, s)))
           z(s) == Occurrences(x, Afters(Mapped(Evidence, s)))
           Good(s) == /\ A(s) + y(s) = B(s) + z(s)
                      /\ A(s) \in Nat /\ B(s) \in Nat /\ y(s) \in Nat /\ z(s) \in Nat
           T == {s \in Seq(PlainGaps) : Good(s)}
<1>1. <<>> \in T
  <2>1. Befores(<<>>) = <<>> /\ Afters(<<>>) = <<>> /\ Mapped(Evidence, <<>>) = <<>>
    <3>1. [n \in DOMAIN <<>> |-> <<>>[n].before] = <<>> /\ [n \in DOMAIN <<>> |-> <<>>[n].after] = <<>>
      OBVIOUS
    <3> QED
      BY <3>1, FlattenEmpty DEF Befores, Afters, Mapped
  <2>2. Mu(Nums, x, <<>>) = 0
    BY MuNone
  <2>3. Occurrences(x, <<>>) = 0
    BY FS_EmptySet DEF Occurrences
  <2>4. A(<<>>) = 0 /\ B(<<>>) = 0 /\ y(<<>>) = 0 /\ z(<<>>) = 0
    BY <2>1, <2>2, <2>3
  <2> HIDE DEF A, B, y, z
  <2>5. Good(<<>>)
    BY <2>4
  <2> HIDE DEF Good
  <2> QED
    BY <2>5, EmptySeq
<1>2. ASSUME NEW s \in T, NEW g \in PlainGaps PROVE Append(s, g) \in T
  <2>1. s \in Seq(PlainGaps) /\ Good(s)
    OBVIOUS
  <2> HIDE DEF T
  <2> DEFINE t == Append(s, g)
             m == Mapped(Evidence, s)
             h == Evidence[g]
  <2>2. t \in Seq(PlainGaps)
    BY <2>1, AppendProperties
  <2>3. /\ Befores(t) = Befores(s) \o g.before /\ Afters(t) = Afters(s) \o g.after
        /\ Befores(s) \in Seq(Readable) /\ Afters(s) \in Seq(Readable)
        /\ g.before \in Seq(Readable) /\ g.after \in Seq(Readable)
    <3>1. g \in Gap(Readable)
      BY DEF PlainGaps
    <3>2. s \in Seq(Gap(Readable))
      <4>1. \A i \in 1..Len(s) : s[i] \in Gap(Readable)
        BY <2>1, ElementOfSeq DEF PlainGaps
      <4> QED
        BY <2>1, <4>1
    <3> QED
      BY <3>1, <3>2, SidesAppend
  <2>4. Mapped(Evidence, t) = Append(m, h) /\ h \in Gap(Nat) /\ m \in Seq(Gap(Nat))
    <3>1. Mapped(Evidence, t) = Append(m, h) /\ h \in Gap(Nat)
      BY <2>1, EvidenceMaps, MapAppend
    <3>2. m \in Seq(Gap(Nat))
      BY <2>1, EvidenceMaps, MapType
    <3> QED
      BY <3>1, <3>2
  <2>5. /\ Mu(Nums, x, g.after) + Occurrences(x, h.before)
           = Mu(Nums, x, g.before) + Occurrences(x, h.after)
        /\ Mu(Nums, x, g.before) \in Nat /\ Mu(Nums, x, g.after) \in Nat
        /\ Occurrences(x, h.before) \in Nat /\ Occurrences(x, h.after) \in Nat
    BY EvidenceOfGap
  <2> HIDE DEF t, m, h
  <2>6. /\ Befores(Append(m, h)) = Befores(m) \o h.before
        /\ Afters(Append(m, h)) = Afters(m) \o h.after
        /\ Befores(m) \in Seq(Nat) /\ Afters(m) \in Seq(Nat)
        /\ h.before \in Seq(Nat) /\ h.after \in Seq(Nat)
    BY <2>4, SidesAppend
  <2>7. B(t) = B(s) + Mu(Nums, x, g.before)
    <3> DEFINE u == Befores(s)  v == g.before
    <3>1. u \in Seq(Readable) /\ v \in Seq(Readable)
      BY <2>3
    <3> HIDE DEF u, v
    <3>2. Mu(Nums, x, u \o v) = Mu(Nums, x, u) + Mu(Nums, x, v)
      BY <3>1, NumsMap, MuConcat
    <3> QED
      BY <2>3, <3>2 DEF u, v
  <2>8. A(t) = A(s) + Mu(Nums, x, g.after)
    <3> DEFINE u == Afters(s)  v == g.after
    <3>1. u \in Seq(Readable) /\ v \in Seq(Readable)
      BY <2>3
    <3> HIDE DEF u, v
    <3>2. Mu(Nums, x, u \o v) = Mu(Nums, x, u) + Mu(Nums, x, v)
      BY <3>1, NumsMap, MuConcat
    <3> QED
      BY <2>3, <3>2 DEF u, v
  <2>9. y(t) = y(s) + Occurrences(x, h.before)
    <3> DEFINE u == Befores(m)  v == h.before
    <3>1. u \in Seq(Nat) /\ v \in Seq(Nat)
      BY <2>6
    <3> HIDE DEF u, v
    <3>2. Occurrences(x, u \o v) = Occurrences(x, u) + Occurrences(x, v)
      BY <3>1, OccurrencesConcat
    <3> QED
      BY <2>4, <2>6, <3>2 DEF u, v, m
  <2>10. z(t) = z(s) + Occurrences(x, h.after)
    <3> DEFINE u == Afters(m)  v == h.after
    <3>1. u \in Seq(Nat) /\ v \in Seq(Nat)
      BY <2>6
    <3> HIDE DEF u, v
    <3>2. Occurrences(x, u \o v) = Occurrences(x, u) + Occurrences(x, v)
      BY <3>1, OccurrencesConcat
    <3> QED
      BY <2>4, <2>6, <3>2 DEF u, v, m
  <2> HIDE DEF A, B, y, z
  <2>11. Good(t)
    <3>1. PICK a0 \in Nat, b0 \in Nat, y0 \in Nat, z0 \in Nat :
            /\ a0 = A(s) /\ b0 = B(s) /\ y0 = y(s) /\ z0 = z(s) /\ a0 + y0 = b0 + z0
      BY <2>1
    <3>2. PICK a1 \in Nat, b1 \in Nat, y1 \in Nat, z1 \in Nat :
            /\ a1 = Mu(Nums, x, g.after) /\ b1 = Mu(Nums, x, g.before)
            /\ y1 = Occurrences(x, h.before) /\ z1 = Occurrences(x, h.after)
            /\ a1 + y1 = b1 + z1
      BY <2>5
    <3>3. /\ A(t) = a0 + a1 /\ B(t) = b0 + b1 /\ y(t) = y0 + y1 /\ z(t) = z0 + z1
          /\ a0 + y0 = b0 + z0 /\ a1 + y1 = b1 + z1
      BY <2>7, <2>8, <2>9, <2>10, <3>1, <3>2
    <3> QED
      BY <3>3
  <2> HIDE DEF Good
  <2> QED
    BY <2>2, <2>11 DEF T, t
<1>3. T \in SUBSET Seq(PlainGaps)
  OBVIOUS
<1> HIDE DEF T
<1>4. gaps \in T
  BY <1>1, <1>2, <1>3, AllSeq
<1>5. Good(gaps)
  BY <1>4 DEF T
<1> QED
  BY <1>5
-----------------------------------------------------------------------------
(* The evidence of a request *)

\* The two sides of a request and what the diff makes of them.
LEMMA SidesOf ==
  ASSUME NEW r \in Requests
  PROVE  /\ NormalizedUnits(TextsOf(r.baseline.units)) \in Seq(Texts)
         /\ NormalizedUnits(TextsOf(r.candidate.units)) \in Seq(Texts)
         /\ ChangesOf(r) = Gaps(NormalizedUnits(TextsOf(r.baseline.units)),
                                NormalizedUnits(TextsOf(r.candidate.units)))
<1>1. /\ r.baseline.units \in Seq([text : Texts, hidden : BOOLEAN])
      /\ r.candidate.units \in Seq([text : Texts, hidden : BOOLEAN])
  BY DocumentAssumption DEF Requests
<1> QED
  BY <1>1, UnitsType DEF ChangesOf, Changes

LEMMA ChangesType ==
  ASSUME NEW r \in Requests
  PROVE  ChangesOf(r) \in Seq(Gap(Texts))
BY SidesOf, GapsAre

LEMMA DiffComplete ==
  ASSUME request \in Requests
  PROVE  DiffIsComplete
<1> DEFINE b == NormalizedUnits(TextsOf(request.baseline.units))
           c == NormalizedUnits(TextsOf(request.candidate.units))
           changes == ChangesOf(request)
<1>1. b \in Seq(Texts) /\ c \in Seq(Texts) /\ changes = Gaps(b, c)
  BY SidesOf
<1> HIDE DEF b, c, changes
<1>2. (changes = <<>>) = (b = c)
  BY <1>1, GapsEmpty
<1>3. ASSUME NEW t
      PROVE  Occurrences(t, c) - Occurrences(t, b)
             = Occurrences(t, Afters(changes)) - Occurrences(t, Befores(changes))
  <2>1. /\ Occurrences(t, c) + Occurrences(t, Befores(changes))
           = Occurrences(t, b) + Occurrences(t, Afters(changes))
        /\ Occurrences(t, b) \in Nat /\ Occurrences(t, c) \in Nat
        /\ Occurrences(t, Befores(changes)) \in Nat
        /\ Occurrences(t, Afters(changes)) \in Nat
    BY <1>1, GapsBalanceOnes
  <2> QED
    BY <2>1
<1> QED
  BY <1>2, <1>3 DEF DiffIsComplete, b, c, changes

\* What is read in the parts of a document.
LEMMA PiecesRead ==
  ASSUME NEW d \in Documents, NEW u, u = NormalizedUnits(TextsOf(d.units))
  PROVE  /\ u \in Seq(Readable)
         /\ \A piece \in Pieces(Texts, u) : Numbers(piece) \in Seq(Nat)
         /\ Numbers(u) \in Seq(Nat)
         /\ ~Seamed(u) =>
              /\ Plain(u)
              /\ \A piece \in Pieces(Texts, u) : Plain(piece)
<1>1. /\ u \in Seq(Texts)
      /\ \A i, j \in DOMAIN u : Numbers(SubSeq(u, i, j)) \in Seq(Nat)
  BY DocumentAssumption, UnitsType
<1>2. PICK k \in Nat : k = Len(u) /\ DOMAIN u = 1..k
  BY <1>1, LenProperties
<1>3. ASSUME NEW i \in 1..k PROVE u[i] \in Readable
  <2>1. u[i] \in Texts
    BY <1>1, <1>2, ElementOfSeq
  <2>2. SubSeq(u, i, i) = <<u[i]>>
    <3>1. \A n \in i..i : u[n] \in Texts
      BY <2>1
    <3>2. SubSeq(u, i, i) = [n \in 1..1 |-> u[n + i - 1]]
      BY DEF SubSeq
    <3>3. \A n \in 1..1 : u[n + i - 1] = u[i]
      OBVIOUS
    <3>4. SubSeq(u, i, i) = [n \in 1..1 |-> u[i]]
      BY <3>2, <3>3
    <3> QED
      BY <3>4
  <2> QED
    BY <1>1, <1>2, <2>1, <2>2 DEF Readable
<1>4. u \in Seq(Readable)
  BY <1>1, <1>2, <1>3
<1>5. Numbers(<<>>) = <<>> /\ <<>> \in Seq(Nat)
  BY DiffAssumption
<1>6. \A piece \in Pieces(Texts, u) : Numbers(piece) \in Seq(Nat)
  BY <1>1, <1>5 DEF Pieces
<1>7. u \in Pieces(Texts, u)
  <2>1. CASE k = 0
    BY <1>1, <1>2, <2>1 DEF Pieces
  <2>2. CASE k # 0
    <3>1. 1 \in DOMAIN u /\ k \in DOMAIN u
      BY <1>2, <2>2
    <3>2. SubSeq(u, 1, k) = u
      BY <1>1, <1>2, SubSeqFull
    <3> QED
      BY <1>1, <3>1, <3>2 DEF Pieces
  <2> QED
    BY <2>1, <2>2
<1>8. ASSUME ~Seamed(u), NEW piece \in Pieces(Texts, u) PROVE Plain(piece)
  <2>1. CASE piece = <<>>
    BY <1>5, <2>1, JoinedEmpty DEF Plain
  <2>2. CASE piece # <<>>
    <3>1. PICK i \in DOMAIN u, j \in DOMAIN u : piece = SubSeq(u, i, j)
      BY <2>2 DEF Pieces
    <3>2. Numbers(piece) = FlattenSeq([n \in DOMAIN piece |-> Numbers(<<piece[n]>>)])
      <4> DEFINE Adds(t) == Numbers(t) = FlattenSeq([n \in DOMAIN t |-> Numbers(<<t[n]>>)])
      <4>1. \A x, y \in DOMAIN u : Adds(SubSeq(u, x, y))
        BY <1>8, Zenon DEF Seamed
      <4>2. Adds(piece)
        <5> HIDE DEF Adds
        <5> QED
          BY <3>1, <4>1
      <4> QED
        BY <4>2
    <3>3. piece \in Seq(Readable)
      <4>1. i..j \subseteq 1..k
        BY <1>2, <3>1
      <4>2. \A n \in i..j : u[n] \in Readable
        BY <1>3, <4>1
      <4> QED
        BY <1>2, <3>1, <4>2, SubSeqProperties
    <3>4. \A n \in DOMAIN piece : piece[n] \in Readable
      BY <3>3, LenProperties, ElementOfSeq
    <3>5. Mapped(Nums, piece) = [n \in DOMAIN piece |-> Numbers(<<piece[n]>>)]
      BY <3>4 DEF Mapped, Nums
    <3> QED
      BY <3>2, <3>5 DEF Plain, Joined
  <2> QED
    BY <2>1, <2>2
<1> QED
  BY <1>4, <1>6, <1>7, <1>8

LEMMA NumbersComplete ==
  ASSUME request \in Requests
  PROVE  NumbersAccounted
<1> DEFINE nb == NormalizedUnits(TextsOf(request.baseline.units))
           nc == NormalizedUnits(TextsOf(request.candidate.units))
           changes == ChangesOf(request)
           evidence == [i \in DOMAIN changes |-> ChangedNumbers(changes[i])]
<1>1. nb \in Seq(Texts) /\ nc \in Seq(Texts) /\ changes = Gaps(nb, nc)
  BY SidesOf
<1>2. request.baseline \in Documents /\ request.candidate \in Documents
  BY DEF Requests
<1>3. /\ nb \in Seq(Readable) /\ nc \in Seq(Readable)
      /\ \A piece \in Pieces(Texts, nb) \cup Pieces(Texts, nc) : Numbers(piece) \in Seq(Nat)
      /\ Numbers(nb) \in Seq(Nat) /\ Numbers(nc) \in Seq(Nat)
      /\ ~Seamed(nb) => Plain(nb) /\ \A piece \in Pieces(Texts, nb) : Plain(piece)
      /\ ~Seamed(nc) => Plain(nc) /\ \A piece \in Pieces(Texts, nc) : Plain(piece)
  BY <1>2, PiecesRead
<1> HIDE DEF nb, nc, changes
<1>4. PICK k \in Nat : k = Len(changes) /\ DOMAIN changes = 1..k
  BY <1>1, GapsAre, LenProperties
<1>5. ASSUME NEW i \in 1..k
      PROVE  changes[i].before \in Pieces(Texts, nb) /\ changes[i].after \in Pieces(Texts, nc)
  BY <1>1, <1>4, GapsInPieces
<1>6. ASSUME NEW i \in DOMAIN changes, NEW n
      PROVE  Surplus(n, Numbers(changes[i].before), Numbers(changes[i].after))
             = Surplus(n, evidence[i].before, evidence[i].after)
  <2>1. Numbers(changes[i].before) \in Seq(Nat) /\ Numbers(changes[i].after) \in Seq(Nat)
    BY <1>3, <1>4, <1>5
  <2>2. evidence[i] = ChangedNumbers(changes[i])
    OBVIOUS
  <2> QED
    BY <2>1, <2>2, EvidenceSound DEF Surplus
<1>7. ASSUME ~Seamed(nb), ~Seamed(nc), NEW n
      PROVE  Surplus(n, Numbers(nb), Numbers(nc))
             = Surplus(n, Befores(evidence), Afters(evidence))
  <2>1. changes \in Seq(Gap(Readable))
    BY <1>1, <1>3, GapsAre
  <2>2. \A i \in 1..k : changes[i] \in PlainGaps
    <3>1. \A i \in 1..k : changes[i] \in Gap(Readable)
      BY <1>4, <2>1, ElementOfSeq
    <3> QED
      BY <1>3, <1>5, <1>7, <3>1 DEF PlainGaps
  <2>3. changes \in Seq(PlainGaps)
    BY <1>4, <2>1, <2>2
  <2>4. evidence = Mapped(Evidence, changes)
    BY <1>4, <2>2 DEF Mapped, Evidence
  <2> HIDE DEF evidence
  <2>5. /\ Mu(Nums, n, nc) + Mu(Nums, n, Befores(changes))
           = Mu(Nums, n, nb) + Mu(Nums, n, Afters(changes))
        /\ Mu(Nums, n, nb) \in Nat /\ Mu(Nums, n, nc) \in Nat
    BY <1>1, <1>3, NumsMap, GapsBalance
  <2>6. /\ Mu(Nums, n, Afters(changes)) + Occurrences(n, Befores(evidence))
           = Mu(Nums, n, Befores(changes)) + Occurrences(n, Afters(evidence))
        /\ Mu(Nums, n, Afters(changes)) \in Nat /\ Mu(Nums, n, Befores(changes)) \in Nat
        /\ Occurrences(n, Befores(evidence)) \in Nat
        /\ Occurrences(n, Afters(evidence)) \in Nat
    BY <2>3, <2>4, EvidenceBalance
  <2>7. /\ Occurrences(n, Numbers(nb)) = Mu(Nums, n, nb)
        /\ Occurrences(n, Numbers(nc)) = Mu(Nums, n, nc)
    BY <1>3, <1>7 DEF Plain, Mu
  <2> QED
    BY <2>5, <2>6, <2>7 DEF Surplus
<1> QED
  BY <1>6, <1>7 DEF NumbersAccounted, nb, nc, changes, evidence

\* The semantic rule's walk over the changes, in parts.
FlagNext(findings, changes, g, i) ==
  /\ Unclassified(changes, i) /\ PolicySensitive(changes[i])
  /\ LET before == {n \in 1..(i - 1) : g[n]}
     IN ~HasFinding(findings \cup {Semantic(changes[n]) : n \in before}, changes[i])

IsFlagged(findings, changes, F) ==
  F = [i \in DOMAIN changes |-> FlagNext(findings, changes, F, i)]

LEMMA FlagNextAgrees ==
  ASSUME NEW findings, NEW changes, NEW g, NEW h, NEW i,
         \A n \in 1..(i - 1) : g[n] <=> h[n]
  PROVE  FlagNext(findings, changes, g, i) = FlagNext(findings, changes, h, i)
<1>1. {n \in 1..(i - 1) : g[n]} = {n \in 1..(i - 1) : h[n]}
  OBVIOUS
<1> QED
  BY <1>1, Zenon DEF FlagNext

LEMMA FlagExists ==
  ASSUME NEW findings, NEW changes, NEW k \in Nat, DOMAIN changes = 1..k
  PROVE  \E F : IsFlagged(findings, changes, F)
<1> DEFINE G == [1..k -> BOOLEAN]
           E(g, i) == FlagNext(findings, changes, g, i)
           Good(g, n) == \A i \in 1..k : i <= n => g[i] = E(g, i)
           T == {n \in Nat : \E g \in G : Good(g, n)}
<1>b. \A g : \A i : E(g, i) \in BOOLEAN
  BY DEF FlagNext
<1>a. \A g, h : \A i : (\A n \in 1..(i - 1) : g[n] = h[n]) => E(g, i) = E(h, i)
  BY FlagNextAgrees
<1> HIDE DEF E
<1>1. 0 \in T
  <2> DEFINE g == [i \in 1..k |-> FALSE]
  <2>1. g \in G
    OBVIOUS
  <2>2. Good(g, 0)
    OBVIOUS
  <2> QED
    BY <2>1, <2>2
<1>2. ASSUME NEW n \in T PROVE n + 1 \in T
  <2>1. PICK g \in G : Good(g, n)
    OBVIOUS
  <2>n. n \in Nat
    OBVIOUS
  <2> HIDE DEF T
  <2> DEFINE h == [i \in 1..k |-> IF i <= n THEN g[i] ELSE E(g, i)]
  <2>2. h \in G
    <3>1. \A i \in 1..k : (IF i <= n THEN g[i] ELSE E(g, i)) \in BOOLEAN
      BY <1>b
    <3> QED
      BY <3>1
  <2>3. ASSUME NEW i \in 1..k, i <= n + 1
        PROVE  h[i] = E(h, i)
    <3>1. \A j \in 1..(i - 1) : g[j] = h[j]
      <4> TAKE j \in 1..(i - 1)
      <4>1. j \in 1..k /\ j <= n
        BY <2>n, <2>3
      <4> QED
        BY <4>1
    <3>2. E(g, i) = E(h, i)
      <4> HIDE DEF h
      <4> QED
        BY <1>a, <3>1
    <3>3. h[i] = E(g, i)
      BY <2>1
    <3> QED
      BY <3>2, <3>3
  <2> HIDE DEF h
  <2>4. Good(h, n + 1)
    BY <2>3
  <2>5. n + 1 \in Nat
    BY <2>n
  <2> HIDE DEF Good, G
  <2> QED
    BY <2>2, <2>4, <2>5 DEF T
<1>3. T \in SUBSET Nat
  OBVIOUS
<1> HIDE DEF T
<1>4. k \in T
  BY <1>1, <1>2, <1>3, AllNat
<1>5. PICK g \in G : Good(g, k)
  BY <1>4 DEF T
<1>6. g = [i \in 1..k |-> E(g, i)]
  <2>1. \A i \in 1..k : g[i] = E(g, i)
    BY <1>5
  <2> QED
    BY <2>1
<1> QED
  BY <1>6 DEF IsFlagged, E

LEMMA FlagAt ==
  ASSUME NEW findings, NEW changes, NEW F, IsFlagged(findings, changes, F),
         NEW i \in DOMAIN changes
  PROVE  F[i] = FlagNext(findings, changes, F, i)
BY DEF IsFlagged

\* What the semantic rule leaves out is classified, or quoted by a finding.
LEMMA SemanticCovers ==
  ASSUME NEW findings, NEW changes, NEW k \in Nat, DOMAIN changes = 1..k,
         NEW i \in 1..k, Unclassified(changes, i), PolicySensitive(changes[i])
  PROVE  \/ HasFinding(findings, changes[i])
         \/ \E f \in SemanticFindings(findings, changes) : f.score = 50
<1> DEFINE F == CHOOSE h : IsFlagged(findings, changes, h)
<1>1. IsFlagged(findings, changes, F)
  BY FlagExists
<1>2. SemanticFindings(findings, changes)
      = {Semantic(changes[j]) : j \in {n \in DOMAIN changes : F[n]}}
  BY Zenon DEF SemanticFindings, IsFlagged, FlagNext
<1> HIDE DEF F
<1>3. \A n : Semantic(changes[n]).score = 50
  BY DEF Semantic, Found
<1>4. CASE F[i]
  <2>1. Semantic(changes[i]) \in SemanticFindings(findings, changes)
    BY <1>2, <1>4
  <2> QED
    BY <1>3, <2>1
<1>5. CASE ~F[i]
  <2> DEFINE before == {n \in 1..(i - 1) : F[n]}
             more == {Semantic(changes[n]) : n \in before}
  <2>1. HasFinding(findings \cup more, changes[i])
    <3>1. ~FlagNext(findings, changes, F, i)
      BY <1>1, <1>5, FlagAt
    <3> QED
      BY <3>1 DEF FlagNext
  <2>2. CASE before = {}
    <3>1. more = {}
      BY <2>2
    <3>2. findings \cup more = findings
      BY <3>1
    <3> QED
      BY <2>1, <3>2
  <2>3. CASE before # {}
    <3>1. PICK n \in before : TRUE
      BY <2>3
    <3>2. n \in DOMAIN changes /\ F[n]
      BY <3>1
    <3>3. Semantic(changes[n]) \in SemanticFindings(findings, changes)
      BY <1>2, <3>2
    <3> QED
      BY <1>3, <3>3
  <2> QED
    BY <2>2, <2>3
<1> QED
  BY <1>4, <1>5

\* A finding that quotes something scores 50 at least.
LEMMA QuotingScores ==
  ASSUME NEW r, NEW changes,
         NEW f \in ArtifactFindings(r) \cup HiddenFindings(r) \cup NumberFindings(changes)
                   \cup DateFindings(changes) \cup InjectionFindings(r, changes),
         f.before # <<>> \/ f.after # <<>>
  PROVE  f.score \in {50, 55, 70, 75, 80, 85, 95}
<1>1. \A x \in ArtifactFindings(r) : x.before = <<>> /\ x.after = <<>>
  BY DEF ArtifactFindings, Found
<1>2. \A x \in HiddenFindings(r) : x.score = 80
  BY DEF HiddenFindings, Found
<1>3. \A x \in NumberFindings(changes) : x.score \in {55, 75}
  BY DEF NumberFindings, Found
<1>4. \A x \in DateFindings(changes) : x.score \in {50, 70}
  BY DEF DateFindings, Found
<1>5. \A x \in InjectionFindings(r, changes) : x.score \in {85, 95}
  BY DEF InjectionFindings, Found
<1> QED
  BY <1>1, <1>2, <1>3, <1>4, <1>5
-----------------------------------------------------------------------------
(* Scores *)

\* The scores the static rules give.
RuleScores == {30, 35, 45, 50, 55, 70, 75, 80, 85, 95, 100}

LEMMA FindingScores ==
  ASSUME NEW r, NEW f \in Assess(r)
  PROVE  f.score \in RuleScores
<1>1. \A x \in ArtifactFindings(r) : x.score \in RuleScores
  BY DEF ArtifactFindings, Found, ArtifactScore, RuleScores
<1>2. \A x \in HiddenFindings(r) : x.score \in RuleScores
  BY DEF HiddenFindings, Found, RuleScores
<1>3. \A x \in NumberFindings(ChangesOf(r)) : x.score \in RuleScores
  BY DEF NumberFindings, Found, RuleScores
<1>4. \A x \in DateFindings(ChangesOf(r)) : x.score \in RuleScores
  BY DEF DateFindings, Found, RuleScores
<1>5. \A x \in InjectionFindings(r, ChangesOf(r)) : x.score \in RuleScores
  BY DEF InjectionFindings, Found, RuleScores
<1>6. \A s : \A x \in SemanticFindings(s, ChangesOf(r)) : x.score \in RuleScores
  BY DEF SemanticFindings, Semantic, Found, RuleScores
<1>7. Found("DOCUMENT_CONTENT_CHANGE", <<>>, <<>>, 35).score \in RuleScores
  BY DEF Found, RuleScores
<1> QED
  BY <1>1, <1>2, <1>3, <1>4, <1>5, <1>6, <1>7 DEF Assess, JudgedFindings, RuleFindings

\* A set of scores has a highest one.
LEMMA HighestIsGreatest ==
  ASSUME NEW S \in SUBSET (0..100), S # {}
  PROVE  Highest(S) \in S /\ \A s \in S : s <= Highest(S)
<1> DEFINE C == {m \in Nat : 100 - m \in S}
<1>1. PICK s \in S : TRUE
  OBVIOUS
<1>2. 100 - s \in C
  <2>1. s \in 0..100
    OBVIOUS
  <2> QED  BY <2>1
<1>3. PICK c \in C : \A d \in C : c <= d
  <2>1. C \in SUBSET Nat /\ C # {}
    BY <1>2
  <2> HIDE DEF C
  <2> QED  BY <2>1, LeastOf
<1>4. c \in Nat /\ 100 - c \in S
  OBVIOUS
<1>5. \A t \in S : t <= 100 - c
  <2>1. TAKE t \in S
  <2>2. t \in 0..100
    OBVIOUS
  <2>3. 100 - t \in C
    BY <2>2
  <2> HIDE DEF C
  <2>4. c <= 100 - t
    BY <1>3, <2>3
  <2> QED  BY <1>4, <2>2, <2>4
<1> QED  BY <1>4, <1>5 DEF Highest

\* The static score is one of the rules', and no finding's is above it.
LEMMA StaticScoreBounds ==
  ASSUME NEW r
  PROVE  /\ StaticScore(r) \in RuleScores \cup {0}
         /\ \A f \in Assess(r) : f.score <= StaticScore(r)
<1> DEFINE S == {0} \cup {f.score : f \in Assess(r)}
<1>1. S \in SUBSET (0..100) /\ S # {}
  BY FindingScores DEF RuleScores
<1>2. Highest(S) \in S /\ \A s \in S : s <= Highest(S)
  BY <1>1, HighestIsGreatest
<1>3. StaticScore(r) = Highest(S)
  BY DEF StaticScore
<1> QED
  BY <1>2, <1>3, FindingScores

LEMMA WordingReviewed ==
  ASSUME request \in Requests
  PROVE  WordingIsReviewed
<1> DEFINE changes == ChangesOf(request)
           found == ArtifactFindings(request) \cup HiddenFindings(request)
                    \cup NumberFindings(changes) \cup DateFindings(changes)
                    \cup InjectionFindings(request, changes)
           judged == found \cup SemanticFindings(found, changes)
<1>1. PICK k \in Nat : DOMAIN changes = 1..k
  BY ChangesType, LenProperties
<1>2. \A f \in judged : f \in Assess(request)
  BY DEF Assess, JudgedFindings, RuleFindings
<1> SUFFICES ASSUME NEW i \in DOMAIN changes, PolicySensitive(changes[i])
             PROVE  StaticScore(request) >= 50
  BY DEF WordingIsReviewed
<1>3. \E f \in judged : f.score \in {50, 55, 70, 75, 80, 85, 95}
  <2>1. CASE NumericChanged(changes[i])
    <3> DEFINE changed == ChangedNumbers(changes[i])
               Quoted(values) == IF values = <<>> THEN <<>> ELSE <<Quote>>
               rated == IF PolicySensitive(changes[i]) THEN 75 ELSE 55
               f == Found("NUMBER_CHANGE", Quoted(changed.before), Quoted(changed.after), rated)
    <3>1. f \in NumberFindings(changes)
      BY <2>1 DEF NumberFindings
    <3>2. f.score \in {55, 75}
      BY DEF Found
    <3> QED
      BY <3>1, <3>2
  <2>2. CASE DateChanged(changes[i])
    <3> DEFINE Quoted(slice) == IF Dates(slice) = {} THEN <<>> ELSE <<Quote>>
               rated == IF Adjoined(changes[i].before, changes[i].after) THEN 70 ELSE 50
               f == Found("POLICY_DATE_CHANGE", Quoted(changes[i].before),
                          Quoted(changes[i].after), rated)
    <3>1. f \in DateFindings(changes)
      BY <2>2 DEF DateFindings
    <3>2. f.score \in {50, 70}
      BY DEF Found
    <3> QED
      BY <3>1, <3>2
  <2>3. CASE Unclassified(changes, i)
    <3> HIDE DEF changes, found
    <3>1. \/ HasFinding(found, changes[i])
          \/ \E f \in SemanticFindings(found, changes) : f.score = 50
      BY <1>1, <2>3, SemanticCovers
    <3>2. HasFinding(found, changes[i]) =>
            \E f \in found : f.score \in {50, 55, 70, 75, 80, 85, 95}
      BY QuotingScores DEF HasFinding, found
    <3> QED
      BY <3>1, <3>2
  <2> QED
    BY <2>1, <2>2, <2>3 DEF Unclassified
<1>4. PICK f \in Assess(request) : f.score \in {50, 55, 70, 75, 80, 85, 95}
  <2> HIDE DEF judged
  <2> QED
    BY <1>2, <1>3
<1>5. f.score <= StaticScore(request) /\ StaticScore(request) \in RuleScores \cup {0}
  BY StaticScoreBounds
<1> HIDE DEF changes, judged
<1> QED
  BY <1>4, <1>5 DEF RuleScores

\* Only a document pair without any evidence stays below a review.
LEMMA CleanIfLow ==
  ASSUME NEW r, StaticScore(r) < 30
  PROVE  /\ ChangesOf(r) = <<>> /\ HiddenTexts(r) = <<>>
         /\ r.candidate.artifacts = {}
<1>1. Assess(r) = {}
  BY FindingScores, StaticScoreBounds DEF RuleScores
<1>2. ChangesOf(r) = <<>> /\ HiddenFindings(r) = {} /\ ArtifactFindings(r) = {}
  BY <1>1 DEF Assess, JudgedFindings, RuleFindings
<1>3. HiddenTexts(r) = <<>>
  BY <1>2 DEF HiddenFindings
<1>4. r.candidate.artifacts = {}
  BY <1>2 DEF ArtifactFindings
<1> QED  BY <1>2, <1>3, <1>4

\* A hard-blocking artifact alone gives the highest score.
LEMMA HardBlockScores ==
  ASSUME NEW r, HardBlock(r)
  PROVE  StaticScore(r) = 100
<1>1. PICK t \in r.candidate.artifacts : t \in HardArtifacts
  BY DEF HardBlock
<1> DEFINE f == Found(t, <<>>, <<>>, ArtifactScore(t))
<1>2. f \in ArtifactFindings(r)
  BY DEF ArtifactFindings
<1>3. f \in Assess(r)
  BY <1>2 DEF Assess, JudgedFindings, RuleFindings
<1>4. f.score = 100
  BY <1>1 DEF Found, ArtifactScore
<1> QED
  BY <1>3, <1>4, StaticScoreBounds DEF RuleScores

LEMMA JudgedScoreBounds ==
  ASSUME NEW m \in Assessments
  PROVE  JudgedScore(m) \in 0..100
<1> DEFINE S == {m.risk_score} \cup {SeverityScore[v] : v \in m.severities}
<1>1. m.risk_score \in 0..100 /\ m.severities \subseteq DOMAIN SeverityScore
  BY JudgeAssumption
<1>2. \A v \in m.severities : SeverityScore[v] \in {20, 50, 80, 100}
  BY <1>1 DEF SeverityScore
<1>3. S \in SUBSET (0..100) /\ S # {}
  BY <1>1, <1>2
<1>4. Highest(S) \in S
  BY <1>1, <1>3, HighestIsGreatest
<1> QED
  BY <1>3, <1>4 DEF JudgedScore
-----------------------------------------------------------------------------
(* The analysis *)

\* What holds of an analysis that has not been answered yet, phase by phase.
\* The score never falls below the static one: that is what makes the
\* decision of a failed or lenient judge harmless.
Underway ==
  /\ request.intact /\ policy = NoPolicy
  /\ StaticScore(request) <= score

Answered(p) == asked[p] = "answered"

\* The inductive invariant of the analysis: its types, the knowledge of each
\* phase, and the three properties of the answer.
RiskInv ==
  /\ RiskTypeOK
  /\ phase = "received" => policy = NoPolicy
  /\ phase \in {"received", "primary"} => asked["primary"] = "not"
  /\ phase \in {"primary", "high_risk_audit", "decide"} => Underway
  /\ phase = "high_risk_audit" => Answered("primary")
  /\ phase = "decide" =>
       /\ judge => Answered("primary") \/ 50 <= score
       /\ Answered("primary") /\ 70 <= score => asked["high_risk_audit"] # "not"
  /\ AllowIsEarned
  /\ StaticEvidenceStands
  /\ HighRiskIsAudited

\* What the decision for a score is, and that it grows with the score.
LEMMA DecisionGrows ==
  ASSUME NEW a \in Int, NEW b \in Int, a <= b
  PROVE  /\ DecisionFor(b) \in {"ALLOW", "REVIEW", "BLOCK"}
         /\ Rank[DecisionFor(a)] <= Rank[DecisionFor(b)]
         /\ DecisionFor(b) = "ALLOW" => b < 30
BY DEF DecisionFor, Rank

LEMMA StaticScoreType ==
  ASSUME NEW r
  PROVE  StaticScore(r) \in 0..100
BY StaticScoreBounds DEF RuleScores

LEMMA NothingDecided ==
  ASSUME policy = NoPolicy
  PROVE  AllowIsEarned /\ StaticEvidenceStands /\ HighRiskIsAudited
BY DEF NoPolicy, AllowIsEarned, StaticEvidenceStands, HighRiskIsAudited

LEMMA RiskInitInv ==
  Init => RiskInv
<1> SUFFICES ASSUME Init PROVE RiskInv
  OBVIOUS
<1>1. /\ request \in Requests /\ judge \in BOOLEAN /\ phase \in {"received", "done"}
      /\ score = 0 /\ asked = [p \in Phases |-> "not"]
      /\ policy = NoPolicy /\ delivered = "NONE"
  BY DEF Init, RiskInit, RiskIdle
<1>2. asked \in [Phases -> {"not", "answered", "failed"}] /\ asked["primary"] = "not"
  BY <1>1 DEF Phases
<1>3. RiskTypeOK
  BY <1>1, <1>2 DEF RiskTypeOK, NoPolicy
<1> QED
  BY <1>1, <1>2, <1>3, NothingDecided DEF RiskInv

\* A failure is a block, whatever was found before it.
LEMMA FailureInv ==
  ASSUME RiskInv, FailClosed, UNCHANGED <<request, judge, score, asked, delivered>>
  PROVE  RiskInv'
<1>1. RiskTypeOK'
  BY DEF RiskInv, RiskTypeOK, FailClosed
<1>2. AllowIsEarned' /\ HighRiskIsAudited'
  BY DEF FailClosed, AllowIsEarned, HighRiskIsAudited
<1>3. StaticEvidenceStands'
  <2>1. Rank[DecisionFor(StaticScore(request))] <= Rank["BLOCK"]
    BY StaticScoreType DEF DecisionFor, Rank
  <2> QED
    BY <2>1 DEF FailClosed, StaticEvidenceStands, HardBlock
<1> QED
  BY <1>1, <1>2, <1>3 DEF RiskInv, FailClosed

LEMMA AssessStaticInv ==
  RiskInv /\ AssessStatic => RiskInv'
<1> SUFFICES ASSUME RiskInv, AssessStatic PROVE RiskInv'
  OBVIOUS
<1>1. StaticScore(request) \in 0..100
  BY StaticScoreType
<1>2. RiskTypeOK'
  BY <1>1 DEF RiskInv, RiskTypeOK, AssessStatic
<1>3. policy' = NoPolicy /\ request' = request
  BY DEF RiskInv, AssessStatic
<1>4. Underway'
  BY <1>1, <1>3 DEF AssessStatic, Underway
<1>5. AllowIsEarned' /\ StaticEvidenceStands' /\ HighRiskIsAudited'
  BY <1>3 DEF NoPolicy, AllowIsEarned, StaticEvidenceStands, HighRiskIsAudited
<1> QED
  BY <1>2, <1>3, <1>4, <1>5 DEF RiskInv, AssessStatic, Answered

LEMMA JudgeAnswersInv ==
  RiskInv /\ JudgeAnswers => RiskInv'
<1> SUFFICES ASSUME RiskInv, JudgeAnswers PROVE RiskInv'
  OBVIOUS
<1>1. PICK m \in Assessments :
        /\ score' = AtLeast(score, JudgedScore(m))
        /\ phase' = IF phase = "primary" /\ score' >= 70
                    THEN "high_risk_audit" ELSE "decide"
  BY DEF JudgeAnswers
<1>2. score' \in 0..100 /\ score <= score'
  BY <1>1, JudgedScoreBounds DEF RiskInv, RiskTypeOK, AtLeast
<1>3. /\ phase \in Phases /\ asked' = [asked EXCEPT ![phase] = "answered"]
      /\ UNCHANGED <<request, judge, policy, delivered>>
  BY DEF JudgeAnswers
<1>4. /\ asked' \in [Phases -> {"not", "answered", "failed"}]
      /\ asked'["primary"] = "answered"
      /\ phase = "high_risk_audit" => asked'["high_risk_audit"] = "answered"
  BY <1>3 DEF RiskInv, RiskTypeOK, Phases, Answered
<1>5. RiskTypeOK'
  BY <1>1, <1>2, <1>3, <1>4 DEF RiskInv, RiskTypeOK
<1>6. Underway'
  <2>1. StaticScore(request) \in 0..100
    BY StaticScoreType
  <2> QED
    BY <2>1, <1>2, <1>3 DEF RiskInv, RiskTypeOK, Underway, Phases
<1>7. AllowIsEarned' /\ StaticEvidenceStands' /\ HighRiskIsAudited'
  BY <1>6 DEF Underway, NoPolicy, AllowIsEarned, StaticEvidenceStands, HighRiskIsAudited
<1>8. phase' \in {"high_risk_audit", "decide"}
  BY <1>1
<1>9. phase' = "decide" /\ 70 <= score' => asked'["high_risk_audit"] # "not"
  <2>1. phase' = "decide" /\ 70 <= score' => phase = "high_risk_audit"
    BY <1>1, <1>2, <1>3 DEF Phases
  <2>2. phase = "high_risk_audit" => asked'["high_risk_audit"] = "answered"
    BY <1>4
  <2> QED
    BY <2>1, <2>2
<1> QED
  BY <1>4, <1>5, <1>6, <1>7, <1>8, <1>9 DEF RiskInv, Answered

LEMMA JudgeUnavailableInv ==
  RiskInv /\ JudgeUnavailable => RiskInv'
<1> SUFFICES ASSUME RiskInv, JudgeUnavailable PROVE RiskInv'
  OBVIOUS
<1>1. /\ phase \in Phases /\ phase' = "decide"
      /\ score' = IF HardBlock(request) THEN score ELSE AtLeast(score, 50)
      /\ asked' = [asked EXCEPT ![phase] = "failed"]
      /\ UNCHANGED <<request, judge, policy, delivered>>
  BY DEF JudgeUnavailable
<1>2. StaticScore(request) \in 0..100 /\ score \in 0..100 /\ StaticScore(request) <= score
  BY <1>1, StaticScoreType DEF RiskInv, RiskTypeOK, Underway, Phases
<1>3. score' \in 0..100 /\ score <= score' /\ 50 <= score'
  BY <1>1, <1>2, HardBlockScores DEF AtLeast
<1>4. /\ asked' \in [Phases -> {"not", "answered", "failed"}]
      /\ asked'["primary"] = "answered" => asked'["high_risk_audit"] = "failed"
  BY <1>1 DEF RiskInv, RiskTypeOK, Phases
<1>5. RiskTypeOK'
  BY <1>1, <1>3, <1>4 DEF RiskInv, RiskTypeOK
<1>6. Underway'
  BY <1>1, <1>2, <1>3 DEF RiskInv, Underway, Phases
<1>7. AllowIsEarned' /\ StaticEvidenceStands' /\ HighRiskIsAudited'
  BY <1>6 DEF Underway, NoPolicy, AllowIsEarned, StaticEvidenceStands, HighRiskIsAudited
<1> QED
  BY <1>1, <1>3, <1>4, <1>5, <1>6, <1>7 DEF RiskInv, Answered

\* The decision. Below 30 there is no evidence at all, which is why an ALLOW
\* is earned; a hard block has had its audit, for its static score is 100.
LEMMA DecideInv ==
  RiskInv /\ Decide => RiskInv'
<1> SUFFICES ASSUME RiskInv, Decide PROVE RiskInv'
  OBVIOUS
<1>1. /\ phase = "decide" /\ phase' = "answered"
      /\ score' = IF HardBlock(request) THEN 100 ELSE score
      /\ policy' = [status |-> "COMPLETED", decision |-> DecisionFor(score')]
      /\ UNCHANGED <<request, judge, asked, delivered>>
  BY DEF Decide
<1>2. /\ StaticScore(request) \in 0..100 /\ score \in 0..100
      /\ StaticScore(request) <= score /\ request.intact
  BY <1>1, StaticScoreType DEF RiskInv, RiskTypeOK, Underway
<1>3. /\ HardBlock(request) => score = 100
      /\ score' = score
  BY <1>1, <1>2, HardBlockScores
<1>4. /\ policy'.decision = DecisionFor(score) /\ policy'.status = "COMPLETED"
      /\ DecisionFor(score) \in {"ALLOW", "REVIEW", "BLOCK"}
      /\ Rank[DecisionFor(StaticScore(request))] <= Rank[DecisionFor(score)]
      /\ DecisionFor(score) = "ALLOW" => score < 30
  BY <1>1, <1>2, <1>3, DecisionGrows
<1>5. RiskTypeOK'
  BY <1>1, <1>2, <1>3, <1>4 DEF RiskInv, RiskTypeOK
<1>6. AllowIsEarned'
  <2>1. SUFFICES ASSUME DecisionFor(score) = "ALLOW"
        PROVE  /\ request.intact /\ ChangesOf(request) = <<>>
               /\ HiddenTexts(request) = <<>> /\ request.candidate.artifacts = {}
               /\ judge => asked["primary"] = "answered"
    BY <1>1, <1>4 DEF AllowIsEarned, Changed
  <2>2. StaticScore(request) < 30 /\ score < 30
    BY <2>1, <1>2, <1>4
  <2>3. judge => asked["primary"] = "answered"
    BY <2>2, <1>1, <1>2 DEF RiskInv, Answered
  <2> QED
    BY <2>2, <2>3, <1>2, CleanIfLow
<1>7. StaticEvidenceStands'
  <2>1. HardBlock(request) => DecisionFor(score) = "BLOCK"
    BY <1>3 DEF DecisionFor
  <2> QED
    BY <2>1, <1>1, <1>4 DEF StaticEvidenceStands
<1>8. HighRiskIsAudited'
  <2>1. Answered("primary") /\ 70 <= score => asked["high_risk_audit"] # "not"
    BY <1>1 DEF RiskInv
  <2> QED
    BY <2>1, <1>1, <1>2, <1>3 DEF HighRiskIsAudited, Answered
<1> QED
  BY <1>1, <1>5, <1>6, <1>7, <1>8 DEF RiskInv

\* Delivering an answer, asking the model instead, or another screening step
\* changes nothing that the invariant is about.
LEMMA DeliverInv ==
  ASSUME RiskInv, phase' = "done", delivered' \in {"policy", "retryable", "failed"},
         UNCHANGED <<request, judge, score, asked, policy>>
  PROVE  RiskInv'
<1>1. RiskTypeOK'
  BY DEF RiskInv, RiskTypeOK
<1>2. AllowIsEarned' /\ StaticEvidenceStands' /\ HighRiskIsAudited'
  BY DEF RiskInv, AllowIsEarned, StaticEvidenceStands, HighRiskIsAudited, Changed
<1> QED
  BY <1>1, <1>2 DEF RiskInv

LEMMA RiskStutterInv ==
  RiskInv /\ UNCHANGED riskVars => RiskInv'
BY DEF RiskInv, riskVars, RiskTypeOK, Underway, Answered, AllowIsEarned,
       StaticEvidenceStands, HighRiskIsAudited, Changed

LEMMA RiskNextInv ==
  RiskInv /\ [Next]_vars => RiskInv'
<1> SUFFICES ASSUME RiskInv, [Next]_vars PROVE RiskInv'
  OBVIOUS
<1>1. CASE RefuseAltered
  BY <1>1, FailureInv DEF RefuseAltered
<1>2. CASE AssessStatic
  BY <1>2, AssessStaticInv
<1>3. CASE JudgeAnswers
  BY <1>3, JudgeAnswersInv
<1>4. CASE JudgeUnavailable
  BY <1>4, JudgeUnavailableInv
<1>5. CASE Breaks
  BY <1>5, FailureInv DEF Breaks
<1>6. CASE Decide
  BY <1>6, DecideInv
<1>7. CASE Deliver \/ AskModel
  <2>1. phase' = "done" /\ UNCHANGED <<request, judge, score, asked, policy>>
    BY <1>7 DEF Deliver, AskModel
  <2>2. delivered' \in {"policy", "retryable", "failed"}
    BY <1>7 DEF Deliver, AskModel, Outcome
  <2> QED
    BY <2>1, <2>2, DeliverInv
<1>8. CASE UNCHANGED riskVars
  BY <1>8, RiskStutterInv
<1> QED
  BY <1>1, <1>2, <1>3, <1>4, <1>5, <1>6, <1>7, <1>8 DEF Next, RiskNext, vars
-----------------------------------------------------------------------------
(* The screening *)

\* A call takes as long as its two requests.
LEMMA CallTakes ==
  ASSUME NEW c \in CallResults
  PROVE  c.takes \in Nat
<1> DEFINE Of(l, r, x) ==
             [result : {AssessDirectoryChange(l, r, x)}, takes : CallTimes(l, r)]
<1>1. PICK listing \in Listings, reply \in Replies, content \in Contents :
        c \in Of(listing, reply, content)
  <2>1. PICK R \in {Of(l, r, x) : l \in Listings, r \in Replies, x \in Contents} :
          c \in R
    BY DEF CallResults
  <2> HIDE DEF Of
  <2> QED
    BY <2>1, SMT
<1>2. \A r : Lasts(r) \subseteq Nat
  BY ScreeningAssumption DEF Lasts
<1>3. c.takes \in CallTimes(listing, reply)
  BY <1>1
<1>4. PICK l \in Nat, q \in Nat : c.takes = l + q
  BY <1>2, <1>3, ScreeningAssumption DEF CallTimes
<1> QED
  BY <1>4, ScreeningAssumption

\* The inductive invariant of a screening: a call starts inside the window,
\* as long as nobody stops the queue no sooner than one interval per call
\* before it, and a verdict is given once, at the end.
ScreenInv ==
  /\ ScreenTypeOK
  /\ step = "call" => now <= Timeout /\ (calls > 0 => last.retryable)
  /\ step # "done" => verdict = "none"
  /\ ~stopping => /\ step = "call" => calls <= now
                  /\ step = "wait" => calls <= now + 1
                  /\ calls <= Timeout + 1
  /\ UnjudgedIsReviewed

LEMMA ScreenInitInv ==
  Init => ScreenInv
<1> SUFFICES ASSUME Init PROVE ScreenInv
  OBVIOUS
<1>1. /\ step \in {"idle", "call"} /\ now = 0 /\ calls = 0
      /\ stopping = FALSE /\ verdict = "none"
  BY DEF Init, ScreenInit, ScreenIdle
<1>2. Timeout \in Nat /\ 0 \in 0..MaxCalls
  BY ScreeningAssumption DEF MaxCalls
<1>3. ScreenTypeOK
  BY <1>1, <1>2 DEF ScreenTypeOK
<1> QED
  BY <1>1, <1>2, <1>3 DEF ScreenInv, UnjudgedIsReviewed

LEMMA CallInv ==
  ScreenInv /\ Call => ScreenInv'
<1> SUFFICES ASSUME ScreenInv, Call PROVE ScreenInv'
  OBVIOUS
<1>1. PICK c \in CallResults : last' = c.result /\ now' = now + c.takes
  BY DEF Call
<1>2. /\ now \in Nat /\ now <= Timeout /\ c.takes \in Nat
      /\ calls \in Nat /\ Timeout \in Nat
  BY CallTakes, ScreeningAssumption DEF ScreenInv, ScreenTypeOK, Call, MaxCalls
<1>3. now' \in Nat /\ now <= now'
  BY <1>1, <1>2
<1>4. /\ calls' = calls + 1 /\ calls' \in 0..MaxCalls
      /\ step' = "wait" /\ stopping' = stopping /\ verdict' = verdict
  BY <1>2 DEF Call, MaxCalls
<1>5. ScreenTypeOK'
  BY <1>3, <1>4 DEF ScreenInv, ScreenTypeOK
<1>6. ~stopping' => calls' <= now' + 1 /\ calls' <= Timeout + 1
  BY <1>2, <1>3, <1>4 DEF ScreenInv, Call
<1>7. verdict' = "none"
  BY <1>4 DEF ScreenInv, Call
<1> QED
  BY <1>4, <1>5, <1>6, <1>7 DEF ScreenInv, UnjudgedIsReviewed

LEMMA RetryInv ==
  ScreenInv /\ Retry => ScreenInv'
<1> SUFFICES ASSUME ScreenInv, Retry PROVE ScreenInv'
  OBVIOUS
<1>1. /\ now \in Nat /\ calls \in Nat /\ Timeout \in Nat \ {0}
      /\ now < Timeout /\ last.retryable
  BY ScreeningAssumption DEF ScreenInv, ScreenTypeOK, Retry, GivesUp, MaxCalls
<1>2. /\ now' = IF stopping THEN now ELSE now + 1
      /\ step' = "call" /\ UNCHANGED <<calls, last, stopping, verdict>>
  BY DEF Retry
<1>3. now' \in 0..Timeout
  BY <1>1, <1>2 DEF ScreenInv, ScreenTypeOK
<1>4. ScreenTypeOK'
  BY <1>1, <1>2, <1>3 DEF ScreenInv, ScreenTypeOK, MaxCalls
<1>5. ~stopping' => calls' <= now' /\ calls' <= Timeout + 1
  BY <1>1, <1>2 DEF ScreenInv, Retry
<1>6. verdict' = "none"
  BY <1>2 DEF ScreenInv, Retry
<1> QED
  BY <1>1, <1>2, <1>3, <1>4, <1>5, <1>6 DEF ScreenInv, UnjudgedIsReviewed

LEMMA ScreenNextInv ==
  ScreenInv /\ [Next]_vars => ScreenInv'
<1> SUFFICES ASSUME ScreenInv, [Next]_vars PROVE ScreenInv'
  OBVIOUS
<1>1. CASE Call
  BY <1>1, CallInv
<1>2. CASE Retry
  BY <1>2, RetryInv
<1>3. CASE Assessed
  BY <1>3 DEF Assessed, ScreenInv, ScreenTypeOK, UnjudgedIsReviewed
<1>4. CASE Unjudged
  BY <1>4 DEF Unjudged, ScreenInv, ScreenTypeOK, UnjudgedIsReviewed
<1>5. CASE Stop
  BY <1>5 DEF Stop, ScreenInv, ScreenTypeOK, UnjudgedIsReviewed
<1>6. CASE UNCHANGED screenVars
  BY <1>6 DEF screenVars, ScreenInv, ScreenTypeOK, UnjudgedIsReviewed
<1> QED
  BY <1>1, <1>2, <1>3, <1>4, <1>5, <1>6 DEF Next, ScreenNext, ScreenStep, vars
-----------------------------------------------------------------------------
(* The theorems *)

LEMMA RiskInvariant == Spec => []RiskInv
BY RiskInitInv, RiskNextInv, PTL DEF Spec

\* Of a request it is enough that its documents are lists of units.
LEMMA RequestInvariant == Spec => [](request \in Requests)
<1>1. RiskInv => request \in Requests
  BY DEF RiskInv, RiskTypeOK
<1> QED
  BY <1>1, RiskInvariant, PTL

LEMMA ScreenInvariant == Spec => []ScreenInv
BY ScreenInitInv, ScreenNextInv, PTL DEF Spec

\* Both callers keep their types: scores stay within 0..100 whatever the judge
\* answers, and the calls of a screening within their number.
THEOREM TypeCorrect == Spec => []TypeOK
<1>1. RiskInv /\ ScreenInv => TypeOK
  BY DEF RiskInv, ScreenInv, TypeOK
<1> QED
  BY <1>1, RiskInvariant, ScreenInvariant, PTL

\* For every document, every judge and every failure: only unchanged content
\* without hidden text or artifacts is allowed, and only on a judge's word
\* where there is a judge.
THEOREM AllowEarned == Spec => []AllowIsEarned
<1>1. RiskInv => AllowIsEarned
  BY DEF RiskInv
<1> QED
  BY <1>1, RiskInvariant, PTL

\* The judge can raise the static decision and never lower it.
THEOREM EvidenceStands == Spec => []StaticEvidenceStands
<1>1. RiskInv => StaticEvidenceStands
  BY DEF RiskInv
<1> QED
  BY <1>1, RiskInvariant, PTL

\* No completed analysis with an answer of the judge and a score of 70 or
\* more went without the second audit.
THEOREM HighRiskAudited == Spec => []HighRiskIsAudited
<1>1. RiskInv => HighRiskIsAudited
  BY DEF RiskInv
<1> QED
  BY <1>1, RiskInvariant, PTL

\* For all documents, of any length: the diff is empty for equal ones only, and
\* what its changes bring and take is exactly what the candidate has more and
\* less of each unit.
THEOREM DiffLosesNothing == Spec => []DiffIsComplete
<1>1. request \in Requests => DiffIsComplete
  BY DiffComplete
<1> QED
  BY <1>1, RequestInvariant, PTL

\* For all documents the numeric evidence of a change accounts for every number
\* that its sides have more or less often, and the evidence of all changes for
\* every number of documents in which none is read across units.
THEOREM EveryNumberAccounted == Spec => []NumbersAccounted
<1>1. request \in Requests => NumbersAccounted
  BY NumbersComplete
<1> QED
  BY <1>1, RequestInvariant, PTL

\* A change of policy wording never scores below 50, whichever findings there
\* are and however many changes the semantic rule walks over.
THEOREM WordingNeverUnrated == Spec => []WordingIsReviewed
<1>1. request \in Requests => WordingIsReviewed
  BY WordingReviewed
<1> QED
  BY <1>1, RequestInvariant, PTL

\* A change is accepted by the screening only after an assessment came back.
THEOREM UnjudgedReviewed == Spec => []UnjudgedIsReviewed
<1>1. ScreenInv => UnjudgedIsReviewed
  BY DEF ScreenInv
<1> QED
  BY <1>1, ScreenInvariant, PTL

\* For every timeout, and however long the server lets a request last: no call
\* begins after the window, and until the queue is closed there is at most one
\* per interval.
THEOREM RetriesBounded == Spec => []RetriesAreBounded
<1>1. ScreenInv => RetriesAreBounded
  BY DEF ScreenInv, ScreenTypeOK, RetriesAreBounded, MaxCalls
<1> QED
  BY <1>1, ScreenInvariant, PTL
=============================================================================
