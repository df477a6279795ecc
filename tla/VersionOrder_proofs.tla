------------------------- MODULE VersionOrder_proofs ------------------------
(***************************************************************************)
(* Putting and dropping a version, for tables of any size: both keep the   *)
(* ranks natural numbers and change the stored versions by that one. And   *)
(* where the ranks come from: the places of distinct timestamps follow     *)
(* every row that is written on top or deleted.                            *)
(***************************************************************************)
EXTENDS VersionOrder, FiniteSetTheorems, TLAPS

Tables == [Shas -> Nat]

\* remove_atomic takes out its row and no other, though the ranks above it
\* move down.
LEMMA DropStored ==
  ASSUME NEW t \in Tables, NEW s \in Shas
  PROVE  /\ Drop(t, s) \in Tables
         /\ Stored(Drop(t, s)) = Stored(t) \ {s}
<1>1. ASSUME NEW r \in Shas
      PROVE  /\ Drop(t, s)[r] \in Nat
             /\ Drop(t, s)[r] # 0 <=> r # s /\ t[r] # 0
  BY DEF Drop, Tables
<1> QED
  BY <1>1 DEF Drop, Stored, Tables

\* index_atomic adds its row and no other.
LEMMA PutStored ==
  ASSUME NEW t \in Tables, NEW s \in Shas
  PROVE  /\ Put(t, s) \in Tables
         /\ Stored(Put(t, s)) = Stored(t) \cup {s}
<1> DEFINE rest == Drop(t, s)
<1>1. rest \in Tables /\ Stored(rest) = Stored(t) \ {s}
  BY DropStored
<1>2. Cardinality(Stored(rest)) \in Nat
  BY ShasAssumption, FS_Subset, FS_CardinalityType DEF Stored
<1>3. Put(t, s) = [rest EXCEPT ![s] = Cardinality(Stored(rest)) + 1]
  BY DEF Put
<1> HIDE DEF rest
<1>4. ASSUME NEW r \in Shas
      PROVE  /\ Put(t, s)[r] \in Nat
             /\ Put(t, s)[r] # 0 <=> r = s \/ rest[r] # 0
  BY <1>1, <1>2, <1>3 DEF Tables
<1>5. Put(t, s) \in Tables
  BY <1>1, <1>2, <1>3 DEF Tables
<1>6. Stored(Put(t, s)) = Stored(rest) \cup {s}
  BY <1>4 DEF Stored
<1> QED
  BY <1>1, <1>5, <1>6

\* Neither moves another version up.
LEMMA OthersNotRaised ==
  ASSUME NEW t \in Tables, NEW s \in Shas, NEW r \in Shas
  PROVE  /\ Drop(t, s)[r] <= t[r]
         /\ r # s => Put(t, s)[r] <= t[r]
<1>1. Drop(t, s)[r] <= t[r]
  BY DEF Drop, Tables
<1>2. Drop(t, s) \in Tables
  BY DropStored
<1>3. r # s => Put(t, s)[r] = Drop(t, s)[r]
  BY <1>2 DEF Put, Tables
<1> QED
  BY <1>1, <1>3
-----------------------------------------------------------------------------
\* at[s] is the timestamp of version s, 0 without row. Below(at, s): the rows
\* up to that of s; Place(at): how many they are.
Below(at, s) == {r \in Shas : at[r] # 0 /\ at[r] <= at[s]}

Place(at) == [s \in Shas |-> IF at[s] = 0 THEN 0 ELSE Cardinality(Below(at, s))]

Distinct(at) == \A r, s \in Shas : at[r] = at[s] /\ at[r] # 0 => r = s

LEMMA BelowFinite ==
  ASSUME NEW at, NEW s \in Shas
  PROVE  /\ IsFiniteSet(Below(at, s))
         /\ Cardinality(Below(at, s)) \in Nat
BY ShasAssumption, FS_Subset, FS_CardinalityType DEF Below

\* Places are ranks of exactly the rows there are ...
LEMMA PlaceStored ==
  ASSUME NEW at \in Tables
  PROVE  /\ Place(at) \in Tables
         /\ Stored(Place(at)) = Stored(at)
<1>1. ASSUME NEW s \in Shas
      PROVE  /\ Place(at)[s] \in Nat
             /\ Place(at)[s] # 0 <=> at[s] # 0
  <2>1. at[s] # 0 => s \in Below(at, s)
    BY DEF Below, Tables
  <2>2. at[s] # 0 => Cardinality(Below(at, s)) # 0
    BY <2>1, BelowFinite, FS_EmptySet
  <2> QED
    BY <2>2, BelowFinite DEF Place
<1>2. Place(at) = [s \in Shas |-> Place(at)[s]]
  BY DEF Place
<1> QED
  BY <1>1, <1>2 DEF Tables, Stored

\* ... and lie in the order of the timestamps.
LEMMA PlaceOrdered ==
  ASSUME NEW at \in Tables, NEW r \in Stored(at), NEW s \in Stored(at)
  PROVE  Place(at)[r] <= Place(at)[s] <=> at[r] <= at[s]
<1>1. /\ Place(at)[r] = Cardinality(Below(at, r))
      /\ Place(at)[s] = Cardinality(Below(at, s))
  BY DEF Place, Stored
<1>2. CASE at[r] <= at[s]
  <2>1. Below(at, r) \subseteq Below(at, s)
    BY <1>2 DEF Below, Tables, Stored
  <2> QED
    BY <1>1, <1>2, <2>1, BelowFinite, FS_Subset DEF Stored
<1>3. CASE at[s] < at[r]
  <2>1. Below(at, s) \subseteq Below(at, r) /\ r \in Below(at, r) /\ r \notin Below(at, s)
    BY <1>3 DEF Below, Tables, Stored
  <2>2. /\ Cardinality(Below(at, s)) <= Cardinality(Below(at, r))
        /\ Cardinality(Below(at, s)) # Cardinality(Below(at, r))
    BY <2>1, BelowFinite, FS_Subset DEF Stored
  <2>3. /\ Cardinality(Below(at, s)) \in Nat
        /\ Cardinality(Below(at, r)) \in Nat
    BY BelowFinite DEF Stored
  <2>4. ~(at[r] <= at[s])
    BY <1>3 DEF Tables, Stored
  <2> QED
    BY <1>1, <2>2, <2>3, <2>4
<1> QED
  BY <1>2, <1>3 DEF Tables, Stored

\* Deleting a row drops it.
LEMMA PlaceDrop ==
  ASSUME NEW at \in Tables, Distinct(at), NEW x \in Shas
  PROVE  Place([at EXCEPT ![x] = 0]) = Drop(Place(at), x)
<1> DEFINE rest == [at EXCEPT ![x] = 0]
<1>1. rest \in Tables /\ \A r \in Shas : rest[r] = IF r = x THEN 0 ELSE at[r]
  BY DEF Tables
<1> HIDE DEF rest
<1>2. ASSUME NEW r \in Shas
      PROVE  Place(rest)[r] = Drop(Place(at), x)[r]
  <2>1. CASE r = x \/ at[r] = 0
    <3>1. Place(rest)[r] = 0
      BY <1>1, <2>1 DEF Place
    <3>2. /\ at[r] = 0 => Place(at)[r] = 0
          /\ Place(at)[x] # 0 => Place(at)[x] \in Nat
      BY PlaceStored DEF Place, Tables
    <3>3. Drop(Place(at), x)[r] = 0
      BY <2>1, <3>2 DEF Drop
    <3> QED
      BY <3>1, <3>3
  <2>2. CASE r # x /\ at[r] # 0
    <3>1. Below(rest, r) = Below(at, r) \ {x}
      BY <1>1, <2>2 DEF Below
    <3>2. Place(rest)[r] = Cardinality(Below(rest, r))
      BY <1>1, <2>2 DEF Place
    <3>3. Place(at)[r] = Cardinality(Below(at, r))
      BY <2>2 DEF Place
    <3>4. Cardinality(Below(at, r) \ {x}) =
            IF x \in Below(at, r) THEN Cardinality(Below(at, r)) - 1
                                  ELSE Cardinality(Below(at, r))
      BY BelowFinite, FS_RemoveElement
    <3>5. x \in Below(at, r) <=> Place(at)[x] # 0 /\ Place(at)[r] > Place(at)[x]
      <4>1. CASE at[x] = 0
        BY <4>1 DEF Below, Place
      <4>2. CASE at[x] # 0
        <5>1. x \in Below(at, r) <=> at[x] <= at[r]
          BY <4>2 DEF Below
        <5>2. ~(at[r] <= at[x]) <=> at[x] <= at[r]
          BY <2>2, <4>2 DEF Distinct, Tables
        <5>3. Place(at)[r] <= Place(at)[x] <=> at[r] <= at[x]
          BY <2>2, <4>2, PlaceOrdered DEF Stored
        <5>4. Place(at)[x] # 0 /\ Place(at)[x] \in Nat /\ Place(at)[r] \in Nat
          BY <4>2, PlaceStored DEF Stored, Tables
        <5> QED
          BY <5>1, <5>2, <5>3, <5>4
      <4> QED
        BY <4>1, <4>2
    <3> QED
      BY <2>2, <3>1, <3>2, <3>3, <3>4, <3>5 DEF Drop
  <2> QED
    BY <2>1, <2>2
<1>3. /\ Place(rest) = [r \in Shas |-> Place(rest)[r]]
      /\ Drop(Place(at), x) = [r \in Shas |-> Drop(Place(at), x)[r]]
  BY DEF Place, Drop
<1>4. Place(rest) = Drop(Place(at), x)
  BY <1>2, <1>3
<1> QED
  BY <1>4 DEF rest

\* Writing a row with the latest timestamp puts it on top.
LEMMA PlacePut ==
  ASSUME NEW at \in Tables, Distinct(at), NEW x \in Shas, NEW now \in Nat,
         \A s \in Shas : at[s] < now
  PROVE  Place([at EXCEPT ![x] = now]) = Put(Place(at), x)
<1> DEFINE rest == [at EXCEPT ![x] = 0]
           new == [at EXCEPT ![x] = now]
<1>1. /\ rest \in Tables /\ \A r \in Shas : rest[r] = IF r = x THEN 0 ELSE at[r]
      /\ new \in Tables /\ \A r \in Shas : new[r] = IF r = x THEN now ELSE at[r]
      /\ now # 0
  BY DEF Tables
<1>2. Place(rest) = Drop(Place(at), x)
  BY PlaceDrop
<1> HIDE DEF rest, new
<1>3. ASSUME NEW r \in Shas, r # x
      PROVE  Place(new)[r] = Place(rest)[r]
  <2>1. at[r] # 0 => Below(new, r) = Below(rest, r)
    BY <1>1, <1>3 DEF Below, Tables
  <2> QED
    BY <1>1, <1>3, <2>1 DEF Place
<1>4. Place(new)[x] = Cardinality(Stored(Place(rest))) + 1
  <2>1. Below(new, x) = Stored(rest) \cup {x} /\ x \notin Stored(rest)
    BY <1>1 DEF Below, Stored, Tables
  <2>2. IsFiniteSet(Stored(rest))
    BY ShasAssumption, FS_Subset DEF Stored
  <2>3. Cardinality(Below(new, x)) = Cardinality(Stored(rest)) + 1
    BY <2>1, <2>2, FS_AddElement
  <2>4. Stored(Place(rest)) = Stored(rest)
    BY <1>1, PlaceStored
  <2> QED
    BY <1>1, <2>3, <2>4 DEF Place
<1>5. Put(Place(at), x) = [Place(rest) EXCEPT ![x] = Cardinality(Stored(Place(rest))) + 1]
  BY <1>2 DEF Put
<1>6. Place(new) \in Tables /\ Place(rest) \in Tables
  BY <1>1, PlaceStored
<1>7. Place(new) = Put(Place(at), x)
  BY <1>3, <1>4, <1>5, <1>6 DEF Tables
<1> QED
  BY <1>7 DEF new
-----------------------------------------------------------------------------
\* Ranks name every stored version once and leave no room above their number.
Ranked(t) ==
  /\ \A r, s \in Stored(t) : t[r] = t[s] => r = s
  /\ \A r \in Stored(t) : t[r] <= Cardinality(Stored(t))

LEMMA DropRanked ==
  ASSUME NEW t \in Tables, Ranked(t), NEW s \in Shas
  PROVE  Ranked(Drop(t, s))
<1> DEFINE n == Cardinality(Stored(t))
           rest == Drop(t, s)
<1>1. IsFiniteSet(Stored(t)) /\ n \in Nat
  BY ShasAssumption, FS_Subset, FS_CardinalityType DEF Stored
<1>2. rest \in Tables /\ Stored(rest) = Stored(t) \ {s}
  BY DropStored
<1>3. Cardinality(Stored(rest)) = IF s \in Stored(t) THEN n - 1 ELSE n
  BY <1>1, <1>2, FS_RemoveElement
<1>4. ASSUME NEW r \in Stored(rest)
      PROVE  /\ r \in Stored(t) /\ t[r] \in Nat /\ t[r] <= n
             /\ rest[r] = IF t[s] # 0 /\ t[r] > t[s] THEN t[r] - 1 ELSE t[r]
             /\ s \in Stored(t) => t[s] \in Nat /\ t[s] # 0 /\ t[s] <= n /\ t[r] # t[s]
             /\ s \notin Stored(t) => t[s] = 0
  BY <1>2 DEF Ranked, Drop, Stored, Tables
<1> HIDE DEF n, rest
<1>5. ASSUME NEW r \in Stored(rest), NEW q \in Stored(rest), rest[r] = rest[q]
      PROVE  r = q
  <2>1. t[r] = t[q]
    BY <1>4, <1>5
  <2> QED
    BY <1>4, <2>1 DEF Ranked
<1>6. ASSUME NEW r \in Stored(rest)
      PROVE  rest[r] <= Cardinality(Stored(rest))
  BY <1>1, <1>3, <1>4
<1>7. Ranked(rest)
  BY <1>5, <1>6 DEF Ranked
<1> QED
  BY <1>7 DEF rest

\* index_atomic makes its version the current one.
LEMMA PutOnTop ==
  ASSUME NEW t \in Tables, Ranked(t), NEW s \in Shas
  PROVE  Ranked(Put(t, s)) /\ IsCurrent(Put(t, s), s)
<1> DEFINE rest == Drop(t, s)
           n == Cardinality(Stored(rest))
           new == Put(t, s)
<1>1. /\ rest \in Tables /\ Ranked(rest) /\ s \notin Stored(rest)
      /\ new \in Tables /\ Stored(new) = Stored(rest) \cup {s}
      /\ new = [rest EXCEPT ![s] = n + 1]
  <2>1. rest \in Tables /\ Stored(rest) = Stored(t) \ {s}
    BY DropStored
  <2>2. new \in Tables /\ Stored(new) = Stored(t) \cup {s}
    BY PutStored
  <2>3. new = [rest EXCEPT ![s] = n + 1]
    BY DEF Put
  <2>4. Ranked(rest)
    BY DropRanked
  <2> HIDE DEF rest, new, n
  <2> QED
    BY <2>1, <2>2, <2>3, <2>4
<1>2. IsFiniteSet(Stored(rest)) /\ n \in Nat
  BY ShasAssumption, FS_Subset, FS_CardinalityType DEF Stored
<1>3. Cardinality(Stored(new)) = n + 1
  BY <1>1, <1>2, FS_AddElement
<1> HIDE DEF rest, n, new
<1>4. new[s] = n + 1
  BY <1>1 DEF Tables
<1>5. ASSUME NEW r \in Stored(rest)
      PROVE  new[r] = rest[r] /\ rest[r] \in Nat /\ rest[r] <= n
  <2>1. r \in Shas /\ r # s /\ rest[r] \in Nat
    BY <1>1 DEF Stored, Tables
  <2>2. rest[r] <= Cardinality(Stored(rest))
    BY <1>1 DEF Ranked
  <2> QED
    BY <1>1, <2>1, <2>2 DEF Tables, n
<1>6. ASSUME NEW r \in Stored(new) PROVE new[r] \in Nat /\ new[r] <= n + 1
  BY <1>1, <1>2, <1>4, <1>5
<1>7. ASSUME NEW r \in Stored(new), NEW q \in Stored(new), new[r] = new[q]
      PROVE  r = q
  <2>1. CASE r \in Stored(rest) /\ q \in Stored(rest)
    BY <1>1, <1>5, <1>7, <2>1 DEF Ranked
  <2>2. CASE r = s \/ q = s
    BY <1>1, <1>2, <1>4, <1>5, <1>7, <2>2
  <2> QED
    BY <1>1, <2>1, <2>2
<1>8. Ranked(new)
  BY <1>3, <1>6, <1>7 DEF Ranked
<1>9. IsCurrent(new, s)
  BY <1>1, <1>4, <1>6 DEF IsCurrent
<1> QED
  BY <1>8, <1>9 DEF new
=============================================================================
