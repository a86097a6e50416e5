-------------------------- MODULE OccurrenceLemmas --------------------------
(***************************************************************************)
(* Lemmas about counting: what appending, taking off and moving sequences  *)
(* does to the number of occurrences of a value.                           *)
(***************************************************************************)
EXTENDS Occurrences, FiniteSetTheorems, FunctionTheorems, SequenceTheorems, TLAPS

\* The cardinality of a disjoint union.
LEMMA DisjointUnion ==
  ASSUME NEW A, IsFiniteSet(A), NEW B, IsFiniteSet(B), A \cap B = {}
  PROVE  Cardinality(A \cup B) = Cardinality(A) + Cardinality(B)
<1>1. Cardinality(A) \in Nat /\ Cardinality(B) \in Nat
  BY FS_CardinalityType
<1>2. Cardinality(A \cup B) = Cardinality(A) + Cardinality(B) - Cardinality(A \cap B)
  BY FS_Union
<1>3. Cardinality(A \cap B) = 0
  BY FS_EmptySet
<1> QED
  BY <1>1, <1>2, <1>3

\* The places of a value in a sequence are finitely many.
LEMMA PlacesFinite ==
  ASSUME NEW T, NEW s \in Seq(T), NEW o
  PROVE  IsFiniteSet(Places(s, o)) /\ Count(s, o) \in Nat
<1>1. IsFiniteSet(1 .. Len(s))
  BY FS_Interval, LenProperties
<1>2. Places(s, o) \in SUBSET (1 .. Len(s))
  BY LenProperties DEF Places
<1>3. IsFiniteSet(Places(s, o))
  BY <1>1, <1>2, FS_Subset
<1> QED
  BY <1>3, FS_CardinalityType DEF Count

\* A value occurs exactly in the sequences it is an element of.
LEMMA CountPositive ==
  ASSUME NEW T, NEW s \in Seq(T), NEW o
  PROVE  Count(s, o) > 0 <=> o \in Elems(s)
<1>1. Places(s, o) = {} <=> o \notin Elems(s)
  BY DEF Places, Elems
<1>2. Count(s, o) = 0 <=> Places(s, o) = {}
  BY PlacesFinite, FS_EmptySet DEF Count
<1> QED
  BY <1>1, <1>2, PlacesFinite

\* Nothing occurs in the empty sequence.
LEMMA CountEmpty ==
  ASSUME NEW o
  PROVE  Count(<<>>, o) = 0
<1>1. Places(<<>>, o) = {}
  BY DEF Places
<1> QED
  BY <1>1, FS_EmptySet DEF Count

\* The only element of a sequence occurs once.
LEMMA CountOne ==
  ASSUME NEW x, NEW o
  PROVE  Count(<<x>>, o) = IF x = o THEN 1 ELSE 0
<1>1. Places(<<x>>, o) = IF x = o THEN {1} ELSE {}
  BY DEF Places
<1> QED
  BY <1>1, FS_EmptySet, FS_Singleton DEF Count

\* The elements of a concatenation.
LEMMA ElemsConcat ==
  ASSUME NEW T, NEW s \in Seq(T), NEW u \in Seq(T)
  PROVE  Elems(s \o u) = Elems(s) \cup Elems(u)
<1>1. ASSUME NEW i \in DOMAIN s
      PROVE  s[i] \in Elems(s \o u)
  <2>1. i \in DOMAIN (s \o u) /\ (s \o u)[i] = s[i]
    OBVIOUS
  <2> QED
    BY <2>1 DEF Elems
<1>2. ASSUME NEW i \in DOMAIN u
      PROVE  u[i] \in Elems(s \o u)
  <2>1. Len(s) + i \in DOMAIN (s \o u) /\ (s \o u)[Len(s) + i] = u[i]
    OBVIOUS
  <2> QED
    BY <2>1 DEF Elems
<1>3. ASSUME NEW i \in DOMAIN (s \o u)
      PROVE  (s \o u)[i] \in Elems(s) \cup Elems(u)
  <2>1. CASE i <= Len(s)
    <3>1. i \in DOMAIN s /\ (s \o u)[i] = s[i]
      BY <2>1
    <3> QED
      BY <3>1 DEF Elems
  <2>2. CASE ~(i <= Len(s))
    <3>1. i - Len(s) \in DOMAIN u /\ (s \o u)[i] = u[i - Len(s)]
      BY <2>2
    <3> QED
      BY <3>1 DEF Elems
  <2> QED
    BY <2>1, <2>2
<1> QED
  BY <1>1, <1>2, <1>3 DEF Elems

\* Concatenation adds.
LEMMA CountConcat ==
  ASSUME NEW T, NEW s \in Seq(T), NEW u \in Seq(T), NEW o
  PROVE  Count(s \o u, o) = Count(s, o) + Count(u, o)
<1> DEFINE m == Len(s)
           P == Places(s, o)
           Q == Places(u, o)
           R == Places(s \o u, o) \ P
           f == [i \in Q |-> m + i]
<1>1. /\ m \in Nat /\ Len(u) \in Nat
      /\ DOMAIN s = 1 .. m /\ DOMAIN u = 1 .. Len(u) /\ DOMAIN (s \o u) = 1 .. m + Len(u)
      /\ \A i \in 1 .. m : (s \o u)[i] = s[i]
      /\ \A i \in 1 .. Len(u) : (s \o u)[m + i] = u[i]
  BY LenProperties, ConcatProperties
<1>2. P \subseteq Places(s \o u, o) /\ P \subseteq 1 .. m
  BY <1>1 DEF Places
<1>3. R = {i \in m + 1 .. m + Len(u) : (s \o u)[i] = o}
  BY <1>1 DEF Places
<1>4. f \in [Q -> R]
  <2>1. \A i \in Q : m + i \in R
    BY <1>1, <1>3 DEF Places
  <2> QED
    BY <2>1
<1>5. \A i, j \in Q : f[i] = f[j] => i = j
  BY <1>1 DEF Places
<1>6. \A r \in R : \E i \in Q : f[i] = r
  <2> TAKE r \in R
  <2>1. r - m \in 1 .. Len(u) /\ m + (r - m) = r
    BY <1>1, <1>3
  <2>2. r - m \in Q
    BY <1>1, <1>3, <2>1 DEF Places
  <2> QED
    BY <2>1, <2>2
<1>7. IsFiniteSet(Q) /\ IsFiniteSet(P) /\ Cardinality(P) \in Nat /\ Cardinality(Q) \in Nat
  BY PlacesFinite DEF Count
<1>8. IsFiniteSet(R) /\ Cardinality(R) = Cardinality(Q)
  <2> HIDE DEF f, Q, R
  <2>1. f \in Bijection(Q, R)
    BY <1>4, <1>5, <1>6, Fun_IsBij
  <2> QED
    BY <2>1, <1>7, FS_Bijection DEF ExistsBijection
<1>9. Places(s \o u, o) = P \cup R /\ P \cap R = {}
  BY <1>2
<1> HIDE DEF P, R
<1>10. Cardinality(P \cup R) = Cardinality(P) + Cardinality(R)
  BY <1>7, <1>8, <1>9, DisjointUnion
<1> QED
  BY <1>8, <1>9, <1>10 DEF Count, P

\* Taking off the first element.
LEMMA CountTail ==
  ASSUME NEW T, NEW s \in Seq(T), s # <<>>, NEW o
  PROVE  Count(s, o) = Count(Tail(s), o) + (IF Head(s) = o THEN 1 ELSE 0)
<1>1. /\ Head(s) \in T /\ Tail(s) \in Seq(T) /\ <<Head(s)>> \in Seq(T)
      /\ s = <<Head(s)>> \o Tail(s)
  BY HeadTailProperties, SeqEqual
<1>2. Count(<<Head(s)>> \o Tail(s), o) = Count(<<Head(s)>>, o) + Count(Tail(s), o)
  BY <1>1, CountConcat
<1>3. Count(<<Head(s)>>, o) = IF Head(s) = o THEN 1 ELSE 0
  BY CountOne
<1>4. Count(Tail(s), o) \in Nat
  BY <1>1, PlacesFinite
<1>5. Count(s, o) = Count(<<Head(s)>> \o Tail(s), o)
  BY <1>1
<1> QED
  BY <1>2, <1>3, <1>4, <1>5

\* Putting one behind the last.
LEMMA CountAppend ==
  ASSUME NEW T, NEW s \in Seq(T), NEW x \in T, NEW o
  PROVE  Count(Append(s, x), o) = Count(s, o) + (IF x = o THEN 1 ELSE 0)
<1>1. Append(s, x) = s \o <<x>> /\ <<x>> \in Seq(T)
  OBVIOUS
<1>2. Count(s \o <<x>>, o) = Count(s, o) + Count(<<x>>, o)
  BY <1>1, CountConcat
<1>3. Count(<<x>>, o) = IF x = o THEN 1 ELSE 0
  BY CountOne
<1> QED
  BY <1>1, <1>2, <1>3

-----------------------------------------------------------------------------
\* A sequence for each owner, all over the values T.
Lists(S, T) == [S -> Seq(T)]

\* The places of o with all their owners are finitely many.
LEMMA OwnedFinite ==
  ASSUME NEW T, NEW S, IsFiniteSet(S), NEW f \in Lists(S, T), NEW o
  PROVE  IsFiniteSet(OwnedPlaces(S, f, o)) /\ Occurrences(S, f, o) \in Nat
<1> DEFINE own(x) == {x} \X Places(f[x], o)
           h == [x \in S |-> own(x)]
           H == {own(x) : x \in S}
<1>1. h \in Surjection(S, H)
  <2>1. h \in [S -> H]
    OBVIOUS
  <2>2. \A y \in H : \E x \in S : h[x] = y
    OBVIOUS
  <2> HIDE DEF h, H
  <2> QED
    BY <2>1, <2>2, Fun_IsSurj
<1>2. IsFiniteSet(H)
  BY <1>1, FS_Surjection
<1>3. \A x \in S : IsFiniteSet(own(x))
  <2> TAKE x \in S
  <2>1. IsFiniteSet({x}) /\ IsFiniteSet(Places(f[x], o))
    BY FS_Singleton, PlacesFinite DEF Lists
  <2> QED
    BY <2>1, FS_Product
<1>4. \A y \in H : IsFiniteSet(y)
  BY <1>3
<1>5. IsFiniteSet(UNION H)
  <2> HIDE DEF H
  <2> QED
    BY <1>2, <1>4, FS_UNION
<1>6. OwnedPlaces(S, f, o) = UNION H
  BY DEF OwnedPlaces
<1> QED
  BY <1>5, <1>6, FS_CardinalityType DEF Occurrences

\* A value occurs exactly if one of the owners has it.
LEMMA OccurrencesPositive ==
  ASSUME NEW T, NEW S, IsFiniteSet(S), NEW f \in Lists(S, T), NEW o
  PROVE  Occurrences(S, f, o) > 0 <=> \E x \in S : o \in Elems(f[x])
<1>1. OwnedPlaces(S, f, o) # {} <=> \E x \in S : Places(f[x], o) # {}
  <2>1. ASSUME NEW x \in S, NEW i \in Places(f[x], o)
        PROVE  OwnedPlaces(S, f, o) # {}
    <3>1. <<x, i>> \in OwnedPlaces(S, f, o)
      BY <2>1 DEF OwnedPlaces
    <3> QED
      BY <3>1
  <2>2. ASSUME NEW p \in OwnedPlaces(S, f, o)
        PROVE  \E x \in S : Places(f[x], o) # {}
    BY <2>2 DEF OwnedPlaces
  <2> QED
    BY <2>1, <2>2
<1>2. \A x \in S : Places(f[x], o) # {} <=> o \in Elems(f[x])
  BY DEF Places, Elems
<1>3. Occurrences(S, f, o) = 0 <=> OwnedPlaces(S, f, o) = {}
  BY OwnedFinite, FS_EmptySet DEF Occurrences
<1>4. Occurrences(S, f, o) \in Nat
  BY OwnedFinite
<1>5. Occurrences(S, f, o) > 0 <=> OwnedPlaces(S, f, o) # {}
  BY <1>3, <1>4
<1> QED
  BY <1>1, <1>2, <1>5

\* The occurrences are those of one owner and those of the others.
LEMMA OccurrencesSplit ==
  ASSUME NEW T, NEW S, IsFiniteSet(S), NEW f \in Lists(S, T), NEW x \in S, NEW o
  PROVE  /\ IsFiniteSet(OwnedPlaces(S \ {x}, f, o))
         /\ Cardinality(OwnedPlaces(S \ {x}, f, o)) \in Nat
         /\ Occurrences(S, f, o)
               = Cardinality(OwnedPlaces(S \ {x}, f, o)) + Count(f[x], o)
<1> DEFINE A == OwnedPlaces(S \ {x}, f, o)
           B == {x} \X Places(f[x], o)
<1>1. OwnedPlaces(S, f, o) = A \cup B
  BY DEF OwnedPlaces
<1>2. A \cap B = {}
  BY DEF OwnedPlaces
<1>3. IsFiniteSet(OwnedPlaces(S, f, o))
  BY OwnedFinite
<1>4. IsFiniteSet(A) /\ IsFiniteSet(B) /\ Cardinality(A) \in Nat
  <2>1. A \in SUBSET OwnedPlaces(S, f, o) /\ B \in SUBSET OwnedPlaces(S, f, o)
    BY <1>1
  <2> QED
    BY <2>1, <1>3, FS_Subset, FS_CardinalityType
<1>5. Cardinality(B) = Count(f[x], o)
  <2>1. /\ IsFiniteSet({x}) /\ IsFiniteSet(Places(f[x], o))
        /\ Cardinality({x}) = 1 /\ Count(f[x], o) \in Nat
    BY FS_Singleton, PlacesFinite DEF Lists
  <2>2. Cardinality(B) = 1 * Count(f[x], o)
    BY <2>1, FS_Product DEF Count
  <2> QED
    BY <2>1, <2>2
<1> HIDE DEF A, B
<1>6. Cardinality(A \cup B) = Cardinality(A) + Cardinality(B)
  BY <1>2, <1>4, DisjointUnion
<1> QED
  BY <1>1, <1>4, <1>5, <1>6 DEF Occurrences, A

\* One owner's sequence changes: what it loses and what it gains is what all
\* lose and gain.
LEMMA OccurrencesMove ==
  ASSUME NEW T, NEW S, IsFiniteSet(S), NEW x \in S, NEW o,
         NEW p \in Lists(S, T), NEW q \in Lists(S, T),
         \A y \in S \ {x} : q[y] = p[y]
  PROVE  Occurrences(S, q, o) + Count(p[x], o) = Occurrences(S, p, o) + Count(q[x], o)
<1> DEFINE n(h) == Cardinality(OwnedPlaces(S \ {x}, h, o))
<1>1. n(p) = n(q)
  BY DEF OwnedPlaces
<1>2. Count(p[x], o) \in Nat /\ Count(q[x], o) \in Nat
  BY PlacesFinite DEF Lists
<1>3. n(p) \in Nat /\ Occurrences(S, p, o) = n(p) + Count(p[x], o)
  BY OccurrencesSplit
<1>4. n(q) \in Nat /\ Occurrences(S, q, o) = n(q) + Count(q[x], o)
  BY OccurrencesSplit
<1> HIDE DEF n
<1> QED
  BY <1>1, <1>2, <1>3, <1>4
=============================================================================
