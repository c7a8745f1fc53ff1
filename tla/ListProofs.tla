------------------------------ MODULE ListProofs ------------------------------
(***************************************************************************)
(* What Keep, RemoveAt and concatenation do to the elements of a list and  *)
(* to their order.                                                         *)
(***************************************************************************)
EXTENDS Integers, Lists, FiniteSetTheorems, FunctionTheorems, WellFoundedInduction, TLAPS

\* t comes before u in s.
Precedes(s, t, u) == \E i, j \in DOMAIN s : i < j /\ s[i] = t /\ s[j] = u

\* A nonempty set of natural numbers has a least element.
LEMMA LeastNumber ==
    ASSUME NEW T \in SUBSET Nat, T # {}
    PROVE  \E x \in T : \A y \in T : x <= y
<1> DEFINE R == {ss \in Nat \X Nat : ss[1] < ss[2]}
<1>1. IsWellFoundedOn(R, Nat)
  BY NatLessThanWellFounded, Zenon DEF OpToRel
<1> HIDE DEF R
<1>2. PICK x \in T : \A y \in T : ~(<<y, x>> \in R)
  BY <1>1, WFMin
<1>3. \A y \in T : <<y, x>> \in R <=> y < x
  BY DEF R
<1>4. \A y \in T : ~(y < x)
  BY <1>2, <1>3, Zenon
<1>5. \A y \in T : x <= y
  BY <1>4
<1> QED BY <1>5

\* A nonempty set of numbers up to n has a greatest element.
LEMMA GreatestNumber ==
    ASSUME NEW n \in Nat, NEW T \in SUBSET (1 .. n), T # {}
    PROVE  \E x \in T : \A y \in T : y <= x
<1> DEFINE U == {k \in Nat : \E x \in T : k = n - x}
<1>1. U \in SUBSET Nat
  OBVIOUS
<1>2. U # {}
  <2>1. PICK x \in T : TRUE
    OBVIOUS
  <2>2. n - x \in U
    OBVIOUS
  <2> QED BY <2>2
<1>3. \A x \in T : n - x \in U
  OBVIOUS
<1> HIDE DEF U
<1>4. PICK k \in U : \A l \in U : k <= l
  BY <1>1, <1>2, LeastNumber
<1>5. PICK x \in T : k = n - x
  BY <1>4 DEF U
<1>6. \A y \in T : n - x <= n - y
  BY <1>3, <1>4, <1>5
<1> QED BY <1>6

\* What is kept of a list is the list without the other elements.
LEMMA KeepProperties ==
    ASSUME NEW T, NEW s \in Seq(T), NEW S
    PROVE  /\ Keep(s, S) \in Seq(T)
           /\ ToSet(Keep(s, S)) = ToSet(s) \cap S
           /\ IsInjective(s) => IsInjective(Keep(s, S))
           /\ (\A i, j \in DOMAIN s : s[i] \in S /\ s[i] = s[j] => i = j) => IsInjective(Keep(s, S))
           /\ \A t, u : Precedes(Keep(s, S), t, u) <=> Precedes(s, t, u) /\ t \in S /\ u \in S
<1> DEFINE kept == {i \in DOMAIN s : s[i] \in S}
           Upto(i) == {j \in kept : j <= i}
           Place(k) == CHOOSE i \in kept : Cardinality(Upto(i)) = k
           n == Cardinality(kept)
           rank == [i \in kept |-> Cardinality(Upto(i))]
<1>0. Keep(s, S) = [k \in 1 .. n |-> s[Place(k)]]
  BY DEF Keep
<1>1. IsFiniteSet(kept) /\ kept \subseteq 1 .. Len(s) /\ n \in Nat
  <2>1. kept \in SUBSET (1 .. Len(s)) /\ Len(s) \in Int
    OBVIOUS
  <2>2. IsFiniteSet(1 .. Len(s))
    BY <2>1, FS_Interval
  <2>3. IsFiniteSet(kept)
    BY <2>1, <2>2, FS_Subset
  <2> QED BY <2>1, <2>3, FS_CardinalityType
<1>2. \A i \in kept : IsFiniteSet(Upto(i)) /\ rank[i] \in 1 .. n
  <2> SUFFICES ASSUME NEW i \in kept PROVE IsFiniteSet(Upto(i)) /\ Cardinality(Upto(i)) \in 1 .. n
    OBVIOUS
  <2>1. Upto(i) \in SUBSET kept
    OBVIOUS
  <2>2. IsFiniteSet(Upto(i)) /\ Cardinality(Upto(i)) <= n
    BY <1>1, <2>1, FS_Subset
  <2>3. Cardinality(Upto(i)) \in Nat
    BY <2>2, FS_CardinalityType
  <2>4. i \in Upto(i)
    BY <1>1
  <2>5. Cardinality(Upto(i)) # 0
    BY <2>2, <2>4, FS_EmptySet
  <2> HIDE DEF Upto, n
  <2> QED BY <1>1, <2>2, <2>3, <2>5
<1>3. \A i, j \in kept : i < j => rank[i] < rank[j]
  <2> SUFFICES ASSUME NEW i \in kept, NEW j \in kept, i < j
               PROVE  Cardinality(Upto(i)) < Cardinality(Upto(j))
    OBVIOUS
  <2>1. Upto(i) \in SUBSET Upto(j) /\ j \in Upto(j) /\ j \notin Upto(i)
    BY <1>1
  <2>2. /\ Cardinality(Upto(i)) <= Cardinality(Upto(j))
        /\ Cardinality(Upto(i)) # Cardinality(Upto(j))
    BY <1>2, <2>1, FS_Subset
  <2>3. Cardinality(Upto(i)) \in Nat /\ Cardinality(Upto(j)) \in Nat
    BY <1>2, FS_CardinalityType
  <2> HIDE DEF Upto
  <2> QED BY <2>2, <2>3
<1> HIDE DEF Upto
<1>4. rank \in [kept -> 1 .. n]
  BY <1>2
<1>5. rank \in Injection(kept, 1 .. n)
  <2> SUFFICES ASSUME NEW i \in kept, NEW j \in kept, rank[i] = rank[j] PROVE i = j
    BY <1>4, Zenon DEF Injection, IsInjective
  <2>1. i \in Nat /\ j \in Nat /\ rank[i] \in Nat /\ rank[j] \in Nat
    BY <1>1, <1>4
  <2> HIDE DEF rank, kept
  <2> QED BY <1>3, <2>1
<1>6. rank \in Surjection(kept, 1 .. n)
  <2>1. IsFiniteSet(1 .. n) /\ Cardinality(1 .. n) = n
    BY <1>1, FS_Interval
  <2> QED BY <1>5, <2>1, FS_Injection
<1>7. \A k \in 1 .. n : Place(k) \in kept /\ rank[Place(k)] = k
  <2> SUFFICES ASSUME NEW k \in 1 .. n PROVE Place(k) \in kept /\ rank[Place(k)] = k
    OBVIOUS
  <2>1. PICK i \in kept : rank[i] = k
    BY <1>6 DEF Surjection
  <2>2. Cardinality(Upto(i)) = k
    BY <2>1
  <2> HIDE DEF kept
  <2> QED BY <2>2
<1> HIDE DEF Place
<1>8. \A i \in kept : Place(rank[i]) = i
  <2> SUFFICES ASSUME NEW i \in kept PROVE Place(rank[i]) = i
    OBVIOUS
  <2>1. rank[i] \in 1 .. n
    BY <1>4
  <2> HIDE DEF rank, kept
  <2> QED BY <1>5, <1>7, <2>1 DEF Injection, IsInjective
<1>9. \A k, l \in 1 .. n : k < l => Place(k) < Place(l)
  <2> SUFFICES ASSUME NEW k \in 1 .. n, NEW l \in 1 .. n, k < l PROVE Place(k) < Place(l)
    OBVIOUS
  <2>1. kept \subseteq Nat /\ k \in Nat /\ l \in Nat
    BY <1>1
  <2> HIDE DEF rank, kept, n
  <2>2. Place(k) \in kept /\ rank[Place(k)] = k /\ Place(l) \in kept /\ rank[Place(l)] = l
    BY <1>7
  <2>3. Place(k) # Place(l)
    BY <2>1, <2>2
  <2>4. ASSUME Place(l) < Place(k) PROVE FALSE
    <3>1. rank[Place(l)] < rank[Place(k)]
      BY <1>3, <2>2, <2>4, Zenon
    <3>2. l < k
      BY <2>2, <3>1
    <3> QED BY <2>1, <3>2
  <2>5. Place(k) \in Nat /\ Place(l) \in Nat
    BY <2>1, <2>2
  <2> QED BY <2>3, <2>4, <2>5
<1> HIDE DEF rank
<1>10. Keep(s, S) \in Seq(T) /\ DOMAIN Keep(s, S) = 1 .. n
  <2>1. \A k \in 1 .. n : s[Place(k)] \in T
    BY <1>1, <1>7
  <2> HIDE DEF n
  <2> QED BY <1>0, <1>1, <2>1
<1>11. \A k \in 1 .. n : Keep(s, S)[k] = s[Place(k)]
  BY <1>0
<1>12. ToSet(Keep(s, S)) = ToSet(s) \cap S
  <2>1. ToSet(Keep(s, S)) \subseteq ToSet(s) \cap S
    BY <1>7, <1>10, <1>11 DEF ToSet
  <2>2. ASSUME NEW x \in ToSet(s) \cap S PROVE x \in ToSet(Keep(s, S))
    <3>1. PICK i \in kept : s[i] = x
      BY DEF ToSet
    <3>2. rank[i] \in 1 .. n /\ Keep(s, S)[rank[i]] = x
      BY <1>4, <1>8, <1>11, <3>1
    <3> QED BY <1>10, <3>2 DEF ToSet
  <2> QED BY <2>1, <2>2
<1>13. ASSUME \A i, j \in DOMAIN s : s[i] \in S /\ s[i] = s[j] => i = j
       PROVE  IsInjective(Keep(s, S))
  <2> SUFFICES ASSUME NEW k \in 1 .. n, NEW l \in 1 .. n, Keep(s, S)[k] = Keep(s, S)[l]
               PROVE  k = l
    BY <1>10 DEF IsInjective
  <2>1. Place(k) \in DOMAIN s /\ Place(l) \in DOMAIN s /\ s[Place(k)] \in S
    BY <1>7
  <2>2. Place(k) = Place(l)
    BY <1>11, <1>13, <2>1
  <2> QED BY <1>7, <2>2
<1>14. ASSUME NEW t, NEW u, Precedes(Keep(s, S), t, u)
       PROVE  Precedes(s, t, u) /\ t \in S /\ u \in S
  <2>1. PICK k \in 1 .. n, l \in 1 .. n : k < l /\ Keep(s, S)[k] = t /\ Keep(s, S)[l] = u
    BY <1>10, <1>14 DEF Precedes
  <2>2. Place(k) \in kept /\ Place(l) \in kept /\ Place(k) < Place(l)
    BY <1>7, <1>9, <2>1
  <2> QED BY <1>11, <2>1, <2>2 DEF Precedes
<1>15. ASSUME NEW t \in S, NEW u \in S, Precedes(s, t, u) PROVE Precedes(Keep(s, S), t, u)
  <2>1. PICK i \in kept, j \in kept : i < j /\ s[i] = t /\ s[j] = u
    BY <1>15 DEF Precedes
  <2>2. /\ rank[i] \in 1 .. n /\ rank[j] \in 1 .. n /\ rank[i] < rank[j]
        /\ Place(rank[i]) = i /\ Place(rank[j]) = j
    BY <1>3, <1>4, <1>8, <2>1
  <2> HIDE DEF kept, n
  <2> QED BY <1>10, <1>11, <2>1, <2>2 DEF Precedes
<1>16. \A t, u : Precedes(Keep(s, S), t, u) <=> Precedes(s, t, u) /\ t \in S /\ u \in S
  <2> SUFFICES ASSUME NEW t, NEW u
               PROVE  Precedes(Keep(s, S), t, u) <=> Precedes(s, t, u) /\ t \in S /\ u \in S
    OBVIOUS
  <2>1. Precedes(Keep(s, S), t, u) => Precedes(s, t, u) /\ t \in S /\ u \in S
    BY <1>14
  <2>2. Precedes(s, t, u) /\ t \in S /\ u \in S => Precedes(Keep(s, S), t, u)
    BY <1>15
  <2> QED BY <2>1, <2>2
<1>17. Keep(s, S) \in Seq(T)
  BY <1>10
<1>18. IsInjective(s) => IsInjective(Keep(s, S))
  BY <1>13 DEF IsInjective
<1> QED BY <1>12, <1>13, <1>16, <1>17, <1>18, Zenon

\* A list without the element at position i.
LEMMA RemoveAtProperties ==
    ASSUME NEW T, NEW q \in Seq(T), NEW i \in DOMAIN q
    PROVE  /\ RemoveAt(q, i) \in Seq(T) /\ ToSet(RemoveAt(q, i)) \subseteq ToSet(q)
           /\ IsInjective(q) => /\ IsInjective(RemoveAt(q, i))
                               /\ ToSet(RemoveAt(q, i)) = ToSet(q) \ {q[i]}
           /\ \A t, u : Precedes(RemoveAt(q, i), t, u) => Precedes(q, t, u)
<1> DEFINE r == RemoveAt(q, i)
           From(j) == IF j < i THEN j ELSE j + 1
<1>1. /\ r \in Seq(T) /\ DOMAIN r = 1 .. Len(q) - 1
      /\ \A j \in 1 .. Len(q) - 1 : r[j] = q[From(j)]
  <2> DEFINE b == SubSeq(q, 1, i - 1)
             e == SubSeq(q, i + 1, Len(q))
  <2>1. i \in 1 .. Len(q) /\ Len(q) \in Nat
    OBVIOUS
  <2>2. b \in Seq(T) /\ Len(b) = i - 1 /\ \A j \in 1 .. i - 1 : b[j] = q[j]
    BY <2>1
  <2>3. e \in Seq(T) /\ Len(e) = Len(q) - i /\ \A j \in 1 .. Len(q) - i : e[j] = q[i + j]
    BY <2>1
  <2>4. r = b \o e
    BY DEF RemoveAt
  <2> HIDE DEF b, e, r
  <2>5. r \in Seq(T) /\ Len(r) = Len(q) - 1
    BY <2>1, <2>2, <2>3, <2>4
  <2>6. ASSUME NEW j \in 1 .. Len(q) - 1 PROVE r[j] = q[From(j)]
    <3>1. CASE j < i
      BY <2>1, <2>2, <2>3, <2>4, <3>1
    <3>2. CASE ~(j < i)
      <4>1. r[j] = e[j - (i - 1)] /\ j - (i - 1) \in 1 .. Len(q) - i
        BY <2>1, <2>2, <2>3, <2>4, <3>2, SMTT(30)
      <4> QED BY <2>1, <2>3, <3>2, <4>1
    <3> QED BY <3>1, <3>2
  <2> QED BY <2>5, <2>6
<1> HIDE DEF r
<1>2. \A j \in 1 .. Len(q) - 1 : From(j) \in DOMAIN q /\ From(j) # i
  OBVIOUS
<1>3. \A j, k \in 1 .. Len(q) - 1 : j < k => From(j) < From(k)
  OBVIOUS
<1>4. \A k \in DOMAIN q : k # i => \E j \in 1 .. Len(q) - 1 : From(j) = k
  <2> SUFFICES ASSUME NEW k \in DOMAIN q, k # i PROVE \E j \in 1 .. Len(q) - 1 : From(j) = k
    OBVIOUS
  <2>1. CASE k < i
    <3>1. k \in 1 .. Len(q) - 1 /\ From(k) = k
      BY <2>1
    <3> QED BY <3>1
  <2>2. CASE i < k
    <3>1. k - 1 \in 1 .. Len(q) - 1 /\ From(k - 1) = k
      BY <2>2
    <3> QED BY <3>1
  <2> QED BY <2>1, <2>2
<1>5. ASSUME IsInjective(q) PROVE IsInjective(r)
  BY <1>1, <1>2, <1>5, SMTT(30) DEF IsInjective
<1> HIDE DEF From
<1>6. ASSUME IsInjective(q) PROVE ToSet(r) = ToSet(q) \ {q[i]}
  <2>1. ToSet(r) \subseteq ToSet(q) \ {q[i]}
    BY <1>1, <1>2, <1>6 DEF ToSet, IsInjective
  <2>2. ToSet(q) \ {q[i]} \subseteq ToSet(r)
    BY <1>1, <1>4 DEF ToSet
  <2> QED BY <2>1, <2>2
<1>7. ASSUME NEW t, NEW u, Precedes(r, t, u) PROVE Precedes(q, t, u)
  <2>1. PICK j \in 1 .. Len(q) - 1, k \in 1 .. Len(q) - 1 : j < k /\ r[j] = t /\ r[k] = u
    BY <1>1, <1>7 DEF Precedes
  <2> QED BY <1>1, <1>2, <1>3, <2>1 DEF Precedes
<1>8. ToSet(r) \subseteq ToSet(q)
  BY <1>1, <1>2 DEF ToSet
<1> QED BY <1>1, <1>5, <1>6, <1>7, <1>8 DEF r

\* Two lists without a common element, one after the other.
LEMMA JoinedLists ==
    ASSUME NEW T, NEW r \in Seq(T), NEW s \in Seq(T)
    PROVE  /\ r \o s \in Seq(T)
           /\ ToSet(r \o s) = ToSet(r) \cup ToSet(s)
           /\ IsInjective(r) /\ IsInjective(s) /\ ToSet(r) \cap ToSet(s) = {} => IsInjective(r \o s)
           /\ \A t, u : Precedes(r \o s, t, u) =>
                \/ Precedes(r, t, u) \/ Precedes(s, t, u)
                \/ t \in ToSet(r) /\ u \in ToSet(s)
<1> DEFINE c == r \o s
<1>1. /\ c \in Seq(T) /\ Len(c) = Len(r) + Len(s) /\ DOMAIN c = 1 .. Len(r) + Len(s)
      /\ \A i \in DOMAIN c : c[i] = IF i <= Len(r) THEN r[i] ELSE s[i - Len(r)]
  OBVIOUS
<1>2. Len(r) \in Nat /\ Len(s) \in Nat /\ DOMAIN r = 1 .. Len(r) /\ DOMAIN s = 1 .. Len(s)
  OBVIOUS
<1> HIDE DEF c
<1>3. \A i \in DOMAIN c : i \in Nat
        /\ ((i \in DOMAIN r /\ c[i] = r[i]) \/ (i > Len(r) /\ i - Len(r) \in DOMAIN s /\ c[i] = s[i - Len(r)]))
  BY <1>1, <1>2
<1>4. ToSet(c) = ToSet(r) \cup ToSet(s)
  <2>1. ToSet(c) \subseteq ToSet(r) \cup ToSet(s)
    BY <1>3 DEF ToSet
  <2>2. \A i \in DOMAIN r : i \in DOMAIN c /\ c[i] = r[i]
    BY <1>1, <1>2
  <2>3. \A i \in DOMAIN s : i + Len(r) \in DOMAIN c /\ c[i + Len(r)] = s[i]
    BY <1>1, <1>2
  <2>4. ToSet(r) \subseteq ToSet(c)
    BY <2>2 DEF ToSet
  <2>5. ToSet(s) \subseteq ToSet(c)
    BY <2>3 DEF ToSet
  <2> QED BY <2>1, <2>4, <2>5
<1>5. ASSUME IsInjective(r), IsInjective(s), ToSet(r) \cap ToSet(s) = {} PROVE IsInjective(c)
  <2> SUFFICES ASSUME NEW i \in DOMAIN c, NEW j \in DOMAIN c, c[i] = c[j] PROVE i = j
    BY DEF IsInjective
  <2>1. \A k \in DOMAIN r, l \in DOMAIN s : r[k] # s[l]
    BY <1>5 DEF ToSet
  <2>2. CASE i \in DOMAIN r /\ j \in DOMAIN r
    BY <1>1, <1>2, <1>5, <2>2 DEF IsInjective
  <2>3. CASE i \notin DOMAIN r /\ j \notin DOMAIN r
    <3>1. i - Len(r) = j - Len(r)
      BY <1>3, <1>5, <2>3 DEF IsInjective
    <3> QED BY <1>2, <1>3, <3>1
  <2>4. CASE i \in DOMAIN r /\ j \notin DOMAIN r
    BY <1>1, <1>2, <1>3, <2>1, <2>4
  <2>5. CASE i \notin DOMAIN r /\ j \in DOMAIN r
    BY <1>1, <1>2, <1>3, <2>1, <2>5
  <2> QED BY <2>2, <2>3, <2>4, <2>5
<1>6. ASSUME NEW t, NEW u, Precedes(c, t, u)
      PROVE  Precedes(r, t, u) \/ Precedes(s, t, u) \/ (t \in ToSet(r) /\ u \in ToSet(s))
  <2>1. PICK i \in DOMAIN c, j \in DOMAIN c : i < j /\ c[i] = t /\ c[j] = u
    BY <1>6 DEF Precedes
  <2>2. i \in Nat /\ j \in Nat
    BY <1>3
  <2>3. CASE j \in DOMAIN r
    <3>1. i \in DOMAIN r /\ c[i] = r[i] /\ c[j] = r[j]
      BY <1>1, <1>2, <2>1, <2>2, <2>3
    <3> QED BY <2>1, <2>3, <3>1 DEF Precedes
  <2>4. CASE i \notin DOMAIN r /\ j \notin DOMAIN r
    <3>1. /\ i - Len(r) \in DOMAIN s /\ c[i] = s[i - Len(r)]
          /\ j - Len(r) \in DOMAIN s /\ c[j] = s[j - Len(r)]
      BY <1>3, <2>4
    <3>2. i - Len(r) < j - Len(r)
      BY <1>2, <2>1, <2>2
    <3> QED BY <2>1, <3>1, <3>2 DEF Precedes
  <2>5. CASE i \in DOMAIN r /\ j \notin DOMAIN r
    <3>1. c[i] = r[i]
      BY <1>1, <1>2, <2>5
    <3>2. j - Len(r) \in DOMAIN s /\ c[j] = s[j - Len(r)]
      BY <1>3, <2>5
    <3> QED BY <2>1, <2>5, <3>1, <3>2 DEF ToSet
  <2> QED BY <2>3, <2>4, <2>5
<1> QED BY <1>1, <1>4, <1>5, <1>6 DEF c

\* A list of different elements of a finite set is no longer than the set.
LEMMA ListFits ==
    ASSUME NEW T, IsFiniteSet(T), NEW s \in Seq(T), IsInjective(s)
    PROVE  Len(s) <= Cardinality(T)
<1>1. s \in Injection(1 .. Len(s), T)
  BY DEF Injection, IsInjective
<1>2. Cardinality(1 .. Len(s)) <= Cardinality(T)
  BY <1>1, FS_Injection
<1>3. Cardinality(1 .. Len(s)) = Len(s)
  <2>1. 1 \in Int /\ Len(s) \in Int /\ Len(s) \in Nat
    OBVIOUS
  <2>2. Cardinality(1 .. Len(s)) = IF 1 > Len(s) THEN 0 ELSE Len(s) - 1 + 1
    BY <2>1, FS_Interval
  <2> QED BY <2>1, <2>2
<1> QED BY <1>2, <1>3

\* The first n elements of a list.
LEMMA Prefix ==
    ASSUME NEW T, NEW s \in Seq(T), NEW n \in Nat, n <= Len(s)
    PROVE  /\ SubSeq(s, 1, n) \in Seq(T) /\ ToSet(SubSeq(s, 1, n)) \subseteq ToSet(s)
           /\ Len(SubSeq(s, 1, n)) = n
           /\ n = Len(s) => SubSeq(s, 1, n) = s
<1> DEFINE p == SubSeq(s, 1, n)
<1>1. /\ p \in Seq(T) /\ Len(p) = n /\ DOMAIN p = 1 .. n
      /\ \A i \in 1 .. n : p[i] = s[i] /\ i \in DOMAIN s
  OBVIOUS
<1>2. n = Len(s) => p = s
  OBVIOUS
<1> HIDE DEF p
<1> QED BY <1>1, <1>2 DEF ToSet, p

\* A list is a list of the things it holds.
LEMMA ListOver ==
    ASSUME NEW T, NEW s \in Seq(T), NEW U, ToSet(s) \subseteq U
    PROVE  s \in Seq(U)
<1>1. \A i \in 1 .. Len(s) : s[i] \in U
  BY DEF ToSet
<1> QED BY <1>1
===============================================================================
