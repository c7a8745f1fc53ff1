----------------------------- MODULE TimingProofs -----------------------------
(***************************************************************************)
(* Proofs about Timing, for any number of cores, slice length, tolerated   *)
(* delay and overshoot: types, punctual events, bounded drift and clocks   *)
(* that never go back.                                                     *)
(***************************************************************************)
EXTENDS Timing, FiniteSetTheorems, WellFoundedInduction, TLAPS

Lists == INSTANCE ListProofs

-------------------------------------------------------------------------------
(* Numbers                                                                 *)

\* The ticks by which k slices may be overshot.
Over(k) == k * Overshoot

LEMMA OverArithmetic ==
    /\ Over(0) = 0 /\ Over(1) = Overshoot
    /\ \A k, l \in Int : /\ Over(k) \in Int
                         /\ Over(k + l) = Over(k) + Over(l) /\ Over(k - l) = Over(k) - Over(l)
                         /\ k <= l => Over(k) <= Over(l)
<1>1. Overshoot \in Nat
  BY TimingAssumption
<1>2. Over(0) = 0 /\ Over(1) = Overshoot
  BY <1>1 DEF Over
<1>3. ASSUME NEW k \in Int, NEW l \in Int
      PROVE  /\ Over(k) \in Int
             /\ Over(k + l) = Over(k) + Over(l) /\ Over(k - l) = Over(k) - Over(l)
             /\ k <= l => Over(k) <= Over(l)
  <2>1. Over(k) \in Int /\ Over(k + l) = Over(k) + Over(l) /\ Over(k - l) = Over(k) - Over(l)
    BY <1>1 DEF Over
  <2>2. ASSUME k <= l PROVE Over(k) <= Over(l)
    BY <1>1, <2>2 DEF Over
  <2> QED BY <2>1, <2>2
<1> QED BY <1>2, <1>3

\* Finitely many numbers have a greatest one.
LEMMA Greatest ==
    ASSUME NEW n \in Nat \ {0}, NEW f \in [0 .. n - 1 -> Int]
    PROVE  \E m \in 0 .. n - 1 : \A k \in 0 .. n - 1 : f[k] <= f[m]
<1> DEFINE HasGreatest(k) == \A g \in [0 .. k - 1 -> Int] :
                               \E m \in 0 .. k - 1 : \A j \in 0 .. k - 1 : g[j] <= g[m]
           Bad == {k \in Nat : k # 0 /\ ~HasGreatest(k)}
<1>1. Bad = {}
  <2>1. SUFFICES ASSUME Bad # {} PROVE FALSE
    OBVIOUS
  <2>2. PICK k \in Bad : \A j \in Bad : k <= j
    <3>1. Bad \in SUBSET Nat
      OBVIOUS
    <3> HIDE DEF Bad
    <3> QED BY <2>1, <3>1, Lists!LeastNumber
  <2>3. k \in Nat /\ k # 0 /\ ~HasGreatest(k)
    OBVIOUS
  <2>4. PICK g \in [0 .. k - 1 -> Int] :
               ~ \E m \in 0 .. k - 1 : \A j \in 0 .. k - 1 : g[j] <= g[m]
    BY <2>3
  <2>5. CASE k = 1
    <3>1. 0 \in 0 .. k - 1 /\ g[0] \in Int /\ \A j \in 0 .. k - 1 : j = 0
      BY <2>4, <2>5
    <3>2. \A j \in 0 .. k - 1 : g[j] <= g[0]
      <4> SUFFICES ASSUME NEW j \in 0 .. k - 1 PROVE g[j] <= g[0]
        OBVIOUS
      <4>1. j = 0
        BY <3>1
      <4> QED BY <3>1, <4>1
    <3> QED BY <2>4, <3>1, <3>2
  <2>6. CASE k # 1
    <3>1. k - 1 \in Nat /\ k - 1 # 0 /\ k - 1 \notin Bad
      <4> HIDE DEF Bad, HasGreatest
      <4>1. k - 1 \in Nat /\ k - 1 # 0 /\ ~(k <= k - 1)
        BY <2>3, <2>6
      <4> QED BY <2>2, <4>1
    <3>2. HasGreatest(k - 1)
      BY <3>1
    <3>3. [j \in 0 .. (k - 1) - 1 |-> g[j]] \in [0 .. (k - 1) - 1 -> Int]
      BY <2>3, <2>4
    <3>4. PICK m \in 0 .. (k - 1) - 1 : \A j \in 0 .. (k - 1) - 1 : g[j] <= g[m]
      BY <3>2, <3>3
    <3>5. \A j \in 0 .. k - 1 : j = k - 1 \/ j \in 0 .. (k - 1) - 1
      BY <2>3
    <3>6. m \in 0 .. k - 1 /\ k - 1 \in 0 .. k - 1 /\ g[m] \in Int /\ g[k - 1] \in Int
      BY <2>3, <2>4
    <3>7. CASE g[k - 1] <= g[m]
      <4>1. \A j \in 0 .. k - 1 : g[j] <= g[m]
        BY <2>4, <3>4, <3>5, <3>6, <3>7
      <4> QED BY <2>4, <3>6, <4>1
    <3>8. CASE g[m] <= g[k - 1]
      <4>1. \A j \in 0 .. k - 1 : g[j] <= g[k - 1]
        <5> SUFFICES ASSUME NEW j \in 0 .. k - 1 PROVE g[j] <= g[k - 1]
          OBVIOUS
        <5>1. CASE j = k - 1
          BY <3>6, <5>1
        <5>2. CASE j \in 0 .. (k - 1) - 1
          <6>1. g[j] \in Int /\ g[j] <= g[m]
            BY <2>4, <3>4, <5>2
          <6> QED BY <3>6, <3>8, <6>1
        <5> QED BY <3>5, <5>1, <5>2
      <4> QED BY <2>4, <3>6, <4>1
    <3> QED BY <3>6, <3>7, <3>8
  <2> QED BY <2>5, <2>6
<1>2. HasGreatest(n)
  BY <1>1
<1> QED BY <1>2

\* In a heap of events whose places in the order differ, the front is the event of
\* the least time.
LEMMA FrontIsFirst ==
    ASSUME NEW q \in SUBSET Event, q # {},
           \A e \in q : e.time >= 0,
           \A e, f \in q : e.fifo_order = f.fifo_order => e = f
    PROVE  Front(q) \in q /\ \A f \in q : Front(q).time <= f.time
<1>1. \A e \in q : e.time \in Nat /\ e.fifo_order \in Nat
  BY DEF Event
<1>2. PICK t \in {e.time : e \in q} : \A s \in {e.time : e \in q} : t <= s
  <2>1. {e.time : e \in q} \in SUBSET Nat /\ {e.time : e \in q} # {}
    BY <1>1
  <2> QED BY <2>1, Lists!LeastNumber
<1> DEFINE P == {e \in q : e.time = t}
<1>3. PICK i \in {e.fifo_order : e \in P} : \A j \in {e.fifo_order : e \in P} : i <= j
  <2>1. {e.fifo_order : e \in P} \in SUBSET Nat /\ {e.fifo_order : e \in P} # {}
    BY <1>1, <1>2
  <2> QED BY <2>1, Lists!LeastNumber
<1>4. PICK e \in P : e.fifo_order = i
  BY <1>3
<1>5. \A f \in q \ {e} : Before(e, f)
  <2> SUFFICES ASSUME NEW f \in q \ {e} PROVE Before(e, f)
    OBVIOUS
  <2>1. t <= f.time /\ e.time = t /\ f.time \in Nat /\ t \in Nat
    BY <1>1, <1>2
  <2>2. CASE f.time = t
    <3>1. e.fifo_order <= f.fifo_order /\ e.fifo_order # f.fifo_order
      BY <1>3, <1>4, <2>2
    <3>2. e.fifo_order \in Nat /\ f.fifo_order \in Nat
      BY <1>1
    <3> QED BY <2>1, <2>2, <3>1, <3>2 DEF Before
  <2> QED BY <2>1, <2>2 DEF Before
<1>6. Front(q) \in q /\ \A f \in q \ {Front(q)} : Before(Front(q), f)
  BY <1>5 DEF Front
<1>7. \A f \in q \ {Front(q)} : Front(q).time <= f.time
  BY <1>1, <1>6 DEF Before
<1> QED BY <1>1, <1>6, <1>7

-------------------------------------------------------------------------------
(* How far cores may be behind                                             *)

\* t is a time for each core.  The cores that are far behind are few: of any k cores
\* one is behind every other by at most Drift less k - 1 overshoots, which are what
\* bringing the others to the same time may add.
Within(t, c, b) == \A d \in Core : t[d] - t[c] <= b
Allowed(S) == Drift - Over(Cardinality(S) - 1)
Ranked(t) == \A S \in SUBSET Core : S # {} => \E c \in S : Within(t, c, Allowed(S))

\* The same for the other cores when core k goes on to the time r.
Reaching(t, k, r) ==
    \A S \in SUBSET (Core \ {k}) :
        S # {} => \E c \in S : Within(t, c, Allowed(S)) /\ r - t[c] <= Allowed(S)

LEMMA CoreFinite == IsFiniteSet(Core) /\ Cardinality(Core) = NumCores
<1>1. NumCores - 1 \in Int /\ NumCores >= 1 /\ NumCores \in Nat
  BY TimingAssumption
<1>2. IsFiniteSet(0 .. NumCores - 1) /\ Cardinality(0 .. NumCores - 1) = NumCores - 1 - 0 + 1
  BY <1>1, FS_Interval
<1> QED BY <1>1, <1>2 DEF Core

LEMMA CoreSets ==
    ASSUME NEW S \in SUBSET Core, S # {}
    PROVE  /\ IsFiniteSet(S) /\ Cardinality(S) \in Nat
           /\ 1 <= Cardinality(S) /\ Cardinality(S) <= NumCores
<1>1. IsFiniteSet(S) /\ Cardinality(S) <= NumCores
  BY CoreFinite, FS_Subset
<1>2. Cardinality(S) \in Nat /\ Cardinality(S) # 0
  BY <1>1, FS_CardinalityType, FS_EmptySet
<1> QED BY <1>1, <1>2

LEMMA DriftIs ==
    /\ Drift = MinDelay + MAX_SLICE_LENGTH + Over(NumCores)
    /\ Drift \in Nat /\ Over(NumCores) \in Nat /\ MinDelay \in Nat /\ MAX_SLICE_LENGTH \in Nat
    /\ NumCores \in Nat /\ Overshoot \in Nat /\ MAX_SLICE_LENGTH > 0 /\ NumCores > 0
<1>1. /\ MinDelay \in Nat /\ MAX_SLICE_LENGTH \in Nat /\ NumCores \in Nat /\ Overshoot \in Nat
      /\ MAX_SLICE_LENGTH > 0 /\ NumCores > 0
  BY TimingAssumption
<1>2. Drift = MinDelay + MAX_SLICE_LENGTH + Over(NumCores)
  BY DEF Drift, Over
<1>3. Over(NumCores) \in Nat
  BY <1>1 DEF Over
<1> QED BY <1>1, <1>2, <1>3

LEMMA AllowedIs ==
    ASSUME NEW S \in SUBSET Core, S # {}
    PROVE  /\ Allowed(S) \in Nat
           /\ Allowed(S) = MinDelay + MAX_SLICE_LENGTH + Over(NumCores - Cardinality(S) + 1)
<1>1. Cardinality(S) \in Nat /\ 1 <= Cardinality(S) /\ Cardinality(S) <= NumCores
  BY CoreSets
<1>2. PICK n : n = Cardinality(S)
  OBVIOUS
<1>3. /\ Over(n - 1) \in Int /\ Over(NumCores - (n - 1)) = Over(NumCores) - Over(n - 1)
      /\ Over(n - 1) <= Over(NumCores)
  <2>1. n \in Nat /\ 1 <= n /\ n <= NumCores
    BY <1>1, <1>2
  <2>2. PICK m : m = n - 1
    OBVIOUS
  <2>3. m \in Int /\ NumCores \in Int /\ m <= NumCores
    BY <2>1, <2>2, DriftIs
  <2> QED BY <2>2, <2>3, OverArithmetic
<1>4. NumCores - (n - 1) = NumCores - n + 1
  BY <1>1, <1>2, DriftIs
<1>5. Allowed(S) = Drift - Over(n - 1)
  BY <1>2 DEF Allowed
<1> QED BY <1>2, <1>3, <1>4, <1>5, DriftIs

\* With one more core among them, the bound is an overshoot less.
LEMMA AllowedMore ==
    ASSUME NEW S \in SUBSET Core, S # {}, NEW k \in Core \ S
    PROVE  /\ Allowed(S) \in Nat /\ Allowed(S \cup {k}) \in Nat
           /\ Allowed(S) = Allowed(S \cup {k}) + Overshoot
<1>1. PICK n, R : n = Cardinality(S) /\ R = S \cup {k}
  OBVIOUS
<1>2. n \in Nat /\ 1 <= n /\ IsFiniteSet(S)
  BY <1>1, CoreSets
<1>3. Cardinality(R) = n + 1 /\ R \in SUBSET Core /\ R # {}
  BY <1>1, <1>2, FS_AddElement
<1>4. Allowed(S) = Drift - Over(n - 1) /\ Allowed(R) = Drift - Over(n)
  BY <1>1, <1>2, <1>3 DEF Allowed
<1>5. Over(n - 1) = Over(n) - Overshoot /\ Over(n) \in Int
  <2>1. n \in Int /\ 1 \in Int
    BY <1>2
  <2>2. Over(n) \in Int /\ Over(n - 1) = Over(n) - Over(1)
    BY <2>1, OverArithmetic
  <2> QED BY <2>2, OverArithmetic
<1>6. Allowed(S) \in Nat /\ Allowed(R) \in Nat
  BY <1>3, AllowedIs
<1> QED BY <1>1, <1>4, <1>5, <1>6, DriftIs

\* The core furthest behind may run an overshoot past the others.
LEMMA RankedStart ==
    ASSUME NEW t \in [Core -> Int], Ranked(t), NEW k \in Core, \A d \in Core : t[k] <= t[d],
           NEW r \in Int, NEW e \in Core, r <= t[e] + Overshoot
    PROVE  Reaching(t, k, r)
<1> SUFFICES ASSUME NEW S \in SUBSET (Core \ {k}), S # {}
             PROVE  \E c \in S : Within(t, c, Allowed(S)) /\ r - t[c] <= Allowed(S)
  BY DEF Reaching
<1>1. PICK R, a, b : R = S \cup {k} /\ a = Allowed(S) /\ b = Allowed(R)
  OBVIOUS
<1>2. R \in SUBSET Core /\ R # {} /\ a = b + Overshoot /\ a \in Nat /\ b \in Nat
  BY <1>1, AllowedMore
<1>3. PICK c \in R : Within(t, c, b)
  BY <1>1, <1>2 DEF Ranked
<1>4. \E j \in S : Within(t, j, b)
  <2>1. CASE c = k
    <3>1. PICK j \in S : TRUE
      OBVIOUS
    <3>2. \A d \in Core : t[d] - t[j] <= b
      <4> SUFFICES ASSUME NEW d \in Core PROVE t[d] - t[j] <= b
        OBVIOUS
      <4>1. t[d] - t[k] <= b /\ t[k] <= t[j] /\ t[d] \in Int /\ t[k] \in Int /\ t[j] \in Int
        BY <1>3, <2>1 DEF Within
      <4> QED BY <1>2, <4>1
    <3> QED BY <3>2 DEF Within
  <2> QED BY <1>1, <1>3, <2>1
<1>5. PICK j \in S : Within(t, j, b)
  BY <1>4
<1>6. \A d \in Core : t[d] - t[j] <= b /\ t[d] \in Int /\ t[j] \in Int
  BY <1>5 DEF Within
<1>7. \A d \in Core : t[d] - t[j] <= a
  BY <1>2, <1>6, DriftIs
<1>8. r - t[j] <= a
  BY <1>2, <1>6, DriftIs
<1> QED BY <1>1, <1>7, <1>8 DEF Within

\* It runs, up to the time r.
LEMMA RankedRun ==
    ASSUME NEW t \in [Core -> Int], NEW k \in Core, NEW r \in Int, NEW x \in Int,
           Ranked(t), Reaching(t, k, r), t[k] <= x, x <= r,
           NEW u, u = [t EXCEPT ![k] = x]
    PROVE  Ranked(u) /\ Reaching(u, k, r)
<1>1. u \in [Core -> Int] /\ u[k] = x /\ \A d \in Core : d # k => u[d] = t[d]
  OBVIOUS
<1>2. ASSUME NEW c \in Core, c # k, NEW b \in Int, Within(t, c, b), r - t[c] <= b
      PROVE  Within(u, c, b)
  <2> SUFFICES ASSUME NEW d \in Core PROVE u[d] - u[c] <= b
    BY DEF Within
  <2>1. u[c] = t[c] /\ t[c] \in Int /\ t[d] \in Int /\ t[d] - t[c] <= b
    BY <1>1, <1>2 DEF Within
  <2>2. CASE d = k
    BY <1>1, <1>2, <2>1, <2>2
  <2>3. CASE d # k
    BY <1>1, <2>1, <2>3
  <2> QED BY <2>2, <2>3
<1>3. Reaching(u, k, r)
  <2> SUFFICES ASSUME NEW S \in SUBSET (Core \ {k}), S # {}
               PROVE  \E c \in S : Within(u, c, Allowed(S)) /\ r - u[c] <= Allowed(S)
    BY DEF Reaching
  <2>1. PICK c \in S : Within(t, c, Allowed(S)) /\ r - t[c] <= Allowed(S)
    BY DEF Reaching
  <2>2. Allowed(S) \in Int /\ c \in Core /\ c # k
    BY AllowedIs
  <2>3. Within(u, c, Allowed(S))
    BY <1>2, <2>1, <2>2
  <2>4. u[c] = t[c]
    BY <1>1, <2>2
  <2> QED BY <2>1, <2>3, <2>4
<1>4. Ranked(u)
  <2> SUFFICES ASSUME NEW S \in SUBSET Core, S # {}
               PROVE  \E c \in S : Within(u, c, Allowed(S))
    BY DEF Ranked
  <2>1. CASE k \notin S
    <3>1. S \in SUBSET (Core \ {k})
      BY <2>1
    <3> QED BY <1>3, <3>1 DEF Reaching
  <2>2. CASE k \in S
    <3>1. PICK c \in S : Within(t, c, Allowed(S))
      BY DEF Ranked
    <3>2. PICK b : b = Allowed(S)
      OBVIOUS
    <3>3. b \in Nat /\ c \in Core /\ t[c] \in Int
      BY <3>2, AllowedIs
    <3>4. CASE \A d \in Core : t[d] <= x
      <4>1. \A d \in Core : u[d] - u[k] <= b
        <5> SUFFICES ASSUME NEW d \in Core PROVE u[d] - u[k] <= b
          OBVIOUS
        <5>1. u[d] <= x /\ u[d] \in Int
          BY <1>1, <3>4
        <5> QED BY <1>1, <3>3, <5>1
      <4> QED BY <2>2, <3>2, <4>1 DEF Within
    <3>5. CASE ~ \A d \in Core : t[d] <= x
      <4>1. PICK e \in Core : ~(t[e] <= x)
        BY <3>5
      <4>2. t[e] \in Int /\ x < t[e]
        BY <4>1
      <4>3. \A d \in Core : u[d] - u[c] <= b
        <5> SUFFICES ASSUME NEW d \in Core PROVE u[d] - u[c] <= b
          OBVIOUS
        <5>1. t[d] - t[c] <= b /\ t[e] - t[c] <= b /\ t[d] \in Int
          BY <3>1, <3>2 DEF Within
        <5>2. t[c] <= u[c] /\ u[c] \in Int
          BY <1>1, <3>3
        <5>3. u[d] = t[d] \/ u[d] = x
          BY <1>1
        <5> QED BY <3>3, <4>2, <5>1, <5>2, <5>3
      <4> QED BY <3>2, <4>3 DEF Within
    <3> QED BY <3>4, <3>5
  <2> QED BY <2>1, <2>2
<1> QED BY <1>3, <1>4

\* Of two sets of cores that are together larger than all cores, one core is in both.
LEMMA Pigeonhole ==
    ASSUME NEW S \in SUBSET Core, NEW W \in SUBSET Core,
           Cardinality(S) + Cardinality(W) > NumCores
    PROVE  S \cap W # {}
<1> SUFFICES ASSUME S \cap W = {} PROVE FALSE
  OBVIOUS
<1>1. IsFiniteSet(S) /\ IsFiniteSet(W)
  BY CoreFinite, FS_Subset
<1>2. Cardinality(S) \in Nat /\ Cardinality(W) \in Nat /\ Cardinality({}) = 0
  BY <1>1, FS_CardinalityType, FS_EmptySet
<1>3. Cardinality(S \cup W) = Cardinality(S) + Cardinality(W) - Cardinality(S \cap W)
  BY <1>1, FS_Union
<1>4. S \cup W \in SUBSET Core
  OBVIOUS
<1>5. Cardinality(S \cup W) <= NumCores
  BY <1>4, CoreFinite, FS_Subset
<1>6. Cardinality(S \cap W) = 0
  BY <1>2
<1>7. PICK m, n : m = Cardinality(S) /\ n = Cardinality(W)
  OBVIOUS
<1>8. m \in Nat /\ n \in Nat /\ m + n > NumCores /\ m + n - 0 <= NumCores
  BY <1>2, <1>3, <1>5, <1>6, <1>7
<1> QED BY <1>8, DriftIs

\* A pass over all cores, in which a core runs at most as long as the one before it and
\* an overshoot, leaves few of them far behind.
LEMMA RankedPass ==
    ASSUME NEW x \in [Core -> Int], NEW r \in [Core -> Nat],
           \A c, d \in Core : x[c] - x[d] <= MinDelay,
           \A c \in Core : r[c] <= MAX_SLICE_LENGTH + Over(c + 1),
           \A c, d \in Core : c < d => r[d] <= r[c] + Over(d - c)
    PROVE  Ranked([c \in Core |-> x[c] + r[c]])
<1>1. PICK t : t = [c \in Core |-> x[c] + r[c]]
  OBVIOUS
<1>2. t \in [Core -> Int] /\ \A c \in Core : t[c] = x[c] + r[c]
  BY <1>1
<1>3. PICK m \in Core : \A d \in Core : t[d] <= t[m]
  <2>1. NumCores \in Nat \ {0} /\ Core = 0 .. NumCores - 1
    BY DriftIs DEF Core
  <2> QED BY <1>2, <2>1, Greatest
<1> SUFFICES ASSUME NEW S \in SUBSET Core, S # {}
             PROVE  \E c \in S : Within(t, c, Allowed(S))
  BY <1>1 DEF Ranked
<1>5. PICK n, a, b : n = Cardinality(S) /\ a = Allowed(S) /\ b = NumCores - n + 1
  OBVIOUS
<1>6. n \in Nat /\ 1 <= n /\ n <= NumCores /\ b \in Nat /\ 1 <= b
  <2>1. n \in Nat /\ 1 <= n /\ n <= NumCores
    BY <1>5, CoreSets
  <2> QED BY <1>5, <2>1, DriftIs
<1>7. a = MinDelay + MAX_SLICE_LENGTH + Over(b) /\ a \in Nat /\ Over(b) \in Int /\ Over(b) >= 0
  <2>1. Allowed(S) = MinDelay + MAX_SLICE_LENGTH + Over(NumCores - Cardinality(S) + 1)
        /\ Allowed(S) \in Nat
    BY AllowedIs
  <2>2. Over(b) \in Int /\ Over(b) >= 0
    BY <1>6, DriftIs DEF Over
  <2> QED BY <1>5, <2>1, <2>2
<1>8. ASSUME NEW c \in Core, t[m] - t[c] <= a
      PROVE  Within(t, c, a)
  <2> SUFFICES ASSUME NEW d \in Core PROVE t[d] - t[c] <= a
    BY DEF Within
  <2>1. t[d] <= t[m] /\ t[d] \in Int /\ t[m] \in Int /\ t[c] \in Int
    BY <1>2, <1>3
  <2> QED BY <1>7, <1>8, <2>1
<1>9. ASSUME NEW c \in Core, c = m \/ (c < m /\ m - c <= b) \/ (c > m /\ m + 1 <= b)
      PROVE  t[m] - t[c] <= a
  <2>1. /\ t[m] = x[m] + r[m] /\ t[c] = x[c] + r[c] /\ x[m] - x[c] <= MinDelay
        /\ x[m] \in Int /\ x[c] \in Int /\ r[m] \in Nat /\ r[c] \in Nat
        /\ m \in Int /\ c \in Int
    BY <1>2, SMTT(30) DEF Core
  <2>2. CASE c = m
    BY <1>7, <2>1, <2>2, DriftIs
  <2>3. CASE c < m /\ m - c <= b
    <3>1. r[m] <= r[c] + Over(m - c)
      BY <2>3
    <3>2. PICK j : j = m - c
      OBVIOUS
    <3>3. Over(j) <= Over(b) /\ Over(j) \in Int
      <4>1. j \in Int /\ b \in Int /\ j <= b
        BY <1>6, <2>1, <2>3, <3>2
      <4> QED BY <4>1, OverArithmetic
    <3> QED BY <1>7, <2>1, <3>1, <3>2, <3>3, DriftIs
  <2>4. CASE c > m /\ m + 1 <= b
    <3>1. r[m] <= MAX_SLICE_LENGTH + Over(m + 1)
      OBVIOUS
    <3>2. PICK j : j = m + 1
      OBVIOUS
    <3>3. Over(j) <= Over(b) /\ Over(j) \in Int
      <4>1. j \in Int /\ b \in Int /\ j <= b
        BY <1>6, <2>1, <2>4, <3>2
      <4> QED BY <4>1, OverArithmetic
    <3> QED BY <1>7, <2>1, <3>1, <3>2, <3>3, DriftIs
  <2> QED BY <1>9, <2>2, <2>3, <2>4
<1>10. \E c \in S : c = m \/ (c < m /\ m - c <= b) \/ (c > m /\ m + 1 <= b)
  <2>0. m \in Int /\ 0 <= m /\ m <= NumCores - 1
    BY DriftIs DEF Core
  <2>1. CASE m + 1 <= b
    <3>1. PICK c \in S : TRUE
      OBVIOUS
    <3>2. c \in Int /\ 0 <= c
      BY DriftIs DEF Core
    <3>3. c = m \/ (c < m /\ m - c <= b) \/ (c > m /\ m + 1 <= b)
      BY <1>6, <2>0, <2>1, <3>2
    <3> QED BY <3>3
  <2>2. CASE ~(m + 1 <= b)
    <3>1. m - b \in Int /\ 0 <= m - b /\ m - b <= m
      BY <1>6, <2>0, <2>2
    <3>2. PICK W, w : w = m - b /\ W = w .. m
      OBVIOUS
    <3>3. W \in SUBSET Core
      <4> SUFFICES ASSUME NEW i \in W PROVE i \in Core
        OBVIOUS
      <4>1. w \in Int /\ 0 <= w /\ i \in w .. m
        BY <3>1, <3>2
      <4> QED BY <2>0, <4>1, DriftIs DEF Core
    <3>4. Cardinality(W) = m - w + 1
      BY <2>0, <3>1, <3>2, FS_Interval
    <3>5. Cardinality(S) + Cardinality(W) > NumCores
      <4>1. Cardinality(S) = n /\ Cardinality(W) = m - w + 1 /\ w = m - (NumCores - n + 1)
        BY <1>5, <3>2, <3>4
      <4>2. n + (m - w + 1) > NumCores
        BY <1>6, <2>0, <4>1, DriftIs
      <4> QED BY <4>1, <4>2
    <3>6. PICK c \in S : c \in W
      BY <3>3, <3>5, Pigeonhole
    <3>7. c = m \/ (c < m /\ m - c <= b)
      BY <1>6, <2>0, <3>1, <3>2, <3>6
    <3> QED BY <3>7
  <2> QED BY <2>1, <2>2
<1> QED BY <1>5, <1>8, <1>9, <1>10

-------------------------------------------------------------------------------
(* The invariant                                                           *)

Firing == pc \in {"syncFire", "advanceFire"}
Passing == pc \in {"advance", "advanceFire"}
Syncing == pc \in {"sync", "syncFire", "delayed"}

Basics ==
    /\ event_queue \in [Core -> SUBSET Event] /\ ts_queue \in [Core -> Seq(Event)]
    /\ event_fifo_id \in [Core -> Nat] /\ is_timer_sane \in [Core -> BOOLEAN]
    /\ executed_ticks \in [Core -> Nat] /\ slice_length \in [Core -> Nat]
    /\ downcount \in [Core -> Int]
    /\ host \in [core : Core, event : Event] \cup {NoEvent}
    /\ pc \in Pc /\ cur \in Core /\ next \in 0 .. NumCores /\ max_slice \in Nat

Idle(c) == slice_length[c] = 0 /\ downcount[c] = 0
Fresh == \A c \in Core : executed_ticks[c] = 0 /\ is_timer_sane[c]

\* What is left of the slices.  Every timer has been started before a core runs.
Clocks ==
    /\ \A c \in Core : /\ downcount[c] <= slice_length[c] /\ 0 <= downcount[c] + Overshoot
                       /\ is_timer_sane[c] => slice_length[c] = downcount[c]
    /\ Firing => is_timer_sane[cur] /\ Idle(cur)
    /\ pc = "run" => \A c \in Core : ~is_timer_sane[c] /\ (c > cur => Idle(c))
    /\ Passing => \A c \in Core : c < cur => ~is_timer_sane[c] /\ Idle(c)
    /\ Syncing => \/ pc = "sync" /\ Fresh
                  \/ \A c \in Core : ~is_timer_sane[c] \/ (pc = "syncFire" /\ c = cur)

\* Events of a heap have different places in the order, and no time is negative.
Heap(q, n) ==
    /\ \A e \in q : e.time >= 0 /\ e.fifo_order < n
    /\ \A e, f \in q : e.fifo_order = f.fifo_order => e = f
Orderly ==
    /\ \A c \in Core : Heap(event_queue[c], event_fifo_id[c])
    /\ \A c \in Core : \A i \in DOMAIN ts_queue[c] : ts_queue[c][i].time >= 0
    /\ host # NoEvent => host.event.time >= 0

\* An event that another thread scheduled was to come at least a slice after the
\* last Advance of its timer.
FromHost(x, e) ==
    /\ e.origin \in {"host", "heldUp"}
    /\ e.origin = "host" => x + MAX_SLICE_LENGTH <= e.time

\* No slice goes beyond an event of its core; only while the events of a core are
\* fired may some of them be late.
Punctual(x, e) == x <= e.time
LateAtMost(x, e) ==
    /\ e.origin = "core" => x - e.time <= Overshoot
    /\ e.origin = "host" => x - e.time <= MinDelay + (NumCores + 1) * Overshoot
Timely ==
    /\ \A c \in Core : \A e \in event_queue[c] :
         IF Firing /\ c = cur THEN LateAtMost(executed_ticks[c], e)
         ELSE Punctual(executed_ticks[c] + slice_length[c], e)
    /\ \A c \in Core : \A i \in DOMAIN ts_queue[c] : FromHost(executed_ticks[c], ts_queue[c][i])
    /\ host # NoEvent => FromHost(executed_ticks[host.core], host.event)

\* The time of each core.
times == [c \in Core |-> executed_ticks[c] + slice_length[c] - downcount[c]]
Ran(c) == slice_length[c] - downcount[c]

\* A pass begins with cores that are close together, and none runs much longer than
\* the ones before it.
Course ==
    /\ pc \in {"sync", "syncFire", "advance", "advanceFire"} => max_slice \in 1 .. MAX_SLICE_LENGTH
    /\ Passing => \A c, d \in Core : times[c] - times[d] <= MinDelay
    /\ pc = "run" =>
         /\ \A c, d \in Core : executed_ticks[c] - executed_ticks[d] <= MinDelay
         /\ \A c \in Core : c <= cur => slice_length[c] <= MAX_SLICE_LENGTH + Over(c)
         /\ \A c, d \in Core : c < d /\ d <= cur => slice_length[d] <= Ran(c) + Over(d - c - 1)
    /\ max_slice <= Drift /\ \A c \in Core : slice_length[c] <= Drift

\* A core that is behind and was prepared for it gets no further than another core is.
Prepared(c) ==
    (\E d \in Core : times[d] > times[c]) =>
      slice_length[c] = downcount[c] /\ \E d \in Core : executed_ticks[c] + slice_length[c] <= times[d]
Ranks ==
    /\ Syncing => Ranked(times)
    /\ pc \notin {"sync", "syncFire"} => next = 0
    /\ pc = "sync" => \A c \in Core : c < next => Prepared(c)
    /\ pc = "syncFire" => \A c \in Core : c < cur => Prepared(c)
    /\ pc = "delayed" => Reaching(times, cur, executed_ticks[cur] + slice_length[cur] + Overshoot)

Inv == Basics /\ Clocks /\ Orderly /\ Timely /\ Course /\ Ranks

-------------------------------------------------------------------------------
(* The time of the cores                                                   *)

LEMMA TimesAre ==
    ASSUME Basics, Clocks
    PROVE  /\ times \in [Core -> Int]
           /\ \A c \in Core : times[c] = executed_ticks[c] + slice_length[c] - downcount[c]
           /\ \A c \in Core : times[c] \in Nat /\ GetTicks(c) = times[c]
<1>1. \A c \in Core : /\ executed_ticks[c] \in Nat /\ slice_length[c] \in Nat /\ downcount[c] \in Int
                      /\ downcount[c] <= slice_length[c]
                      /\ is_timer_sane[c] => slice_length[c] = downcount[c]
  BY DEF Basics, Clocks
<1>2. times \in [Core -> Int] /\ \A c \in Core : times[c] = executed_ticks[c] + slice_length[c] - downcount[c]
  BY <1>1 DEF times
<1> QED BY <1>1, <1>2 DEF GetTicks

LEMMA GlobalTicks ==
    ASSUME Basics, Clocks
    PROVE  /\ GetGlobalTicks \in Nat
           /\ \A c \in Core : times[c] <= GetGlobalTicks
           /\ \E c \in Core : GetGlobalTicks = times[c]
           /\ \A c \in Core : Delay(c) = GetGlobalTicks - times[c]
<1>1. /\ times \in [Core -> Int]
      /\ \A c \in Core : times[c] \in Nat /\ GetTicks(c) = times[c]
  BY TimesAre
<1>2. PICK m \in Core : \A d \in Core : times[d] <= times[m]
  <2>1. PICK t : t = times
    OBVIOUS
  <2>2. NumCores \in Nat \ {0} /\ Core = 0 .. NumCores - 1 /\ t \in [Core -> Int]
    BY <1>1, <2>1, DriftIs DEF Core
  <2>3. \E m \in Core : \A d \in Core : t[d] <= t[m]
    BY <2>2, Greatest
  <2> QED BY <2>1, <2>3
<1>3. GetTicks(m) \in {GetTicks(c) : c \in Core} /\ \A c \in Core : GetTicks(c) <= GetTicks(m)
  BY <1>1, <1>2
<1>4. GetGlobalTicks \in {GetTicks(c) : c \in Core} /\ \A c \in Core : GetTicks(c) <= GetGlobalTicks
  BY <1>3 DEF GetGlobalTicks
<1> QED BY <1>1, <1>4 DEF Delay

LEMMA FurthestIs ==
    ASSUME Basics, Clocks
    PROVE  Furthest \in Core /\ \A d \in Core : times[Furthest] <= times[d]
<1>1. times \in [Core -> Int]
  BY TimesAre
<1>2. \A c \in Core : Delay(c) \in Int /\ Delay(c) = GetGlobalTicks - times[c] /\ times[c] \in Int
  BY <1>1, GlobalTicks
<1>3. PICK m \in Core : \A d \in Core : Delay(d) <= Delay(m)
  <2>1. PICK f : f = [c \in Core |-> Delay(c)]
    OBVIOUS
  <2>2. /\ NumCores \in Nat \ {0} /\ Core = 0 .. NumCores - 1 /\ f \in [Core -> Int]
        /\ \A c \in Core : f[c] = Delay(c)
    BY <1>2, <2>1, DriftIs DEF Core
  <2>3. \E m \in Core : \A d \in Core : f[d] <= f[m]
    BY <2>2, Greatest
  <2> QED BY <2>2, <2>3
<1>4. PICK k \in {c \in Core : Delay(c) = Delay(m)} : \A j \in {c \in Core : Delay(c) = Delay(m)} : k <= j
  <2>1. PICK C : C = {c \in Core : Delay(c) = Delay(m)}
    OBVIOUS
  <2>2. C \in SUBSET Nat /\ C # {}
    BY <2>1 DEF Core
  <2>3. \E k \in C : \A j \in C : k <= j
    BY <2>2, Lists!LeastNumber
  <2> QED BY <2>1, <2>3
<1>5. \A d \in Core : Delay(d) < Delay(k) \/ (Delay(d) = Delay(k) /\ k <= d)
  BY <1>2, <1>3, <1>4
<1>6. Furthest \in Core /\ \A d \in Core : Delay(d) <= Delay(Furthest)
  <2>1. /\ Furthest \in Core
        /\ \A d \in Core : Delay(d) < Delay(Furthest) \/ (Delay(d) = Delay(Furthest) /\ Furthest <= d)
    BY <1>5 DEF Furthest
  <2> QED BY <1>2, <2>1
<1> QED BY <1>2, <1>6, GlobalTicks

\* Where only the queues change.
LEMMA SameTicks ==
    ASSUME Inv, UNCHANGED <<tickVars, loopVars>>
    PROVE  Clocks' /\ Course' /\ Ranks' /\ times' = times
<1>1. /\ is_timer_sane' = is_timer_sane /\ slice_length' = slice_length /\ downcount' = downcount
      /\ executed_ticks' = executed_ticks /\ pc' = pc /\ cur' = cur /\ next' = next
      /\ max_slice' = max_slice
  BY DEF tickVars, loopVars
<1>2. times' = times
  BY <1>1 DEF times
<1>3. Clocks'
  BY <1>1 DEF Inv, Clocks, Firing, Passing, Syncing, Fresh, Idle
<1>4. Course'
  BY <1>1, <1>2 DEF Inv, Course, Passing, Ran
<1>5. Ranks'
  BY <1>1, <1>2 DEF Inv, Ranks, Syncing, Prepared
<1> QED BY <1>2, <1>3, <1>4, <1>5

LEMMA InitInv == Init => Inv
<1> SUFFICES ASSUME Init PROVE Inv
  OBVIOUS
<1>0. 0 \in Core /\ \A c \in Core : c \in Nat
  BY DriftIs DEF Core
<1>1. Basics
  BY <1>0, DriftIs DEF Init, Basics, Pc
<1>2. Clocks
  BY DriftIs DEF Init, Clocks, Firing, Passing, Syncing, Fresh
<1>3. Orderly /\ Timely
  BY DEF Init, Orderly, Heap, Timely
<1>4. \A c \in Core : times[c] = 0
  BY DriftIs DEF Init, times
<1>5. Course
  BY DriftIs DEF Init, Course, Passing
<1>6. Ranks
  <2>1. PICK x, t : x = [c \in Core |-> 0] /\ t = [c \in Core |-> x[c] + x[c]]
    OBVIOUS
  <2>2. x \in [Core -> Int] /\ x \in [Core -> Nat] /\ \A c \in Core : x[c] = 0
    BY <2>1
  <2>3. \A c \in Core : x[c] <= MAX_SLICE_LENGTH + Over(c + 1)
    BY <1>0, <2>2, DriftIs DEF Over
  <2>4. \A c, d \in Core : c < d => x[d] <= x[c] + Over(d - c)
    BY <1>0, <2>2, DriftIs DEF Over
  <2>5. \A c, d \in Core : x[c] - x[d] <= MinDelay
    BY <2>2, DriftIs
  <2>6. Ranked(t)
    BY <2>1, <2>2, <2>3, <2>4, <2>5, RankedPass
  <2>7. times = t
    BY <2>1, DriftIs DEF Init, times
  <2>8. pc = "sync" /\ next = 0
    BY DEF Init
  <2> QED BY <1>0, <2>6, <2>7, <2>8 DEF Ranks
<1> QED BY <1>1, <1>2, <1>3, <1>5, <1>6 DEF Inv

-------------------------------------------------------------------------------
(* Steps that change only the queues                                       *)

LEMMA HeapSmaller ==
    ASSUME NEW q, NEW n, Heap(q, n), NEW p \in SUBSET q
    PROVE  Heap(p, n)
BY DEF Heap

LEMMA HeapLarger ==
    ASSUME NEW q \in SUBSET Event, NEW n \in Nat, Heap(q, n),
           NEW e \in Event, e.time >= 0, e.fifo_order = n
    PROVE  Heap(q \cup {e}, n + 1)
<1>1. \A f \in q : f.fifo_order \in Nat /\ f.fifo_order < n /\ f.time >= 0
  BY DEF Heap, Event
<1>2. \A f \in q \cup {e} : f.time >= 0 /\ f.fifo_order < n + 1
  BY <1>1
<1>3. \A f \in q : f.fifo_order # n
  BY <1>1
<1>4. \A f, g \in q \cup {e} : f.fifo_order = g.fifo_order => f = g
  BY <1>3 DEF Heap
<1> QED BY <1>2, <1>4 DEF Heap

\* An event that is scheduled on the current timer.
LEMMA NewEvent ==
    ASSUME Inv, NEW id \in Ids, NEW cycles \in Delays,
           NEW e, e = [id |-> id, time |-> GetTicks(cur) + cycles, fifo_order |-> event_fifo_id[cur],
                       origin |-> "core"]
    PROVE  /\ e \in Event /\ e.time = times[cur] + cycles /\ e.time >= 0 /\ e.origin = "core"
           /\ e.fifo_order = event_fifo_id[cur] /\ cycles \in Nat
<1>1. times[cur] \in Nat /\ GetTicks(cur) = times[cur] /\ event_fifo_id[cur] \in Nat
  BY TimesAre DEF Inv, Basics
<1>2. cycles \in Nat
  BY TimingAssumption
<1>3. GetTicks(cur) + cycles \in Nat
  BY <1>1, <1>2
<1> QED BY <1>1, <1>2, <1>3 DEF Event, Origin

LEMMA FireInv ==
    ASSUME Inv, Fire
    PROVE  Inv'
<1> DEFINE rest == event_queue[cur] \ {Front(event_queue[cur])}
<1>1. /\ Firing /\ UNCHANGED <<ts_queue, tickVars, host, loopVars>>
      /\ is_timer_sane' = is_timer_sane /\ slice_length' = slice_length /\ downcount' = downcount
      /\ executed_ticks' = executed_ticks /\ pc' = pc /\ cur' = cur /\ next' = next
      /\ max_slice' = max_slice /\ ts_queue' = ts_queue /\ host' = host
  BY DEF Fire, Firing, tickVars, loopVars
<1>2. Clocks' /\ Course' /\ Ranks'
  BY <1>1, SameTicks
<1>3. Basics /\ Orderly /\ Timely /\ cur \in Core
  BY DEF Inv, Basics
<1>4. times[cur] = executed_ticks[cur] /\ executed_ticks[cur] \in Nat
  <2>1. slice_length[cur] = 0 /\ downcount[cur] = 0 /\ executed_ticks[cur] \in Nat
    BY <1>1, <1>3 DEF Inv, Basics, Clocks, Idle
  <2>2. times[cur] = executed_ticks[cur] + slice_length[cur] - downcount[cur]
    BY <1>3, TimesAre DEF Inv
  <2> QED BY <2>1, <2>2
<1>5. SUFFICES ASSUME \/ /\ \A c \in Core : event_queue'[c] \in SUBSET event_queue[c]
                         /\ event_queue' \in [Core -> SUBSET Event]
                         /\ event_fifo_id' = event_fifo_id
                      \/ \E e \in Event :
                           /\ event_queue' = [event_queue EXCEPT ![cur] = rest \cup {e}]
                           /\ event_fifo_id' = [event_fifo_id EXCEPT ![cur] = @ + 1]
                           /\ e.time >= executed_ticks[cur] /\ e.time >= 0 /\ e.time \in Int
                           /\ e.fifo_order = event_fifo_id[cur] /\ e.origin = "core"
               PROVE  Basics' /\ Orderly' /\ Timely'
  <2>1. CASE event_queue' = [event_queue EXCEPT ![cur] = rest] /\ UNCHANGED event_fifo_id
    BY <1>2, <1>3, <1>5, <2>1 DEF Basics, Inv
  <2>2. ASSUME NEW id \in Ids, NEW cycles \in Delays,
               event_queue' = [event_queue EXCEPT ![cur] = rest \cup
                       {[id |-> id, time |-> GetTicks(cur) + cycles,
                         fifo_order |-> event_fifo_id[cur], origin |-> "core"]}],
               event_fifo_id' = [event_fifo_id EXCEPT ![cur] = @ + 1]
        PROVE  Inv'
    <3>1. PICK e : e = [id |-> id, time |-> GetTicks(cur) + cycles,
                        fifo_order |-> event_fifo_id[cur], origin |-> "core"]
      OBVIOUS
    <3>2. /\ e \in Event /\ e.time = times[cur] + cycles /\ e.time >= 0 /\ e.origin = "core"
          /\ e.fifo_order = event_fifo_id[cur] /\ cycles \in Nat
      BY <2>2, <3>1, NewEvent
    <3>3. e.time >= executed_ticks[cur] /\ e.time \in Int
      BY <1>4, <3>2
    <3>4. event_queue' = [event_queue EXCEPT ![cur] = rest \cup {e}]
      BY <2>2, <3>1
    <3> QED BY <1>2, <1>5, <2>2, <3>2, <3>3, <3>4 DEF Inv
  <2>3. ASSUME NEW id \in Ids,
               event_queue' = [c \in Core |->
                       {e \in (IF c = cur THEN rest ELSE event_queue[c]) : e.id # id}],
               UNCHANGED event_fifo_id
        PROVE  Inv'
    <3>1. \A c \in Core : event_queue'[c] \in SUBSET event_queue[c]
      BY <2>3
    <3>2. event_queue' \in [Core -> SUBSET Event]
      BY <1>3, <2>3 DEF Basics
    <3> QED BY <1>2, <1>5, <2>3, <3>1, <3>2 DEF Inv
  <2> QED BY <2>1, <2>2, <2>3 DEF Fire
<1>6. CASE /\ \A c \in Core : event_queue'[c] \in SUBSET event_queue[c]
           /\ event_queue' \in [Core -> SUBSET Event]
           /\ event_fifo_id' = event_fifo_id
  <2>1. Basics'
    BY <1>1, <1>3, <1>6 DEF Basics
  <2>2. Orderly'
    BY <1>1, <1>3, <1>6, HeapSmaller DEF Orderly
  <2>3. Timely'
    BY <1>1, <1>3, <1>6 DEF Timely, Firing, LateAtMost, Punctual, FromHost
  <2> QED BY <2>1, <2>2, <2>3
<1>7. ASSUME NEW e \in Event,
             event_queue' = [event_queue EXCEPT ![cur] = rest \cup {e}],
             event_fifo_id' = [event_fifo_id EXCEPT ![cur] = @ + 1],
             e.time >= executed_ticks[cur], e.time >= 0, e.time \in Int,
             e.fifo_order = event_fifo_id[cur], e.origin = "core"
      PROVE  Basics' /\ Orderly' /\ Timely'
  <2>1. Basics'
    BY <1>1, <1>3, <1>7 DEF Basics
  <2>2. /\ event_queue'[cur] = rest \cup {e} /\ event_fifo_id'[cur] = event_fifo_id[cur] + 1
        /\ \A c \in Core : c # cur => event_queue'[c] = event_queue[c] /\ event_fifo_id'[c] = event_fifo_id[c]
    BY <1>3, <1>7 DEF Basics
  <2>3. Heap(event_queue'[cur], event_fifo_id'[cur])
    <3>1. PICK q, n : q = rest /\ n = event_fifo_id[cur]
      OBVIOUS
    <3>2. q \in SUBSET Event /\ n \in Nat /\ q \in SUBSET event_queue[cur]
      BY <1>3, <3>1 DEF Basics
    <3>3. Heap(q, n)
      BY <1>3, <3>1, <3>2, HeapSmaller DEF Orderly
    <3>4. Heap(q \cup {e}, n + 1)
      BY <1>7, <3>1, <3>2, <3>3, HeapLarger
    <3> QED BY <2>2, <3>1, <3>4
  <2>4. Orderly'
    <3>1. \A c \in Core : Heap(event_queue[c], event_fifo_id[c])
      BY <1>3 DEF Orderly
    <3>2. \A c \in Core : Heap(event_queue'[c], event_fifo_id'[c])
      BY <2>2, <2>3, <3>1
    <3> QED BY <1>1, <1>3, <3>2 DEF Orderly
  <2>5. Timely'
    <3>1. LateAtMost(executed_ticks[cur], e)
      BY <1>4, <1>7, DriftIs DEF LateAtMost
    <3>2. \A f \in event_queue'[cur] : LateAtMost(executed_ticks[cur], f)
      BY <1>1, <1>3, <2>2, <3>1 DEF Timely
    <3>3. \A c \in Core : c # cur => \A f \in event_queue'[c] : Punctual(executed_ticks[c] + slice_length[c], f)
      BY <1>1, <1>3, <2>2 DEF Timely
    <3> QED BY <1>1, <1>3, <3>2, <3>3 DEF Timely, Firing, LateAtMost, Punctual, FromHost
  <2> QED BY <2>1, <2>4, <2>5
<1> QED BY <1>5, <1>6, <1>7

LEMMA UnschedulesInv ==
    ASSUME Inv, NEW id \in Ids, Unschedules(id)
    PROVE  Inv'
<1>1. /\ UNCHANGED <<ts_queue, event_fifo_id, tickVars, host, loopVars>>
      /\ is_timer_sane' = is_timer_sane /\ slice_length' = slice_length /\ downcount' = downcount
      /\ executed_ticks' = executed_ticks /\ pc' = pc /\ cur' = cur /\ next' = next
      /\ max_slice' = max_slice /\ ts_queue' = ts_queue /\ host' = host
      /\ event_fifo_id' = event_fifo_id
  BY DEF Unschedules, tickVars, loopVars
<1>2. Clocks' /\ Course' /\ Ranks'
  BY <1>1, SameTicks
<1>3. Basics /\ Orderly /\ Timely
  BY DEF Inv
<1>4. event_queue' = [c \in Core |-> {e \in event_queue[c] : e.id # id}]
  BY DEF Unschedules, UnscheduleEvent
<1>5. \A c \in Core : event_queue'[c] \in SUBSET event_queue[c]
  BY <1>4
<1>6. Basics'
  BY <1>1, <1>3, <1>4 DEF Basics
<1>7. Orderly'
  BY <1>1, <1>3, <1>5, HeapSmaller DEF Orderly
<1>8. Timely'
  BY <1>1, <1>3, <1>5 DEF Timely, Firing, LateAtMost, Punctual, FromHost
<1> QED BY <1>2, <1>6, <1>7, <1>8 DEF Inv

LEMMA HostReadsInv ==
    ASSUME Inv, NEW c \in Core, NEW id \in Ids, NEW cycles \in Delays,
           NEW ticks \in SeenTicks(c), HostReads(c, id, cycles, ticks)
    PROVE  Inv'
<1>1. /\ UNCHANGED <<queueVars, tickVars, loopVars>>
      /\ is_timer_sane' = is_timer_sane /\ slice_length' = slice_length /\ downcount' = downcount
      /\ executed_ticks' = executed_ticks /\ pc' = pc /\ cur' = cur /\ next' = next
      /\ max_slice' = max_slice /\ ts_queue' = ts_queue /\ event_queue' = event_queue
      /\ event_fifo_id' = event_fifo_id
  BY DEF HostReads, queueVars, tickVars, loopVars
<1>2. Clocks' /\ Course' /\ Ranks'
  BY <1>1, SameTicks
<1>3. Basics /\ Orderly /\ Timely
  BY DEF Inv
<1>4. PICK time, e : /\ time = ticks + Max2(2 * MAX_SLICE_LENGTH, cycles)
                     /\ e = [id |-> id, time |-> time, fifo_order |-> 0, origin |-> "host"]
  OBVIOUS
<1>5. host' = [core |-> c, event |-> e]
  BY <1>4 DEF HostReads
<1>6. time \in Nat /\ executed_ticks[c] + MAX_SLICE_LENGTH <= time
  <2>1. PICK off \in Tears : ticks = GetTicks(c) + off
    BY DEF SeenTicks
  <2>2. off \in Int /\ 0 <= off + MAX_SLICE_LENGTH /\ cycles \in Nat /\ MAX_SLICE_LENGTH \in Nat
    BY TimingAssumption
  <2>3. /\ GetTicks(c) = executed_ticks[c] + slice_length[c] - downcount[c]
        /\ executed_ticks[c] \in Nat /\ slice_length[c] \in Nat /\ downcount[c] \in Int
        /\ downcount[c] <= slice_length[c]
    BY TimesAre DEF Inv, Basics, Clocks
  <2>4. PICK m : m = Max2(2 * MAX_SLICE_LENGTH, cycles)
    OBVIOUS
  <2>5. m \in Nat /\ 2 * MAX_SLICE_LENGTH <= m
    BY <2>2, <2>4 DEF Max2
  <2>6. time = GetTicks(c) + off + m
    BY <1>4, <2>1, <2>4
  <2> QED BY <2>2, <2>3, <2>5, <2>6
<1>7. e \in Event /\ e.time = time /\ e.origin = "host"
  BY <1>4, <1>6 DEF Event, Origin
<1>8. host' \in [core : Core, event : Event] /\ host'.event = e /\ host'.core = c
  BY <1>5, <1>7
<1>9. Basics'
  BY <1>1, <1>3, <1>8 DEF Basics
<1>10. Orderly'
  BY <1>1, <1>3, <1>6, <1>7, <1>8 DEF Orderly
<1>11. Timely'
  BY <1>1, <1>3, <1>6, <1>7, <1>8 DEF Timely, Firing, LateAtMost, Punctual, FromHost
<1> QED BY <1>2, <1>9, <1>10, <1>11 DEF Inv

LEMMA HostPushesInv ==
    ASSUME Inv, HostPushes
    PROVE  Inv'
<1>1. /\ UNCHANGED <<event_queue, event_fifo_id, tickVars, loopVars>>
      /\ is_timer_sane' = is_timer_sane /\ slice_length' = slice_length /\ downcount' = downcount
      /\ executed_ticks' = executed_ticks /\ pc' = pc /\ cur' = cur /\ next' = next
      /\ max_slice' = max_slice /\ event_queue' = event_queue
      /\ event_fifo_id' = event_fifo_id /\ host' = NoEvent
  BY DEF HostPushes, tickVars, loopVars
<1>2. Clocks' /\ Course' /\ Ranks'
  BY <1>1, SameTicks
<1>3. Basics /\ Orderly /\ Timely
  BY DEF Inv
<1>4. PICK c, e : c = host.core /\ e = host.event
  OBVIOUS
<1>5. c \in Core /\ e \in Event /\ e.time >= 0 /\ FromHost(executed_ticks[c], e)
  BY <1>3, <1>4 DEF HostPushes, Basics, Orderly, Timely
<1>6. ts_queue' = [ts_queue EXCEPT ![c] = Append(ts_queue[c], e)]
  BY <1>4 DEF HostPushes
<1>7. /\ ts_queue' \in [Core -> Seq(Event)]
      /\ \A d \in Core : d # c => ts_queue'[d] = ts_queue[d]
      /\ \A i \in DOMAIN ts_queue'[c] : ts_queue'[c][i] = e \/ (i \in DOMAIN ts_queue[c] /\ ts_queue'[c][i] = ts_queue[c][i])
  <2>1. ts_queue \in [Core -> Seq(Event)] /\ ts_queue[c] \in Seq(Event)
    BY <1>3, <1>5 DEF Basics
  <2>2. PICK q : q = Append(ts_queue[c], e)
    OBVIOUS
  <2>3. q \in Seq(Event)
    BY <1>5, <2>1, <2>2
  <2>4. \A i \in DOMAIN q : q[i] = e \/ (i \in DOMAIN ts_queue[c] /\ q[i] = ts_queue[c][i])
    BY <1>5, <2>1, <2>2
  <2>5. ts_queue' = [ts_queue EXCEPT ![c] = q]
    BY <1>6, <2>2
  <2> QED BY <1>5, <2>1, <2>3, <2>4, <2>5
<1>8. Basics'
  BY <1>1, <1>3, <1>7 DEF Basics
<1>9. Orderly'
  <2>1. \A d \in Core : \A i \in DOMAIN ts_queue'[d] : ts_queue'[d][i].time >= 0
    BY <1>3, <1>5, <1>7 DEF Orderly
  <2> QED BY <1>1, <1>3, <2>1 DEF Orderly
<1>10. Timely'
  <2>1. \A d \in Core : \A i \in DOMAIN ts_queue'[d] : FromHost(executed_ticks[d], ts_queue'[d][i])
    BY <1>3, <1>5, <1>7 DEF Timely
  <2> QED BY <1>1, <1>3, <2>1 DEF Timely, Firing, LateAtMost, Punctual, FromHost
<1> QED BY <1>2, <1>8, <1>9, <1>10 DEF Inv

-------------------------------------------------------------------------------
(* Advance                                                                 *)

\* The events of the thread-safe queue get places of their own in the heap.
MovedOf(s, n) == {[s[i] EXCEPT !.fifo_order = n + i - 1] : i \in DOMAIN s}

LEMMA HeapMoved ==
    ASSUME NEW q \in SUBSET Event, NEW n \in Nat, Heap(q, n), NEW s \in Seq(Event),
           \A i \in DOMAIN s : s[i].time >= 0
    PROVE  q \cup MovedOf(s, n) \in SUBSET Event /\ Heap(q \cup MovedOf(s, n), n + Len(s))
<1> DEFINE Place(i) == [s[i] EXCEPT !.fifo_order = n + i - 1]
           m == MovedOf(s, n)
<1>1. \A i \in DOMAIN s : s[i] \in Event /\ i \in Nat /\ 1 <= i /\ i <= Len(s) /\ Len(s) \in Nat
  OBVIOUS
<1>2. \A i \in DOMAIN s : /\ Place(i) \in Event /\ Place(i).fifo_order = n + i - 1
                          /\ Place(i).time = s[i].time
  <2> SUFFICES ASSUME NEW i \in DOMAIN s
               PROVE  /\ Place(i) \in Event /\ Place(i).fifo_order = n + i - 1
                      /\ Place(i).time = s[i].time
    OBVIOUS
  <2>1. PICK e, k : e = s[i] /\ k = n + i - 1
    OBVIOUS
  <2>2. e \in Event /\ k \in Nat
    BY <1>1, <2>1
  <2>3. [e EXCEPT !.fifo_order = k] \in Event /\ [e EXCEPT !.fifo_order = k].fifo_order = k
        /\ [e EXCEPT !.fifo_order = k].time = e.time
    BY <2>2 DEF Event
  <2> QED BY <2>1, <2>3
<1>3. m = {Place(i) : i \in DOMAIN s}
  BY DEF MovedOf
<1> HIDE DEF Place, m
<1>4. \A e \in m : e \in Event /\ e.time >= 0 /\ n <= e.fifo_order /\ e.fifo_order < n + Len(s)
  <2> SUFFICES ASSUME NEW i \in DOMAIN s
               PROVE  /\ Place(i) \in Event /\ Place(i).time >= 0
                      /\ n <= Place(i).fifo_order /\ Place(i).fifo_order < n + Len(s)
    BY <1>3
  <2>1. n <= n + i - 1 /\ n + i - 1 < n + Len(s)
    BY <1>1
  <2> QED BY <1>2, <2>1
<1>5. \A e, f \in m : e.fifo_order = f.fifo_order => e = f
  <2> SUFFICES ASSUME NEW i \in DOMAIN s, NEW j \in DOMAIN s,
                      Place(i).fifo_order = Place(j).fifo_order
               PROVE  Place(i) = Place(j)
    BY <1>3
  <2>1. n + i - 1 = n + j - 1 /\ i \in Nat /\ j \in Nat
    BY <1>1, <1>2
  <2>2. i = j
    BY <2>1
  <2> QED BY <2>2
<1>6. \A e \in q : e.fifo_order \in Nat /\ e.fifo_order < n /\ e.time >= 0
  BY DEF Heap, Event
<1>7. \A e \in q, f \in m : e.fifo_order # f.fifo_order
  <2> SUFFICES ASSUME NEW e \in q, NEW f \in m, e.fifo_order = f.fifo_order PROVE FALSE
    OBVIOUS
  <2>1. e.fifo_order \in Nat /\ e.fifo_order < n /\ n <= e.fifo_order
    BY <1>4, <1>6
  <2> QED BY <2>1
<1>8. Len(s) \in Nat
  OBVIOUS
<1>9. \A e \in q : e.fifo_order < n + Len(s)
  BY <1>6, <1>8
<1>10. \A e, f \in q : e.fifo_order = f.fifo_order => e = f
  BY DEF Heap
<1>11. \A e, f \in q \cup m : e.fifo_order = f.fifo_order => e = f
  BY <1>5, <1>7, <1>10, Zenon
<1>12. q \cup m \in SUBSET Event /\ Heap(q \cup m, n + Len(s))
  BY <1>4, <1>6, <1>9, <1>11 DEF Heap
<1> QED BY <1>12 DEF m

LEMMA EmptyDomain == DOMAIN <<>> = {}
OBVIOUS

\* What Advance does before its loop.
LEMMA AdvanceBeginsInv ==
    ASSUME Inv, NEW c \in Core, AdvanceBegins(c), pc \in {"sync", "advance"},
           cur' = c, pc' \in {"syncFire", "advanceFire"}, next' = next, max_slice' = max_slice
    PROVE  /\ Basics' /\ Orderly' /\ Timely' /\ times' = times
           /\ is_timer_sane'[c] /\ slice_length'[c] = 0 /\ downcount'[c] = 0
           /\ \A d \in Core : d # c => /\ slice_length'[d] = slice_length[d]
                                       /\ downcount'[d] = downcount[d]
                                       /\ executed_ticks'[d] = executed_ticks[d]
                                       /\ is_timer_sane'[d] = is_timer_sane[d]
<1>1. Basics /\ Orderly /\ Timely
  BY DEF Inv
<1>2. /\ executed_ticks[c] \in Nat /\ slice_length[c] \in Nat /\ downcount[c] \in Int
      /\ downcount[c] <= slice_length[c] /\ 0 <= downcount[c] + Overshoot /\ slice_length[c] <= Drift
  BY DEF Inv, Basics, Clocks, Course
<1>3. PICK x, h, q, m : /\ x = executed_ticks[c] + slice_length[c] - downcount[c]
                        /\ h = host' /\ m = Moved(c) /\ q = event_queue[c] \cup m
  OBVIOUS
<1>4. x \in Nat /\ executed_ticks' = [executed_ticks EXCEPT ![c] = x]
  BY <1>2, <1>3 DEF AdvanceBegins
<1>5. /\ executed_ticks' \in [Core -> Nat] /\ slice_length' \in [Core -> Nat]
      /\ downcount' \in [Core -> Int] /\ is_timer_sane' \in [Core -> BOOLEAN]
      /\ is_timer_sane'[c] /\ slice_length'[c] = 0 /\ downcount'[c] = 0 /\ executed_ticks'[c] = x
      /\ \A d \in Core : d # c => /\ slice_length'[d] = slice_length[d]
                                  /\ downcount'[d] = downcount[d]
                                  /\ executed_ticks'[d] = executed_ticks[d]
                                  /\ is_timer_sane'[d] = is_timer_sane[d]
  BY <1>1, <1>4 DEF AdvanceBegins, Basics
<1>6. times' = times
  <2>1. \A d \in Core : /\ executed_ticks'[d] + slice_length'[d] - downcount'[d]
                           = executed_ticks[d] + slice_length[d] - downcount[d]
    <3> SUFFICES ASSUME NEW d \in Core
                 PROVE  executed_ticks'[d] + slice_length'[d] - downcount'[d]
                        = executed_ticks[d] + slice_length[d] - downcount[d]
      OBVIOUS
    <3>1. CASE d = c
      BY <1>3, <1>4, <1>5, <3>1
    <3>2. CASE d # c
      BY <1>5, <3>2
    <3> QED BY <3>1, <3>2
  <2> QED BY <2>1 DEF times
<1>7. /\ event_queue' = [event_queue EXCEPT ![c] = q] /\ ts_queue' = [ts_queue EXCEPT ![c] = <<>>]
      /\ event_fifo_id' = [event_fifo_id EXCEPT ![c] = event_fifo_id[c] + Len(ts_queue[c])]
  BY <1>3 DEF AdvanceBegins
<1>8. /\ ts_queue[c] \in Seq(Event) /\ event_queue[c] \in SUBSET Event /\ event_fifo_id[c] \in Nat
      /\ Heap(event_queue[c], event_fifo_id[c]) /\ \A i \in DOMAIN ts_queue[c] : ts_queue[c][i].time >= 0
  BY <1>1 DEF Basics, Orderly
<1>9. q \in SUBSET Event /\ Heap(q, event_fifo_id[c] + Len(ts_queue[c]))
  <2>1. PICK p, n, s : p = event_queue[c] /\ n = event_fifo_id[c] /\ s = ts_queue[c]
    OBVIOUS
  <2>2. m = MovedOf(s, n)
    BY <1>3, <2>1 DEF Moved, MovedOf
  <2>3. p \cup m \in SUBSET Event /\ Heap(p \cup m, n + Len(s))
    <3>1. /\ p \in SUBSET Event /\ n \in Nat /\ Heap(p, n) /\ s \in Seq(Event)
          /\ \A i \in DOMAIN s : s[i].time >= 0
      BY <1>8, <2>1
    <3> QED BY <2>2, <3>1, HeapMoved
  <2> QED BY <1>3, <2>1, <2>3
<1>10. /\ event_queue' \in [Core -> SUBSET Event] /\ ts_queue' \in [Core -> Seq(Event)]
       /\ event_fifo_id' \in [Core -> Nat] /\ event_queue'[c] = q /\ ts_queue'[c] = <<>>
       /\ event_fifo_id'[c] = event_fifo_id[c] + Len(ts_queue[c])
       /\ \A d \in Core : d # c => /\ event_queue'[d] = event_queue[d] /\ ts_queue'[d] = ts_queue[d]
                                   /\ event_fifo_id'[d] = event_fifo_id[d]
  BY <1>1, <1>7, <1>8, <1>9 DEF Basics
<1>11. \/ h = host /\ (host # NoEvent => host.core # c)
       \/ /\ h \in [core : Core, event : Event] /\ h.core = c /\ h.event.origin = "heldUp"
          /\ h.event.time >= 0
  <2>1. CASE host # NoEvent /\ host.core = c
    <3>1. host \in [core : Core, event : Event] /\ host.event \in Event /\ host.event.time >= 0
      BY <1>1, <2>1 DEF Basics, Orderly
    <3>2. PICK e : e = [host.event EXCEPT !.origin = "heldUp"]
      OBVIOUS
    <3>3. e \in Event /\ e.origin = "heldUp" /\ e.time = host.event.time
      BY <3>1, <3>2 DEF Event, Origin
    <3>4. h = [host EXCEPT !.event = e]
      BY <1>3, <2>1, <3>2 DEF AdvanceBegins
    <3>5. h \in [core : Core, event : Event] /\ h.core = c /\ h.event = e
      BY <2>1, <3>1, <3>3, <3>4
    <3> QED BY <3>1, <3>3, <3>5
  <2>2. CASE ~(host # NoEvent /\ host.core = c)
    BY <1>3, <2>2 DEF AdvanceBegins
  <2> QED BY <2>1, <2>2
<1>12. Basics'
  <2>1. h \in [core : Core, event : Event] \cup {NoEvent}
    BY <1>1, <1>11 DEF Basics
  <2>2. pc' \in Pc /\ cur' \in Core /\ next' \in 0 .. NumCores /\ max_slice' \in Nat
    BY <1>1 DEF Basics, Pc
  <2> QED BY <1>3, <1>5, <1>10, <2>1, <2>2 DEF Basics
<1>13. Orderly'
  <2>1. \A d \in Core : Heap(event_queue'[d], event_fifo_id'[d])
    <3>1. \A d \in Core : d # c => Heap(event_queue'[d], event_fifo_id'[d])
      BY <1>1, <1>10 DEF Orderly
    <3>2. Heap(event_queue'[c], event_fifo_id'[c])
      BY <1>9, <1>10
    <3> QED BY <3>1, <3>2
  <2>2. \A d \in Core : \A i \in DOMAIN ts_queue'[d] : ts_queue'[d][i].time >= 0
    BY <1>1, <1>10, EmptyDomain DEF Orderly
  <2>3. h # NoEvent => h.event.time >= 0
    BY <1>1, <1>11 DEF Orderly
  <2> QED BY <1>3, <2>1, <2>2, <2>3 DEF Orderly
<1>14. Timely'
  <2>1. Firing' /\ ~Firing
    BY DEF Firing
  <2>2. \A d \in Core : d # c => \A e \in event_queue'[d] : Punctual(executed_ticks'[d] + slice_length'[d], e)
    BY <1>1, <1>5, <1>10, <2>1 DEF Timely, Punctual
  <2>3. PICK k : k = (NumCores + 1) * Overshoot
    OBVIOUS
  <2>4. k = Over(NumCores) + Overshoot
    BY <2>3, DriftIs DEF Over
  <2>5. ASSUME NEW e \in event_queue[c]
        PROVE  x - e.time <= Overshoot /\ x - e.time <= MinDelay + k
    <3>1. executed_ticks[c] + slice_length[c] <= e.time /\ e.time \in Int
      BY <1>1, <1>8, <2>1 DEF Timely, Punctual, Event
    <3> QED BY <1>2, <1>3, <2>4, <3>1, DriftIs
  <2>6. ASSUME NEW e \in m
        PROVE  e.origin # "core" /\ (e.origin = "host" => x - e.time <= MinDelay + k)
    <3>1. PICK i \in DOMAIN ts_queue[c] : e = [ts_queue[c][i] EXCEPT !.fifo_order = event_fifo_id[c] + i - 1]
      BY <1>3, <2>6 DEF Moved
    <3>2. ts_queue[c][i] \in Event
      BY <1>8
    <3>3. e.origin = ts_queue[c][i].origin /\ e.time = ts_queue[c][i].time /\ e.time \in Int
      BY <3>1, <3>2 DEF Event
    <3>4. /\ e.origin \in {"host", "heldUp"}
          /\ e.origin = "host" => executed_ticks[c] + MAX_SLICE_LENGTH <= e.time
      BY <1>1, <3>3 DEF Timely, FromHost
    <3>5. ASSUME e.origin = "host" PROVE x - e.time <= MinDelay + k
      BY <1>2, <1>3, <2>4, <3>3, <3>4, <3>5, DriftIs
    <3> QED BY <3>4, <3>5
  <2>7. \A e \in event_queue'[c] : LateAtMost(executed_ticks'[c], e)
    BY <1>3, <1>5, <1>10, <2>3, <2>5, <2>6 DEF LateAtMost
  <2>8. \A d \in Core : \A i \in DOMAIN ts_queue'[d] : FromHost(executed_ticks'[d], ts_queue'[d][i])
    BY <1>1, <1>5, <1>10, EmptyDomain DEF Timely, FromHost
  <2>9. h # NoEvent => FromHost(executed_ticks'[h.core], h.event)
    <3>1. CASE h = host /\ (host # NoEvent => host.core # c)
      <4>1. ASSUME host # NoEvent PROVE host.core \in Core /\ host.core # c
        BY <1>1, <3>1, <4>1 DEF Basics
      <4> QED BY <1>1, <1>3, <1>5, <3>1, <4>1 DEF Timely, FromHost
    <3>2. CASE h.core = c /\ h.event.origin = "heldUp"
      BY <1>3, <3>2 DEF FromHost
    <3> QED BY <1>11, <3>1, <3>2
  <2> QED BY <1>3, <2>1, <2>2, <2>7, <2>8, <2>9 DEF Timely
<1> QED BY <1>5, <1>6, <1>12, <1>13, <1>14

\* No event is due before all cores have started.
LEMMA FreshTimes ==
    ASSUME Inv, Fresh
    PROVE  \A c \in Core : Delay(c) = 0
<1>1. \A c \in Core : times[c] = 0
  <2> SUFFICES ASSUME NEW c \in Core PROVE times[c] = 0
    OBVIOUS
  <2>1. /\ executed_ticks[c] = 0 /\ slice_length[c] = downcount[c] /\ slice_length[c] \in Nat
        /\ times[c] = executed_ticks[c] + slice_length[c] - downcount[c]
    BY TimesAre DEF Inv, Basics, Clocks, Fresh
  <2> QED BY <2>1
<1>2. \A c \in Core : Delay(c) = GetGlobalTicks - times[c]
  BY GlobalTicks DEF Inv
<1>3. GetGlobalTicks = 0
  BY <1>1, GlobalTicks DEF Inv
<1> QED BY <1>1, <1>2, <1>3

LEMMA SyncBeginsInv ==
    ASSUME Inv, NEW c \in Core, SyncBegins(c)
    PROVE  Inv' /\ times' = times
<1>1. /\ pc = "sync" /\ c \in Behind /\ (\A d \in Behind : c <= d) /\ AdvanceBegins(c)
      /\ pc' = "syncFire" /\ cur' = c /\ next' = next /\ max_slice' = max_slice
  BY DEF SyncBegins
<1>2. /\ Basics' /\ Orderly' /\ Timely' /\ times' = times
      /\ is_timer_sane'[c] /\ slice_length'[c] = 0 /\ downcount'[c] = 0
      /\ \A d \in Core : d # c => /\ slice_length'[d] = slice_length[d]
                                  /\ downcount'[d] = downcount[d]
                                  /\ executed_ticks'[d] = executed_ticks[d]
                                  /\ is_timer_sane'[d] = is_timer_sane[d]
  BY <1>1, AdvanceBeginsInv
<1>3. Clocks'
  <2>1. \A d \in Core : ~is_timer_sane[d]
    <3>1. ~Fresh
      BY <1>1, FreshTimes DEF Behind
    <3> QED BY <1>1, <3>1 DEF Inv, Clocks, Syncing
  <2>2. \A d \in Core : /\ downcount'[d] <= slice_length'[d] /\ 0 <= downcount'[d] + Overshoot
                        /\ is_timer_sane'[d] => slice_length'[d] = downcount'[d]
    <3> SUFFICES ASSUME NEW d \in Core
                 PROVE  /\ downcount'[d] <= slice_length'[d] /\ 0 <= downcount'[d] + Overshoot
                        /\ is_timer_sane'[d] => slice_length'[d] = downcount'[d]
      OBVIOUS
    <3>1. CASE d = c
      BY <1>2, <3>1, DriftIs
    <3>2. CASE d # c
      BY <1>2, <3>2 DEF Inv, Clocks
    <3> QED BY <3>1, <3>2
  <2> QED BY <1>1, <1>2, <2>1, <2>2 DEF Clocks, Firing, Passing, Syncing, Idle
<1>4. Course'
  <2>1. \A d \in Core : slice_length'[d] <= Drift
    BY <1>2, DriftIs DEF Inv, Course
  <2> QED BY <1>1, <2>1 DEF Inv, Course, Passing
<1>5. Ranks'
  <2>1. Ranked(times)
    BY <1>1 DEF Inv, Ranks, Syncing
  <2>2. ASSUME NEW d \in Core, d < c PROVE Prepared(d)'
    <3>1. d # c /\ d \in Int /\ c \in Int /\ next \in Int
      BY <2>2, DriftIs DEF Core, Inv, Basics
    <3>2. CASE d < next
      <4>1. Prepared(d)
        BY <1>1, <3>2 DEF Inv, Ranks
      <4> QED BY <1>2, <3>1, <4>1 DEF Prepared
    <3>3. CASE ~(d < next)
      <4>1. d \notin Behind
        BY <1>1, <2>2, <3>1
      <4>2. d >= next
        BY <3>1, <3>3
      <4>3. ~(Delay(d) > 0)
        BY <4>1, <4>2 DEF Behind
      <4>4. ~ \E e \in Core : times[e] > times[d]
        <5> SUFFICES ASSUME NEW e \in Core, times[e] > times[d] PROVE FALSE
          OBVIOUS
        <5>1. /\ Delay(d) = GetGlobalTicks - times[d] /\ times[e] <= GetGlobalTicks
              /\ GetGlobalTicks \in Nat
          BY GlobalTicks DEF Inv
        <5>2. times[e] \in Nat /\ times[d] \in Nat
          BY TimesAre DEF Inv
        <5> QED BY <4>3, <5>1, <5>2
      <4> QED BY <1>2, <4>4 DEF Prepared
    <3> QED BY <3>2, <3>3
  <2> QED BY <1>1, <1>2, <2>1, <2>2 DEF Ranks, Syncing
<1> QED BY <1>2, <1>3, <1>4, <1>5 DEF Inv

LEMMA AdvancePassInv ==
    ASSUME Inv, AdvancePass
    PROVE  Inv' /\ times' = times
<1>0. PICK c \in Core : c = cur
  BY DEF Inv, Basics
<1>1. /\ pc = "advance" /\ AdvanceBegins(c) /\ pc' = "advanceFire" /\ cur' = c
      /\ next' = next /\ max_slice' = max_slice
  BY <1>0 DEF AdvancePass
<1>2. /\ Basics' /\ Orderly' /\ Timely' /\ times' = times
      /\ is_timer_sane'[c] /\ slice_length'[c] = 0 /\ downcount'[c] = 0
      /\ \A d \in Core : d # c => /\ slice_length'[d] = slice_length[d]
                                  /\ downcount'[d] = downcount[d]
                                  /\ executed_ticks'[d] = executed_ticks[d]
                                  /\ is_timer_sane'[d] = is_timer_sane[d]
  BY <1>1, AdvanceBeginsInv
<1>3. Clocks'
  <2>1. \A d \in Core : /\ downcount'[d] <= slice_length'[d] /\ 0 <= downcount'[d] + Overshoot
                        /\ is_timer_sane'[d] => slice_length'[d] = downcount'[d]
    <3> SUFFICES ASSUME NEW d \in Core
                 PROVE  /\ downcount'[d] <= slice_length'[d] /\ 0 <= downcount'[d] + Overshoot
                        /\ is_timer_sane'[d] => slice_length'[d] = downcount'[d]
      OBVIOUS
    <3>1. CASE d = c
      BY <1>2, <3>1, DriftIs
    <3>2. CASE d # c
      BY <1>2, <3>2 DEF Inv, Clocks
    <3> QED BY <3>1, <3>2
  <2>2. \A d \in Core : d < c => d # c
    BY DEF Core
  <2>3. \A d \in Core : d < c => ~is_timer_sane'[d] /\ slice_length'[d] = 0 /\ downcount'[d] = 0
    BY <1>0, <1>1, <1>2, <2>2 DEF Inv, Clocks, Passing, Idle
  <2> QED BY <1>1, <1>2, <2>1, <2>3 DEF Clocks, Firing, Passing, Syncing, Idle
<1>4. Course'
  <2>1. \A d \in Core : slice_length'[d] <= Drift
    BY <1>2, DriftIs DEF Inv, Course
  <2> QED BY <1>1, <1>2, <2>1 DEF Inv, Course, Passing
<1>5. Ranks'
  BY <1>1 DEF Inv, Ranks, Syncing
<1> QED BY <1>2, <1>3, <1>4, <1>5 DEF Inv

-------------------------------------------------------------------------------
(* Slices                                                                  *)

LEMMA FrontOf ==
    ASSUME Inv, NEW c \in Core, event_queue[c] # {}
    PROVE  /\ Front(event_queue[c]) \in event_queue[c] /\ Front(event_queue[c]).time \in Int
           /\ \A e \in event_queue[c] : Front(event_queue[c]).time <= e.time /\ e.time \in Int
<1>1. PICK q : q = event_queue[c]
  OBVIOUS
<1>2. /\ q \in SUBSET Event /\ q # {} /\ (\A e \in q : e.time >= 0)
      /\ \A e, f \in q : e.fifo_order = f.fifo_order => e = f
  BY <1>1 DEF Inv, Basics, Orderly, Heap
<1>3. Front(q) \in q /\ \A f \in q : Front(q).time <= f.time
  BY <1>2, FrontIsFirst
<1>4. \A e \in q : e.time \in Int
  BY <1>2 DEF Event
<1> QED BY <1>1, <1>3, <1>4

LEMMA NotDue ==
    ASSUME Inv, NEW c \in Core, ~Due(c)
    PROVE  \A e \in event_queue[c] : executed_ticks[c] < e.time
<1> SUFFICES ASSUME NEW e \in event_queue[c] PROVE executed_ticks[c] < e.time
  OBVIOUS
<1>1. /\ Front(event_queue[c]).time \in Int /\ Front(event_queue[c]).time <= e.time
      /\ e.time \in Int /\ executed_ticks[c] \in Nat
  BY FrontOf DEF Inv, Basics
<1>2. ~(Front(event_queue[c]).time <= executed_ticks[c])
  BY DEF Due
<1> QED BY <1>1, <1>2

\* A slice ends at the next event or before it.
LEMMA NextSliceIs ==
    ASSUME Inv, NEW c \in Core, NEW max \in Nat,
           \A e \in event_queue[c] : executed_ticks[c] <= e.time
    PROVE  /\ NextSlice(c, max) \in Nat /\ NextSlice(c, max) <= max
           /\ \A e \in event_queue[c] : executed_ticks[c] + NextSlice(c, max) <= e.time
<1>1. CASE event_queue[c] = {}
  BY <1>1 DEF NextSlice
<1>2. CASE event_queue[c] # {}
  <2>1. PICK f : f = Front(event_queue[c])
    OBVIOUS
  <2>2. /\ f \in event_queue[c] /\ f.time \in Int /\ executed_ticks[c] \in Nat
        /\ executed_ticks[c] <= f.time
        /\ \A e \in event_queue[c] : f.time <= e.time /\ e.time \in Int
    BY <1>2, <2>1, FrontOf DEF Inv, Basics
  <2>3. NextSlice(c, max) = Min2(f.time - executed_ticks[c], max)
    BY <1>2, <2>1 DEF NextSlice
  <2>4. PICK n : n = NextSlice(c, max)
    OBVIOUS
  <2>5. n \in Nat /\ n <= max /\ executed_ticks[c] + n <= f.time
    BY <2>2, <2>3, <2>4 DEF Min2
  <2>6. \A e \in event_queue[c] : executed_ticks[c] + n <= e.time
    BY <2>2, <2>5
  <2> QED BY <2>4, <2>5, <2>6
<1> QED BY <1>1, <1>2

LEMMA RankedDrift ==
    ASSUME NEW t, Ranked(t)
    PROVE  \A c, d \in Core : t[d] - t[c] <= Drift
<1> SUFFICES ASSUME NEW c \in Core, NEW d \in Core PROVE t[d] - t[c] <= Drift
  OBVIOUS
<1>1. {c} \in SUBSET Core /\ {c} # {} /\ Cardinality({c}) = 1
  BY FS_Singleton
<1>2. Allowed({c}) = Drift
  <2>1. Cardinality({c}) - 1 = 0
    BY <1>1
  <2>2. Allowed({c}) = Drift - Over(0)
    BY <2>1 DEF Allowed
  <2> QED BY <2>2, OverArithmetic, DriftIs
<1>3. Within(t, c, Drift)
  BY <1>1, <1>2 DEF Ranked
<1> QED BY <1>3 DEF Within

LEMMA SyncEndsInv ==
    ASSUME Inv, SyncEnds
    PROVE  Inv' /\ times' = times
<1>0. PICK c \in Core : c = cur
  BY DEF Inv, Basics
<1>1. PICK n : n = NextSlice(c, Delay(c))
  OBVIOUS
<1>2. /\ pc = "syncFire" /\ ~Due(c) /\ pc' = "sync" /\ next' = c + 1 /\ cur' = cur
      /\ max_slice' = max_slice /\ event_queue' = event_queue /\ ts_queue' = ts_queue
      /\ event_fifo_id' = event_fifo_id /\ executed_ticks' = executed_ticks /\ host' = host
      /\ is_timer_sane' = [is_timer_sane EXCEPT ![c] = FALSE]
      /\ slice_length' = [slice_length EXCEPT ![c] = n]
      /\ downcount' = [downcount EXCEPT ![c] = n]
  BY <1>0, <1>1 DEF SyncEnds, queueVars
<1>3. /\ times \in [Core -> Int] /\ Delay(c) = GetGlobalTicks - times[c] /\ Delay(c) \in Nat
      /\ \E d \in Core : times[d] = times[c] + Delay(c)
  <2>1. /\ Delay(c) = GetGlobalTicks - times[c] /\ times[c] <= GetGlobalTicks
        /\ GetGlobalTicks \in Nat /\ \E d \in Core : GetGlobalTicks = times[d]
    BY GlobalTicks DEF Inv
  <2>2. times \in [Core -> Int] /\ times[c] \in Nat
    BY TimesAre DEF Inv
  <2> QED BY <2>1, <2>2
<1>4. Delay(c) <= Drift
  <2>1. PICK t : t = times
    OBVIOUS
  <2>2. Ranked(t)
    BY <1>2, <2>1 DEF Inv, Ranks, Syncing
  <2>3. \A a, b \in Core : t[b] - t[a] <= Drift
    BY <2>2, RankedDrift
  <2> QED BY <1>3, <2>1, <2>3
<1>5. \A e \in event_queue[c] : executed_ticks[c] < e.time /\ executed_ticks[c] \in Nat /\ e.time \in Int
  BY <1>2, NotDue, FrontOf DEF Inv, Basics
<1>6. n \in Nat /\ n <= Delay(c) /\ \A e \in event_queue[c] : executed_ticks[c] + n <= e.time
  <2>1. \A e \in event_queue[c] : executed_ticks[c] <= e.time
    BY <1>5
  <2>2. PICK m : m = Delay(c)
    OBVIOUS
  <2> QED BY <1>1, <1>3, <2>1, <2>2, NextSliceIs
<1>7. Basics /\ Clocks /\ Orderly /\ Timely /\ Course /\ Ranks
  BY DEF Inv
<1>8. slice_length[c] = 0 /\ downcount[c] = 0 /\ executed_ticks[c] \in Nat /\ times[c] = executed_ticks[c]
  <2>1. slice_length[c] = 0 /\ downcount[c] = 0 /\ executed_ticks[c] \in Nat
    BY <1>0, <1>2, <1>7 DEF Clocks, Firing, Idle, Basics
  <2>2. times[c] = executed_ticks[c] + slice_length[c] - downcount[c]
    BY <1>7, TimesAre
  <2> QED BY <2>1, <2>2
<1>9. /\ slice_length' \in [Core -> Nat] /\ downcount' \in [Core -> Int] /\ is_timer_sane' \in [Core -> BOOLEAN]
      /\ slice_length'[c] = n /\ downcount'[c] = n /\ ~is_timer_sane'[c]
      /\ \A d \in Core : d # c => /\ slice_length'[d] = slice_length[d] /\ downcount'[d] = downcount[d]
                                  /\ is_timer_sane'[d] = is_timer_sane[d]
  BY <1>2, <1>6, <1>7 DEF Basics
<1>10. times' = times
  <2>1. ASSUME NEW d \in Core
        PROVE  executed_ticks[d] + slice_length'[d] - downcount'[d]
               = executed_ticks[d] + slice_length[d] - downcount[d]
    <3>1. CASE d = c
      BY <1>6, <1>8, <1>9, <3>1
    <3>2. CASE d # c
      BY <1>9, <3>2
    <3> QED BY <3>1, <3>2
  <2> QED BY <1>2, <2>1 DEF times
<1>11. Basics'
  <2>1. c + 1 \in 0 .. NumCores
    BY DriftIs DEF Core
  <2> QED BY <1>2, <1>7, <1>9, <2>1 DEF Basics, Pc
<1>12. Clocks'
  <2>1. \A d \in Core : ~is_timer_sane'[d]
    BY <1>0, <1>2, <1>7, <1>9 DEF Clocks, Syncing
  <2>2. \A d \in Core : /\ downcount'[d] <= slice_length'[d] /\ 0 <= downcount'[d] + Overshoot
    <3> SUFFICES ASSUME NEW d \in Core
                 PROVE  /\ downcount'[d] <= slice_length'[d] /\ 0 <= downcount'[d] + Overshoot
      OBVIOUS
    <3>1. CASE d = c
      BY <1>6, <1>9, <3>1, DriftIs
    <3>2. CASE d # c
      BY <1>7, <1>9, <3>2 DEF Clocks
    <3> QED BY <3>1, <3>2
  <2> QED BY <1>2, <2>1, <2>2 DEF Clocks, Firing, Passing, Syncing
<1>13. Orderly'
  BY <1>2, <1>7 DEF Orderly
<1>14. Timely'
  <2>1. \A d \in Core : \A e \in event_queue[d] : Punctual(executed_ticks[d] + slice_length'[d], e)
    <3>1. \A e \in event_queue[c] : Punctual(executed_ticks[c] + slice_length'[c], e)
      BY <1>6, <1>9 DEF Punctual
    <3>2. \A d \in Core : d # c => \A e \in event_queue[d] : Punctual(executed_ticks[d] + slice_length'[d], e)
      BY <1>0, <1>7, <1>9 DEF Timely
    <3> QED BY <3>1, <3>2
  <2> QED BY <1>2, <1>7, <2>1 DEF Timely, Firing
<1>15. Course'
  <2>1. \A d \in Core : slice_length'[d] <= Drift
    <3>1. slice_length'[c] <= Drift
      BY <1>3, <1>4, <1>6, <1>9, DriftIs
    <3> QED BY <1>7, <1>9, <3>1 DEF Course
  <2> QED BY <1>2, <1>7, <2>1 DEF Course, Passing
<1>16. Ranks'
  <2>1. Ranked(times')
    BY <1>2, <1>7, <1>10 DEF Ranks, Syncing
  <2>2. Prepared(c)'
    <3>1. executed_ticks[c] + n <= times[c] + Delay(c)
      BY <1>3, <1>6, <1>8
    <3> QED BY <1>2, <1>3, <1>9, <1>10, <3>1 DEF Prepared
  <2>3. ASSUME NEW d \in Core, d < c PROVE Prepared(d)'
    <3>1. Prepared(d) /\ d # c
      BY <1>0, <1>2, <1>7, <2>3 DEF Ranks, Core
    <3> QED BY <1>2, <1>9, <1>10, <3>1 DEF Prepared
  <2>4. \A d \in Core : d < c + 1 => d < c \/ d = c
    BY DEF Core
  <2> QED BY <1>2, <2>1, <2>2, <2>3, <2>4 DEF Ranks, Syncing
<1> QED BY <1>10, <1>11, <1>12, <1>13, <1>14, <1>15, <1>16 DEF Inv

LEMMA SyncedInv ==
    ASSUME Inv, Synced
    PROVE  Inv' /\ times' = times
<1>0. Basics /\ Clocks /\ Orderly /\ Timely /\ Course /\ Ranks
  BY DEF Inv
<1>1. /\ pc = "sync" /\ Behind = {} /\ next' = 0 /\ event_queue' = event_queue /\ ts_queue' = ts_queue
      /\ event_fifo_id' = event_fifo_id /\ is_timer_sane' = is_timer_sane
      /\ slice_length' = slice_length /\ downcount' = downcount /\ executed_ticks' = executed_ticks
      /\ host' = host /\ max_slice' = max_slice
      /\ IF Delay(Furthest) > MinDelay THEN pc' = "delayed" /\ cur' = Furthest
                                       ELSE pc' = "advance" /\ cur' = 0
  BY DEF Synced, queueVars, tickVars
<1>2. times' = times
  BY <1>1 DEF times
<1>3. PICK f \in Core : f = Furthest
  BY <1>0, FurthestIs
<1>4. /\ times \in [Core -> Int] /\ (\A d \in Core : times[f] <= times[d])
      /\ Delay(f) = GetGlobalTicks - times[f] /\ GetGlobalTicks \in Nat
      /\ \A d \in Core : times[d] <= GetGlobalTicks
  BY <1>0, <1>3, TimesAre, GlobalTicks, FurthestIs
<1>5. Basics'
  <2>1. 0 \in Core /\ 0 \in 0 .. NumCores
    BY DriftIs DEF Core
  <2> QED BY <1>0, <1>1, <1>3, <2>1 DEF Basics, Pc
<1>6. Orderly' /\ Timely'
  <2>1. ~Firing /\ ~Firing'
    BY <1>1 DEF Firing
  <2> QED BY <1>0, <1>1, <2>1 DEF Orderly, Timely
<1>7. CASE Delay(f) > MinDelay
  <2>1. pc' = "delayed" /\ cur' = f /\ Delay(f) > 0
    BY <1>1, <1>3, <1>4, <1>7, DriftIs
  <2>2. Clocks'
    <3>1. ~Fresh
      BY <2>1, FreshTimes
    <3> QED BY <1>0, <1>1, <2>1, <3>1 DEF Clocks, Firing, Passing, Syncing
  <2>3. Course'
    BY <1>0, <1>1, <2>1 DEF Course, Passing
  <2>4. Ranks'
    <3>1. PICK t, r : t = times /\ r = executed_ticks[f] + slice_length[f] + Overshoot
      OBVIOUS
    <3>2. f < next
      <4>1. ~(f >= next)
        BY <1>1, <2>1 DEF Behind
      <4> QED BY <1>0, <4>1 DEF Core, Basics
    <3>3. \E d \in Core : times[d] > times[f]
      <4>1. PICK d \in Core : GetGlobalTicks = times[d]
        BY <1>0, GlobalTicks
      <4> QED BY <1>4, <2>1, <4>1
    <3>4. PICK e \in Core : executed_ticks[f] + slice_length[f] <= times[e]
      BY <1>0, <1>1, <3>2, <3>3 DEF Ranks, Prepared
    <3>5. r \in Int /\ r <= t[e] + Overshoot
      <4>1. executed_ticks[f] \in Nat /\ slice_length[f] \in Nat /\ times[e] \in Int
        BY <1>0, <1>4 DEF Basics
      <4> QED BY <3>1, <3>4, <4>1, DriftIs
    <3>6. Ranked(t)
      BY <1>0, <1>1, <3>1 DEF Ranks, Syncing
    <3>7. t \in [Core -> Int] /\ \A d \in Core : t[f] <= t[d]
      BY <1>4, <3>1
    <3>8. Reaching(t, f, r)
      BY <3>5, <3>6, <3>7, RankedStart
    <3> QED BY <1>1, <1>2, <2>1, <3>1, <3>6, <3>8 DEF Ranks, Syncing
  <2> QED BY <1>2, <1>5, <1>6, <2>2, <2>3, <2>4 DEF Inv
<1>8. CASE ~(Delay(f) > MinDelay)
  <2>1. pc' = "advance" /\ cur' = 0
    BY <1>1, <1>3, <1>8
  <2>2. Clocks'
    <3>1. \A c \in Core : ~(c < 0)
      BY DriftIs DEF Core
    <3> QED BY <1>0, <1>1, <2>1, <3>1 DEF Clocks, Firing, Passing, Syncing
  <2>3. \A c, d \in Core : times[c] - times[d] <= MinDelay
    <3> SUFFICES ASSUME NEW c \in Core, NEW d \in Core PROVE times[c] - times[d] <= MinDelay
      OBVIOUS
    <3>1. /\ times[c] \in Int /\ times[d] \in Int /\ times[f] \in Int /\ times[f] <= times[d]
          /\ times[c] <= GetGlobalTicks
      BY <1>4
    <3> QED BY <1>4, <1>8, <3>1, DriftIs
  <2>4. Course'
    BY <1>0, <1>1, <1>2, <2>1, <2>3 DEF Course, Passing
  <2>5. Ranks'
    BY <1>1, <2>1 DEF Ranks, Syncing
  <2> QED BY <1>2, <1>5, <1>6, <2>2, <2>4, <2>5 DEF Inv
<1> QED BY <1>7, <1>8

LEMMA AdvanceEndsInv ==
    ASSUME Inv, AdvanceEnds
    PROVE  Inv' /\ times' = times
<1>0. Basics /\ Clocks /\ Orderly /\ Timely /\ Course /\ Ranks
  BY DEF Inv
<1>1. PICK c \in Core : c = cur
  BY <1>0 DEF Basics
<1>2. PICK max : max = max_slice'
  OBVIOUS
<1>3. /\ pc = "advanceFire" /\ ~Due(c) /\ max = Min2(max_slice, GetMaxSliceLength(c))
      /\ is_timer_sane' = [is_timer_sane EXCEPT ![c] = FALSE]
      /\ event_queue' = event_queue /\ ts_queue' = ts_queue /\ event_fifo_id' = event_fifo_id
      /\ executed_ticks' = executed_ticks /\ host' = host /\ next' = next
      /\ IF c + 1 \in Core
         THEN pc' = "advance" /\ cur' = c + 1 /\ slice_length' = slice_length /\ downcount' = downcount
         ELSE pc' = "run" /\ cur' = 0 /\ Start(0, max)
  BY <1>1, <1>2 DEF AdvanceEnds, queueVars
<1>4. \A e \in event_queue[c] : executed_ticks[c] < e.time /\ executed_ticks[c] \in Nat /\ e.time \in Int
  BY <1>3, NotDue, FrontOf DEF Inv, Basics
<1>5. max \in 1 .. MAX_SLICE_LENGTH
  <2>1. max_slice \in 1 .. MAX_SLICE_LENGTH
    BY <1>0, <1>3 DEF Course
  <2>2. GetMaxSliceLength(c) \in Int /\ GetMaxSliceLength(c) > 0
    <3>1. CASE event_queue[c] = {}
      BY <3>1, DriftIs DEF GetMaxSliceLength
    <3>2. CASE event_queue[c] # {}
      <4>1. PICK f : f = Front(event_queue[c])
        OBVIOUS
      <4>2. f \in event_queue[c]
        BY <3>2, <4>1, FrontOf
      <4>3. GetMaxSliceLength(c) = f.time - executed_ticks[c]
        BY <3>2, <4>1 DEF GetMaxSliceLength
      <4> QED BY <1>4, <4>2, <4>3
    <3> QED BY <3>1, <3>2
  <2> QED BY <1>3, <2>1, <2>2, DriftIs DEF Min2
<1>6. /\ is_timer_sane' \in [Core -> BOOLEAN] /\ ~is_timer_sane'[c]
      /\ \A d \in Core : d # c => is_timer_sane'[d] = is_timer_sane[d]
  BY <1>0, <1>3 DEF Basics
<1>7. \A d \in Core : (d < c \/ d = c) => slice_length[d] = 0 /\ downcount[d] = 0 /\ ~is_timer_sane'[d]
  <2>1. \A d \in Core : d < c => d # c
    BY DEF Core
  <2> QED BY <1>0, <1>1, <1>3, <1>6, <2>1 DEF Clocks, Firing, Passing, Idle
<1>8. \A d \in Core : \A e \in event_queue[d] : Punctual(executed_ticks[d] + slice_length[d], e)
  <2>1. \A e \in event_queue[c] : Punctual(executed_ticks[c] + slice_length[c], e)
    <3>1. slice_length[c] = 0
      BY <1>7
    <3>2. \A e \in event_queue[c] : executed_ticks[c] + 0 <= e.time
      BY <1>4
    <3> QED BY <3>1, <3>2 DEF Punctual
  <2>2. \A d \in Core : d # c => \A e \in event_queue[d] : Punctual(executed_ticks[d] + slice_length[d], e)
    BY <1>0, <1>1 DEF Timely
  <2> QED BY <2>1, <2>2
<1>9. Orderly'
  BY <1>0, <1>3 DEF Orderly
<1>10. CASE c + 1 \in Core
  <2>1. pc' = "advance" /\ cur' = c + 1 /\ slice_length' = slice_length /\ downcount' = downcount
    BY <1>3, <1>10
  <2>2. times' = times
    BY <1>3, <2>1 DEF times
  <2>3. Basics'
    <3>1. max \in Nat
      BY <1>5, DriftIs
    <3>2. pc' \in Pc
      BY <2>1 DEF Pc
    <3> QED BY <1>0, <1>2, <1>3, <1>6, <1>10, <2>1, <3>1, <3>2 DEF Basics
  <2>4. Clocks'
    <3>1. \A d \in Core : d < c + 1 => d < c \/ d = c
      BY DEF Core
    <3>2. \A d \in Core : is_timer_sane'[d] => is_timer_sane[d]
      BY <1>6
    <3> QED BY <1>0, <1>7, <2>1, <3>1, <3>2 DEF Clocks, Firing, Passing, Syncing, Idle
  <2>5. Timely'
    BY <1>0, <1>3, <1>8, <2>1 DEF Timely, Firing
  <2>6. Course'
    <3>1. max <= Drift
      BY <1>5, DriftIs
    <3> QED BY <1>0, <1>2, <1>3, <1>5, <2>1, <2>2, <3>1 DEF Course, Passing
  <2>7. Ranks'
    BY <1>0, <1>3, <2>1 DEF Ranks, Syncing
  <2> QED BY <1>9, <2>2, <2>3, <2>4, <2>5, <2>6, <2>7 DEF Inv
<1>11. CASE c + 1 \notin Core
  <2>1. pc' = "run" /\ cur' = 0 /\ Start(0, max)
    BY <1>3, <1>11
  <2>2. \A d \in Core : slice_length[d] = 0 /\ downcount[d] = 0 /\ ~is_timer_sane'[d]
    <3>1. \A d \in Core : d < c \/ d = c
      BY <1>11, DriftIs DEF Core
    <3> QED BY <1>7, <3>1
  <2>3. PICK n, z : n = NextSlice(0, max) /\ z = 0
    OBVIOUS
  <2>4. z \in Core /\ max \in Nat
    BY <1>5, <2>3, DriftIs DEF Core
  <2>5. n \in Nat /\ n <= max /\ \A e \in event_queue[z] : executed_ticks[z] + n <= e.time
    <3>1. \A e \in event_queue[z] : executed_ticks[z] <= e.time
      <4>1. slice_length[z] = 0 /\ executed_ticks[z] \in Nat
        BY <1>0, <2>2, <2>4 DEF Basics
      <4>2. executed_ticks[z] + slice_length[z] = executed_ticks[z]
        BY <4>1
      <4> QED BY <1>8, <2>4, <4>2 DEF Punctual
    <3> QED BY <2>3, <2>4, <3>1, NextSliceIs
  <2>6. /\ slice_length' \in [Core -> Nat] /\ downcount' \in [Core -> Int]
        /\ slice_length'[z] = n /\ downcount'[z] = n
        /\ \A d \in Core : d # z => slice_length'[d] = 0 /\ downcount'[d] = 0
    BY <1>0, <2>1, <2>2, <2>3, <2>4, <2>5, SMTT(30) DEF Start, Basics
  <2>7. Basics'
    BY <1>0, <1>2, <1>3, <1>6, <2>1, <2>3, <2>4, <2>6 DEF Basics, Pc
  <2>8. Clocks'
    <3>1. \A d \in Core : downcount'[d] <= slice_length'[d] /\ 0 <= downcount'[d] + Overshoot
      BY <2>5, <2>6, DriftIs
    <3>2. \A d \in Core : d > 0 => d # z
      BY <2>3
    <3> QED BY <2>1, <2>2, <2>6, <3>1, <3>2 DEF Clocks, Firing, Passing, Syncing, Idle
  <2>9. Timely'
    <3>1. \A d \in Core : \A e \in event_queue[d] : Punctual(executed_ticks[d] + slice_length'[d], e)
      <4>1. \A d \in Core : d # z => slice_length'[d] = slice_length[d]
        BY <2>2, <2>6
      <4>2. \A e \in event_queue[z] : Punctual(executed_ticks[z] + slice_length'[z], e)
        BY <2>5, <2>6 DEF Punctual
      <4> QED BY <1>8, <4>1, <4>2
    <3> QED BY <1>0, <1>3, <2>1, <3>1 DEF Timely, Firing
  <2>10. Course'
    <3>1. \A d \in Core : times[d] = executed_ticks[d]
      <4>1. \A d \in Core : /\ times[d] = executed_ticks[d] + slice_length[d] - downcount[d]
                            /\ executed_ticks[d] \in Nat
        BY <1>0, TimesAre DEF Basics
      <4> QED BY <2>2, <4>1
    <3>2. \A a, b \in Core : executed_ticks[a] - executed_ticks[b] <= MinDelay
      BY <1>0, <1>3, <3>1 DEF Course, Passing
    <3>3. \A d \in Core : d <= 0 => slice_length'[d] <= MAX_SLICE_LENGTH + Over(d)
      <4>1. \A d \in Core : d <= 0 => d = z
        BY <2>3 DEF Core
      <4>2. slice_length'[z] <= MAX_SLICE_LENGTH + Over(z)
        <5>1. Over(z) = 0 /\ slice_length'[z] = n
          BY <2>3, <2>6, OverArithmetic
        <5> QED BY <1>5, <2>5, <5>1, DriftIs
      <4> QED BY <4>1, <4>2
    <3>4. \A a, b \in Core : ~(a < b /\ b <= 0)
      BY DEF Core
    <3>5. max <= Drift /\ \A d \in Core : slice_length'[d] <= Drift
      <4>1. max <= Drift /\ n <= Drift
        BY <1>5, <2>5, DriftIs
      <4> QED BY <2>6, <4>1, DriftIs
    <3> QED BY <1>2, <1>3, <2>1, <3>2, <3>3, <3>4, <3>5 DEF Course, Passing
  <2>11. Ranks'
    BY <1>0, <1>3, <2>1 DEF Ranks, Syncing
  <2>12. times' = times
    <3>1. ASSUME NEW d \in Core
          PROVE  executed_ticks[d] + slice_length'[d] - downcount'[d]
                 = executed_ticks[d] + slice_length[d] - downcount[d]
      <4>1. executed_ticks[d] \in Nat /\ slice_length[d] = 0 /\ downcount[d] = 0
        BY <1>0, <2>2 DEF Basics
      <4>2. CASE d = z
        BY <2>5, <2>6, <4>1, <4>2
      <4>3. CASE d # z
        BY <2>6, <4>1, <4>3
      <4> QED BY <4>2, <4>3
    <3> QED BY <1>3, <3>1 DEF times
  <2> QED BY <1>9, <2>7, <2>8, <2>9, <2>10, <2>11, <2>12 DEF Inv
<1> QED BY <1>10, <1>11

-------------------------------------------------------------------------------
(* The core that runs                                                      *)

LEMMA RunningIs ==
    ASSUME Inv, Running
    PROVE  ~Firing /\ \A c \in Core : ~is_timer_sane[c]
BY DEF Inv, Running, Firing, Clocks, Syncing

LEMMA AddTicksInv ==
    ASSUME Inv, NEW ticks \in Nat, AddTicks(ticks)
    PROVE  Inv'
<1>0. Basics /\ Clocks /\ Orderly /\ Timely /\ Course /\ Ranks
  BY DEF Inv
<1>1. PICK c \in Core : c = cur
  BY <1>0 DEF Basics
<1>2. /\ Running /\ ticks <= downcount[c] + Overshoot
      /\ downcount' = [downcount EXCEPT ![c] = downcount[c] - ticks]
      /\ event_queue' = event_queue /\ ts_queue' = ts_queue /\ event_fifo_id' = event_fifo_id
      /\ is_timer_sane' = is_timer_sane /\ slice_length' = slice_length
      /\ executed_ticks' = executed_ticks /\ host' = host
      /\ pc' = pc /\ cur' = cur /\ next' = next /\ max_slice' = max_slice
  BY <1>1 DEF AddTicks, queueVars, loopVars
<1>3. downcount[c] \in Int /\ slice_length[c] \in Nat /\ executed_ticks[c] \in Nat /\ downcount[c] <= slice_length[c]
  BY <1>0 DEF Basics, Clocks
<1>4. /\ downcount' \in [Core -> Int] /\ downcount'[c] = downcount[c] - ticks
      /\ \A d \in Core : d # c => downcount'[d] = downcount[d]
  BY <1>0, <1>2, <1>3 DEF Basics
<1>5. ~Firing /\ \A d \in Core : ~is_timer_sane[d]
  BY <1>2, RunningIs
<1>6. Basics'
  BY <1>0, <1>2, <1>4 DEF Basics
<1>7. Clocks'
  <2>1. \A d \in Core : downcount'[d] <= slice_length[d] /\ 0 <= downcount'[d] + Overshoot
    <3>1. downcount'[c] <= slice_length[c] /\ 0 <= downcount'[c] + Overshoot
      BY <1>2, <1>3, <1>4, DriftIs
    <3> QED BY <1>0, <1>4, <3>1 DEF Clocks
  <2>2. \A d \in Core : d > cur => d # c
    BY <1>1 DEF Core
  <2>3. ~Passing
    BY <1>2 DEF Running, Passing
  <2> QED BY <1>0, <1>2, <1>4, <1>5, <2>1, <2>2, <2>3 DEF Clocks, Firing, Passing, Syncing, Idle
<1>8. Orderly' /\ Timely'
  BY <1>0, <1>2 DEF Orderly, Timely, Firing
<1>9. Course'
  <2>1. ~Passing /\ pc \notin {"sync", "syncFire", "advance", "advanceFire"}
    BY <1>2 DEF Running, Passing
  <2>2. \A a, b \in Core : a < b /\ b <= cur => a # c
    BY <1>1 DEF Core
  <2>3. \A a, b \in Core : a < b /\ b <= cur => slice_length'[a] - downcount'[a] = slice_length[a] - downcount[a]
    BY <1>2, <1>4, <2>2
  <2> QED BY <1>0, <1>2, <2>1, <2>3 DEF Course, Passing, Ran
<1>10. Ranks'
  <2>1. CASE pc = "run"
    BY <1>0, <1>2, <2>1 DEF Ranks, Syncing
  <2>2. CASE pc = "delayed"
    <3>1. PICK t, u, x, r : /\ t = times /\ u = times' /\ x = times[c] + ticks
                            /\ r = executed_ticks[c] + slice_length[c] + Overshoot
      OBVIOUS
    <3>2. t \in [Core -> Int] /\ t[c] = executed_ticks[c] + slice_length[c] - downcount[c]
      BY <1>0, <3>1, TimesAre
    <3>3. x \in Int /\ r \in Int /\ t[c] <= x /\ x <= r
      BY <1>2, <1>3, <3>1, <3>2, DriftIs
    <3>4. u = [t EXCEPT ![c] = x]
      <4>1. u = [d \in Core |-> executed_ticks[d] + slice_length[d] - downcount'[d]]
        BY <1>2, <3>1 DEF times
      <4>2. t = [d \in Core |-> executed_ticks[d] + slice_length[d] - downcount[d]]
        BY <3>1 DEF times
      <4>3. executed_ticks[c] + slice_length[c] - downcount'[c] = x
        BY <1>3, <1>4, <3>1, <3>2
      <4>4. \A d \in Core : u[d] = IF d = c THEN x ELSE t[d]
        BY <1>4, <4>1, <4>2, <4>3
      <4> QED BY <3>2, <4>1, <4>4
    <3>5. Ranked(t) /\ Reaching(t, c, r)
      BY <1>0, <1>1, <2>2, <3>1 DEF Ranks, Syncing
    <3>6. Ranked(u) /\ Reaching(u, c, r)
      BY <3>2, <3>3, <3>4, <3>5, RankedRun
    <3> QED BY <1>0, <1>1, <1>2, <2>2, <3>1, <3>6 DEF Ranks, Syncing
  <2> QED BY <1>2, <2>1, <2>2 DEF Running
<1> QED BY <1>6, <1>7, <1>8, <1>9, <1>10 DEF Inv

LEMMA ReachingLess ==
    ASSUME NEW t \in [Core -> Int], NEW k, NEW r \in Int, NEW s \in Int, s <= r, Reaching(t, k, r)
    PROVE  Reaching(t, k, s)
<1> SUFFICES ASSUME NEW S \in SUBSET (Core \ {k}), S # {}
             PROVE  \E c \in S : Within(t, c, Allowed(S)) /\ s - t[c] <= Allowed(S)
  BY DEF Reaching
<1>1. PICK c \in S : Within(t, c, Allowed(S)) /\ r - t[c] <= Allowed(S)
  BY DEF Reaching
<1>2. t[c] \in Int /\ Allowed(S) \in Nat
  BY AllowedIs
<1>3. s - t[c] <= Allowed(S)
  BY <1>1, <1>2
<1> QED BY <1>1, <1>3

\* A core that schedules an event into its slice shortens the slice.
LEMMA SchedulesInv ==
    ASSUME Inv, NEW id \in Ids, NEW cycles \in Delays, Schedules(id, cycles)
    PROVE  Inv' /\ times' = times
<1>0. Basics /\ Clocks /\ Orderly /\ Timely /\ Course /\ Ranks
  BY DEF Inv
<1>1. PICK c \in Core : c = cur
  BY <1>0 DEF Basics
<1>2. Running /\ ScheduleEvent(id, cycles) /\ UNCHANGED <<ts_queue, is_timer_sane, executed_ticks, host, loopVars>>
  BY DEF Schedules
<1>3. ~Firing /\ \A d \in Core : ~is_timer_sane[d]
  BY <1>2, RunningIs
<1>4. PICK e : e = [id |-> id, time |-> GetTicks(cur) + cycles, fifo_order |-> event_fifo_id[cur],
                    origin |-> "core"]
  OBVIOUS
<1>5. /\ e \in Event /\ e.time = times[c] + cycles /\ e.time >= 0 /\ e.origin = "core"
      /\ e.fifo_order = event_fifo_id[c] /\ cycles \in Nat
  BY <1>1, <1>4, NewEvent
<1>6. /\ event_queue' = [event_queue EXCEPT ![c] = event_queue[c] \cup {e}]
      /\ event_fifo_id' = [event_fifo_id EXCEPT ![c] = event_fifo_id[c] + 1]
      /\ downcount' = [downcount EXCEPT ![c] = Min2(downcount[c], cycles)]
      /\ slice_length' = [slice_length EXCEPT ![c] = slice_length[c] - (downcount[c] - downcount'[c])]
      /\ ts_queue' = ts_queue /\ is_timer_sane' = is_timer_sane /\ executed_ticks' = executed_ticks
      /\ host' = host /\ pc' = pc /\ cur' = cur /\ next' = next /\ max_slice' = max_slice
  <2>1. Max2(0, cycles) = cycles
    BY <1>5 DEF Max2
  <2> QED BY <1>1, <1>2, <1>3, <1>4, <2>1 DEF ScheduleEvent, ForceExceptionCheck, loopVars
<1>7. /\ downcount[c] \in Int /\ slice_length[c] \in Nat /\ executed_ticks[c] \in Nat
      /\ downcount[c] <= slice_length[c] /\ 0 <= downcount[c] + Overshoot
      /\ times \in [Core -> Int] /\ times[c] = executed_ticks[c] + slice_length[c] - downcount[c]
  BY <1>0, TimesAre DEF Basics, Clocks
<1>8. PICK m, n : m = Min2(downcount[c], cycles) /\ n = slice_length[c] - (downcount[c] - m)
  OBVIOUS
<1>9. /\ m \in Int /\ n \in Nat /\ m <= n /\ 0 <= m + Overshoot /\ n <= slice_length[c]
      /\ n - m = slice_length[c] - downcount[c] /\ executed_ticks[c] + n <= times[c] + cycles
      /\ executed_ticks[c] + n - m = executed_ticks[c] + slice_length[c] - downcount[c]
  BY <1>5, <1>7, <1>8, DriftIs DEF Min2
<1>10. /\ slice_length' \in [Core -> Nat] /\ downcount' \in [Core -> Int]
       /\ slice_length'[c] = n /\ downcount'[c] = m
       /\ \A d \in Core : d # c => slice_length'[d] = slice_length[d] /\ downcount'[d] = downcount[d]
  <2>1. /\ downcount' \in [Core -> Int] /\ downcount'[c] = m
        /\ \A d \in Core : d # c => downcount'[d] = downcount[d]
    BY <1>0, <1>6, <1>8, <1>9 DEF Basics
  <2>2. slice_length' = [slice_length EXCEPT ![c] = n]
    BY <1>6, <1>8, <2>1
  <2> QED BY <1>0, <1>9, <2>1, <2>2 DEF Basics
<1>11. times' = times
  <2>1. ASSUME NEW d \in Core
        PROVE  executed_ticks[d] + slice_length'[d] - downcount'[d]
               = executed_ticks[d] + slice_length[d] - downcount[d]
    <3>1. CASE d = c
      BY <1>9, <1>10, <3>1
    <3>2. CASE d # c
      BY <1>10, <3>2
    <3> QED BY <3>1, <3>2
  <2> QED BY <1>6, <2>1 DEF times
<1>12. /\ event_queue' \in [Core -> SUBSET Event] /\ event_fifo_id' \in [Core -> Nat]
       /\ event_queue'[c] = event_queue[c] \cup {e} /\ event_fifo_id'[c] = event_fifo_id[c] + 1
       /\ \A d \in Core : d # c => event_queue'[d] = event_queue[d] /\ event_fifo_id'[d] = event_fifo_id[d]
  BY <1>0, <1>5, <1>6 DEF Basics
<1>13. Basics'
  BY <1>0, <1>6, <1>10, <1>12 DEF Basics
<1>14. Clocks'
  <2>1. \A d \in Core : downcount'[d] <= slice_length'[d] /\ 0 <= downcount'[d] + Overshoot
    BY <1>0, <1>9, <1>10 DEF Clocks
  <2>2. \A d \in Core : d > cur => d # c
    BY <1>1 DEF Core
  <2>3. ~Passing
    BY <1>2 DEF Running, Passing
  <2> QED BY <1>0, <1>3, <1>6, <1>10, <2>1, <2>2, <2>3 DEF Clocks, Firing, Passing, Syncing, Idle
<1>15. Orderly'
  <2>1. PICK q, k : q = event_queue[c] /\ k = event_fifo_id[c]
    OBVIOUS
  <2>2. q \in SUBSET Event /\ k \in Nat /\ Heap(q, k)
    BY <1>0, <2>1 DEF Basics, Orderly
  <2>3. Heap(q \cup {e}, k + 1)
    BY <1>5, <2>1, <2>2, HeapLarger
  <2>4. Heap(event_queue'[c], event_fifo_id'[c])
    BY <1>12, <2>1, <2>3
  <2>5. \A d \in Core : Heap(event_queue'[d], event_fifo_id'[d])
    BY <1>0, <1>12, <2>4 DEF Orderly
  <2> QED BY <1>0, <1>6, <2>5 DEF Orderly
<1>16. Timely'
  <2>1. \A f \in event_queue[c] : executed_ticks[c] + n <= f.time
    <3> SUFFICES ASSUME NEW f \in event_queue[c] PROVE executed_ticks[c] + n <= f.time
      OBVIOUS
    <3>1. executed_ticks[c] + slice_length[c] <= f.time /\ f.time \in Int
      BY <1>0, <1>3 DEF Timely, Punctual, Basics, Event
    <3> QED BY <1>7, <1>9, <3>1
  <2>2. \A f \in event_queue'[c] : Punctual(executed_ticks[c] + slice_length'[c], f)
    <3>1. executed_ticks[c] + n <= e.time
      BY <1>5, <1>9
    <3>2. \A f \in event_queue[c] \cup {e} : executed_ticks[c] + n <= f.time
      BY <2>1, <3>1
    <3> QED BY <1>10, <1>12, <3>2 DEF Punctual
  <2>3. \A d \in Core : d # c => \A f \in event_queue'[d] : Punctual(executed_ticks[d] + slice_length'[d], f)
    BY <1>0, <1>3, <1>10, <1>12 DEF Timely
  <2>4. \A d \in Core : \A f \in event_queue'[d] : Punctual(executed_ticks[d] + slice_length'[d], f)
    BY <2>2, <2>3
  <2> QED BY <1>0, <1>3, <1>6, <2>4 DEF Timely, Firing
<1>17. Course'
  <2>1. pc \notin {"sync", "syncFire", "advance", "advanceFire"}
    BY <1>2 DEF Running
  <2>2. \A d \in Core : slice_length'[d] <= slice_length[d] /\ slice_length'[d] \in Nat /\ slice_length[d] \in Nat
    <3> SUFFICES ASSUME NEW d \in Core
                 PROVE  slice_length'[d] <= slice_length[d] /\ slice_length'[d] \in Nat /\ slice_length[d] \in Nat
      OBVIOUS
    <3>1. slice_length[d] \in Nat /\ slice_length'[d] \in Nat
      BY <1>0, <1>10 DEF Basics
    <3>2. CASE d = c
      BY <1>9, <1>10, <3>1, <3>2
    <3>3. CASE d # c
      BY <1>10, <3>1, <3>3
    <3> QED BY <3>2, <3>3
  <2>3. \A d \in Core : slice_length'[d] <= Drift
    <3> SUFFICES ASSUME NEW d \in Core PROVE slice_length'[d] <= Drift
      OBVIOUS
    <3>1. slice_length[d] <= Drift
      BY <1>0 DEF Course
    <3> QED BY <2>2, <3>1, DriftIs
  <2>4. ASSUME pc = "run"
        PROVE  /\ \A d \in Core : d <= cur => slice_length'[d] <= MAX_SLICE_LENGTH + Over(d)
               /\ \A a, b \in Core : a < b /\ b <= cur =>
                    slice_length'[b] <= slice_length'[a] - downcount'[a] + Over(b - a - 1)
    <3>1. ASSUME NEW d \in Core, d <= cur PROVE slice_length'[d] <= MAX_SLICE_LENGTH + Over(d)
      <4>1. slice_length[d] <= MAX_SLICE_LENGTH + Over(d)
        BY <1>0, <2>4, <3>1 DEF Course
      <4>2. MAX_SLICE_LENGTH + Over(d) \in Int
        BY DriftIs DEF Over, Core
      <4> QED BY <2>2, <4>1, <4>2
    <3>2. ASSUME NEW a \in Core, NEW b \in Core, a < b, b <= cur
          PROVE  slice_length'[b] <= slice_length'[a] - downcount'[a] + Over(b - a - 1)
      <4>1. slice_length[b] <= slice_length[a] - downcount[a] + Over(b - a - 1)
        BY <1>0, <2>4, <3>2 DEF Course, Ran
      <4>2. slice_length'[a] - downcount'[a] = slice_length[a] - downcount[a]
        BY <1>9, <1>10
      <4>3. slice_length[a] - downcount[a] + Over(b - a - 1) \in Int
        <5>1. slice_length[a] - downcount[a] \in Int
          <6>1. slice_length[a] \in Nat /\ downcount[a] \in Int
            BY <1>0 DEF Basics
          <6> QED BY <6>1
        <5>2. Over(b - a - 1) \in Int
          BY DriftIs DEF Over, Core
        <5> QED BY <5>1, <5>2
      <4>4. PICK y : y = slice_length[a] - downcount[a] + Over(b - a - 1)
        OBVIOUS
      <4>5. slice_length'[b] <= y
        BY <2>2, <4>1, <4>3, <4>4
      <4> QED BY <4>2, <4>4, <4>5
    <3> QED BY <3>1, <3>2
  <2> QED BY <1>0, <1>6, <2>1, <2>3, <2>4 DEF Course, Passing, Ran
<1>18. Ranks'
  <2>1. CASE pc = "run"
    BY <1>0, <1>6, <2>1 DEF Ranks, Syncing
  <2>2. CASE pc = "delayed"
    <3>1. PICK t, r, s : /\ t = times /\ r = executed_ticks[c] + slice_length[c] + Overshoot
                         /\ s = executed_ticks[c] + n + Overshoot
      OBVIOUS
    <3>2. t \in [Core -> Int] /\ r \in Int /\ s \in Int /\ s <= r
      BY <1>7, <1>9, <3>1, DriftIs
    <3>3. Ranked(t) /\ Reaching(t, c, r)
      BY <1>0, <1>1, <2>2, <3>1 DEF Ranks, Syncing
    <3>4. Reaching(t, c, s)
      BY <3>2, <3>3, ReachingLess
    <3> QED BY <1>0, <1>1, <1>6, <1>10, <1>11, <2>2, <3>1, <3>3, <3>4 DEF Ranks, Syncing
  <2> QED BY <1>2, <2>1, <2>2 DEF Running
<1> QED BY <1>11, <1>13, <1>14, <1>15, <1>16, <1>17, <1>18 DEF Inv

\* A pass goes on with the next core: it may run for as long as the one before it has.
LEMMA NextCoreInv ==
    ASSUME Inv, RunEnds, pc = "run", cur + 1 \in Core
    PROVE  Inv' /\ times' = times
<1>0. Basics /\ Clocks /\ Orderly /\ Timely /\ Course /\ Ranks
  BY DEF Inv
<1>1. PICK c \in Core : c = cur
  BY <1>0 DEF Basics
<1>2. PICK k \in Core : k = c + 1
  BY <1>1
<1>3. PICK max, n : max = max_slice' /\ n = NextSlice(k, max)
  OBVIOUS
<1>4. /\ pc = "run" /\ pc' = "run" /\ cur' = k /\ next' = next /\ max = slice_length[c] - downcount[c]
      /\ slice_length' = [slice_length EXCEPT ![k] = n] /\ downcount' = [downcount EXCEPT ![k] = n]
      /\ event_queue' = event_queue /\ ts_queue' = ts_queue /\ event_fifo_id' = event_fifo_id
      /\ is_timer_sane' = is_timer_sane /\ executed_ticks' = executed_ticks /\ host' = host
  BY <1>1, <1>2, <1>3 DEF RunEnds, Start, queueVars
<1>5. k \in Nat /\ c \in Nat /\ k = c + 1 /\ k <= NumCores /\ c < k /\ k # c
  BY <1>2, DriftIs DEF Core
<1>6. /\ slice_length[c] \in Nat /\ downcount[c] \in Int /\ downcount[c] <= slice_length[c]
      /\ 0 <= downcount[c] + Overshoot
  BY <1>0 DEF Basics, Clocks
<1>7. max \in Nat /\ max <= slice_length[c] + Overshoot
  BY <1>4, <1>6, DriftIs
<1>8. slice_length[k] = 0 /\ downcount[k] = 0 /\ executed_ticks[k] \in Nat
  BY <1>0, <1>1, <1>4, <1>5 DEF Basics, Clocks, Idle
<1>9. \A d \in Core : \A e \in event_queue[d] : Punctual(executed_ticks[d] + slice_length[d], e)
  BY <1>0, <1>4 DEF Timely, Firing
<1>10. n \in Nat /\ n <= max /\ \A e \in event_queue[k] : executed_ticks[k] + n <= e.time
  <2>1. \A e \in event_queue[k] : executed_ticks[k] <= e.time
    <3>1. executed_ticks[k] + slice_length[k] = executed_ticks[k]
      BY <1>8
    <3> QED BY <1>9, <3>1 DEF Punctual
  <2> QED BY <1>3, <1>7, <2>1, NextSliceIs
<1>11. /\ slice_length' \in [Core -> Nat] /\ downcount' \in [Core -> Int]
       /\ slice_length'[k] = n /\ downcount'[k] = n
       /\ \A d \in Core : d # k => slice_length'[d] = slice_length[d] /\ downcount'[d] = downcount[d]
  <2>1. slice_length \in [Core -> Nat] /\ downcount \in [Core -> Int]
    BY <1>0 DEF Basics
  <2>2. n \in Nat
    BY <1>10
  <2>3. n \in Int
    BY <2>2
  <2> QED BY <1>4, <2>1, <2>2, <2>3
<1>12. times' = times
  <2>1. ASSUME NEW d \in Core
        PROVE  executed_ticks[d] + slice_length'[d] - downcount'[d]
               = executed_ticks[d] + slice_length[d] - downcount[d]
    <3>1. CASE d = k
      BY <1>8, <1>10, <1>11, <3>1
    <3>2. CASE d # k
      BY <1>11, <3>2
    <3> QED BY <3>1, <3>2
  <2> QED BY <1>4, <2>1 DEF times
<1>13. Basics'
  BY <1>0, <1>3, <1>4, <1>7, <1>11 DEF Basics
<1>14. Clocks'
  <2>1. \A d \in Core : downcount'[d] <= slice_length'[d] /\ 0 <= downcount'[d] + Overshoot
    <3> SUFFICES ASSUME NEW d \in Core
                 PROVE  downcount'[d] <= slice_length'[d] /\ 0 <= downcount'[d] + Overshoot
      OBVIOUS
    <3>1. CASE d = k
      BY <1>10, <1>11, <3>1, DriftIs
    <3>2. CASE d # k
      BY <1>0, <1>11, <3>2 DEF Clocks
    <3> QED BY <3>1, <3>2
  <2>2. \A d \in Core : ~is_timer_sane'[d]
    BY <1>0, <1>4 DEF Clocks
  <2>3. \A d \in Core : d > k => d > c /\ d # k
    BY <1>5 DEF Core
  <2>4. \A d \in Core : d > k => slice_length'[d] = 0 /\ downcount'[d] = 0
    BY <1>0, <1>1, <1>4, <1>11, <2>3 DEF Clocks, Idle
  <2> QED BY <1>4, <2>1, <2>2, <2>4 DEF Clocks, Firing, Passing, Syncing, Idle
<1>15. Orderly'
  BY <1>0, <1>4 DEF Orderly
<1>16. Timely'
  <2>1. \A e \in event_queue[k] : Punctual(executed_ticks[k] + slice_length'[k], e)
    BY <1>10, <1>11 DEF Punctual
  <2>2. \A d \in Core : \A e \in event_queue[d] : Punctual(executed_ticks[d] + slice_length'[d], e)
    BY <1>9, <1>11, <2>1
  <2> QED BY <1>0, <1>4, <2>2 DEF Timely, Firing
<1>17. Course'
  <2>1. /\ \A a, b \in Core : executed_ticks[a] - executed_ticks[b] <= MinDelay
        /\ \A d \in Core : d <= c => slice_length[d] <= MAX_SLICE_LENGTH + Over(d)
        /\ \A a, b \in Core : a < b /\ b <= c => slice_length[b] <= slice_length[a] - downcount[a] + Over(b - a - 1)
        /\ \A d \in Core : slice_length[d] <= Drift
    BY <1>0, <1>1, <1>4 DEF Course, Ran
  <2>2. /\ Over(c) \in Int /\ Over(k) = Over(c) + Overshoot /\ Over(k) <= Over(NumCores)
        /\ Over(k) \in Int
    <3>1. k \in Int /\ c \in Int /\ 1 \in Int /\ NumCores \in Int /\ k <= NumCores /\ k = c + 1
      BY <1>5, DriftIs
    <3>2. Over(c) \in Int /\ Over(c + 1) = Over(c) + Over(1) /\ Over(k) <= Over(NumCores) /\ Over(k) \in Int
      BY <3>1, OverArithmetic
    <3> QED BY <3>1, <3>2, OverArithmetic
  <2>3. max <= MAX_SLICE_LENGTH + Over(k) /\ n <= MAX_SLICE_LENGTH + Over(k)
    <3>1. slice_length[c] <= MAX_SLICE_LENGTH + Over(c)
      BY <1>5, <2>1
    <3> QED BY <1>6, <1>7, <1>10, <2>2, <3>1, DriftIs
  <2>4. max <= Drift /\ n <= Drift
    BY <1>7, <1>10, <2>2, <2>3, DriftIs
  <2>5. \A d \in Core : d <= k => d = k \/ d <= c
    BY <1>5 DEF Core
  <2>6. \A d \in Core : d <= c => d # k
    BY <1>5 DEF Core
  <2>7. ASSUME NEW d \in Core, d <= k PROVE slice_length'[d] <= MAX_SLICE_LENGTH + Over(d)
    <3>1. CASE d = k
      BY <1>11, <2>3, <3>1
    <3>2. CASE d <= c
      BY <1>11, <2>1, <2>6, <3>2
    <3> QED BY <2>5, <2>7, <3>1, <3>2
  <2>8. ASSUME NEW a \in Core, a < k
        PROVE  n <= slice_length[a] - downcount[a] + Over(k - a - 1)
    <3>1. a \in Int /\ a <= c /\ k - a - 1 = c - a
      BY <1>5, <2>8 DEF Core
    <3>2. CASE a = c
      <4>1. k - a - 1 = 0
        BY <1>5, <3>1, <3>2
      <4>2. Over(k - a - 1) = 0
        BY <4>1, OverArithmetic
      <4> QED BY <1>4, <1>6, <1>7, <1>10, <3>2, <4>2
    <3>3. CASE a # c
      <4>1. slice_length[c] <= slice_length[a] - downcount[a] + Over(c - a - 1)
        <5>1. a < c /\ c <= c
          BY <1>5, <3>1, <3>3
        <5> QED BY <2>1, <5>1
      <4>2. PICK j : j = c - a
        OBVIOUS
      <4>3. Over(j - 1) = Over(j) - Overshoot /\ Over(j) \in Int
        <5>1. j \in Int /\ 1 \in Int
          BY <1>5, <3>1, <4>2
        <5>2. Over(j - 1) = Over(j) - Over(1) /\ Over(j) \in Int
          BY <5>1, OverArithmetic
        <5> QED BY <5>2, OverArithmetic
      <4>4. slice_length[a] \in Nat /\ downcount[a] \in Int
        BY <1>0 DEF Basics
      <4>5. slice_length[c] <= slice_length[a] - downcount[a] + (Over(j) - Overshoot)
        BY <4>1, <4>2, <4>3
      <4>6. n <= slice_length[a] - downcount[a] + Over(j)
        BY <1>6, <1>7, <1>10, <4>3, <4>4, <4>5, DriftIs
      <4> QED BY <3>1, <4>2, <4>6
    <3> QED BY <3>2, <3>3
  <2>9. ASSUME NEW a \in Core, NEW b \in Core, a < b, b <= k
        PROVE  slice_length'[b] <= slice_length'[a] - downcount'[a] + Over(b - a - 1)
    <3>1. a # k /\ a < k
      BY <1>5, <2>9 DEF Core
    <3>2. slice_length'[a] = slice_length[a] /\ downcount'[a] = downcount[a]
      BY <1>11, <3>1
    <3>3. CASE b = k
      BY <1>11, <2>8, <3>1, <3>2, <3>3
    <3>4. CASE b <= c
      <4>1. slice_length'[b] = slice_length[b]
        BY <1>11, <2>6, <3>4
      <4> QED BY <2>1, <2>9, <3>2, <3>4, <4>1
    <3> QED BY <2>5, <2>9, <3>3, <3>4
  <2>10. \A d \in Core : slice_length'[d] <= Drift
    BY <1>11, <2>1, <2>4
  <2> QED BY <1>3, <1>4, <2>1, <2>4, <2>7, <2>9, <2>10 DEF Course, Passing, Ran
<1>18. Ranks'
  BY <1>0, <1>4 DEF Ranks, Syncing
<1> QED BY <1>12, <1>13, <1>14, <1>15, <1>16, <1>17, <1>18 DEF Inv

\* A pass is over, or the core that was behind has run.
LEMMA LoopInv ==
    ASSUME Inv, RunEnds, ~(pc = "run" /\ cur + 1 \in Core)
    PROVE  Inv' /\ times' = times
<1>0. Basics /\ Clocks /\ Orderly /\ Timely /\ Course /\ Ranks
  BY DEF Inv
<1>1. PICK c \in Core : c = cur
  BY <1>0 DEF Basics
<1>2. /\ Running /\ pc' = "sync" /\ max_slice' = MAX_SLICE_LENGTH /\ cur' = cur /\ next' = next
      /\ slice_length' = slice_length /\ downcount' = downcount
      /\ event_queue' = event_queue /\ ts_queue' = ts_queue /\ event_fifo_id' = event_fifo_id
      /\ is_timer_sane' = is_timer_sane /\ executed_ticks' = executed_ticks /\ host' = host
  BY DEF RunEnds, queueVars
<1>3. times' = times
  BY <1>2 DEF times
<1>4. ~Firing /\ \A d \in Core : ~is_timer_sane[d]
  BY <1>2, RunningIs
<1>5. Basics'
  BY <1>0, <1>2, DriftIs DEF Basics, Pc
<1>6. Clocks'
  BY <1>0, <1>2, <1>4 DEF Clocks, Firing, Passing, Syncing
<1>7. Orderly' /\ Timely'
  BY <1>0, <1>2, <1>4 DEF Orderly, Timely, Firing
<1>8. Course'
  <2>1. MAX_SLICE_LENGTH \in 1 .. MAX_SLICE_LENGTH /\ MAX_SLICE_LENGTH <= Drift
    BY DriftIs
  <2> QED BY <1>0, <1>2, <2>1 DEF Course, Passing
<1>9. next = 0
  BY <1>0, <1>2 DEF Ranks, Running
<1>10. Ranked(times)
  <2>1. CASE pc = "delayed"
    BY <1>0, <2>1 DEF Ranks, Syncing
  <2>2. CASE pc = "run"
    <3>1. \A d \in Core : d <= c /\ d \in Nat
      BY <1>1, <2>2, DriftIs DEF Core
    <3>2. PICK x, r : x = executed_ticks /\ r = [d \in Core |-> slice_length[d] - downcount[d]]
      OBVIOUS
    <3>3. \A d \in Core : /\ slice_length[d] \in Nat /\ downcount[d] \in Int /\ executed_ticks[d] \in Nat
                          /\ downcount[d] <= slice_length[d] /\ 0 <= downcount[d] + Overshoot
      BY <1>0 DEF Basics, Clocks
    <3>4. /\ x \in [Core -> Int] /\ r \in [Core -> Nat]
          /\ \A d \in Core : r[d] = slice_length[d] - downcount[d] /\ r[d] <= slice_length[d] + Overshoot
      <4>1. x \in [Core -> Int]
        BY <1>0, <3>2 DEF Basics
      <4>2. \A d \in Core : slice_length[d] - downcount[d] \in Nat
                            /\ slice_length[d] - downcount[d] <= slice_length[d] + Overshoot
        BY <3>3, DriftIs
      <4> QED BY <3>2, <4>1, <4>2
    <3>5. \A a, b \in Core : x[a] - x[b] <= MinDelay
      BY <1>0, <2>2, <3>2 DEF Course
    <3>6. ASSUME NEW d \in Core PROVE r[d] <= MAX_SLICE_LENGTH + Over(d + 1)
      <4>1. slice_length[d] <= MAX_SLICE_LENGTH + Over(d)
        BY <1>0, <1>1, <2>2, <3>1 DEF Course
      <4>2. Over(d) \in Int /\ Over(d + 1) = Over(d) + Overshoot
        <5>1. d \in Int /\ 1 \in Int
          BY <3>1
        <5>2. Over(d) \in Int /\ Over(d + 1) = Over(d) + Over(1)
          BY <5>1, OverArithmetic
        <5> QED BY <5>2, OverArithmetic
      <4>3. slice_length[d] \in Nat /\ r[d] \in Nat /\ r[d] <= slice_length[d] + Overshoot
        BY <3>3, <3>4
      <4> QED BY <4>1, <4>2, <4>3, DriftIs
    <3>7. ASSUME NEW a \in Core, NEW b \in Core, a < b PROVE r[b] <= r[a] + Over(b - a)
      <4>1. slice_length[b] <= slice_length[a] - downcount[a] + Over(b - a - 1)
        BY <1>0, <1>1, <2>2, <3>1, <3>7 DEF Course, Ran
      <4>2. PICK j : j = b - a
        OBVIOUS
      <4>3. Over(j - 1) = Over(j) - Overshoot /\ Over(j) \in Int
        <5>1. j \in Int /\ 1 \in Int
          BY <3>1, <4>2
        <5>2. Over(j - 1) = Over(j) - Over(1) /\ Over(j) \in Int
          BY <5>1, OverArithmetic
        <5> QED BY <5>2, OverArithmetic
      <4>4. /\ slice_length[b] \in Nat /\ r[b] \in Nat /\ r[b] <= slice_length[b] + Overshoot
            /\ r[a] \in Nat /\ r[a] = slice_length[a] - downcount[a]
        BY <3>3, <3>4
      <4>5. slice_length[b] <= r[a] + (Over(j) - Overshoot)
        BY <4>1, <4>2, <4>3, <4>4
      <4>6. r[b] <= r[a] + Over(j)
        BY <4>3, <4>4, <4>5, DriftIs
      <4> QED BY <4>2, <4>6
    <3>8. Ranked([d \in Core |-> x[d] + r[d]])
      BY <3>4, <3>5, <3>6, <3>7, RankedPass
    <3>9. times = [d \in Core |-> x[d] + r[d]]
      <4>1. \A d \in Core : executed_ticks[d] + slice_length[d] - downcount[d] = x[d] + r[d]
        <5> SUFFICES ASSUME NEW d \in Core
                     PROVE  executed_ticks[d] + slice_length[d] - downcount[d] = x[d] + r[d]
          OBVIOUS
        <5>1. x[d] = executed_ticks[d] /\ r[d] = slice_length[d] - downcount[d]
          BY <3>2, <3>4
        <5> QED BY <3>3, <5>1
      <4> QED BY <4>1 DEF times
    <3> QED BY <3>8, <3>9
  <2> QED BY <1>2, <2>1, <2>2 DEF Running
<1>11. Ranks'
  <2>1. \A d \in Core : ~(d < 0)
    BY DriftIs DEF Core
  <2>2. Ranked(times')
    BY <1>3, <1>10
  <2> QED BY <1>2, <1>9, <2>1, <2>2 DEF Ranks, Syncing
<1> QED BY <1>3, <1>5, <1>6, <1>7, <1>8, <1>11 DEF Inv

-------------------------------------------------------------------------------
(* Every step                                                              *)

LEMMA StepInv ==
    ASSUME Inv, [Next]_vars
    PROVE  /\ Inv'
           /\ \/ times' = times
              \/ \E ticks \in Nat : AddTicks(ticks)
<1>1. CASE \E c \in Core : SyncBegins(c)
  BY <1>1, SyncBeginsInv
<1>2. CASE SyncEnds
  BY <1>2, SyncEndsInv
<1>3. CASE Synced
  BY <1>3, SyncedInv
<1>4. CASE AdvancePass
  BY <1>4, AdvancePassInv
<1>5. CASE AdvanceEnds
  BY <1>5, AdvanceEndsInv
<1>6. CASE Fire
  <2>1. UNCHANGED <<tickVars, loopVars>>
    BY <1>6 DEF Fire
  <2> QED BY <1>6, <2>1, FireInv, SameTicks
<1>7. CASE \E ticks \in 1 .. Drift + Overshoot : AddTicks(ticks)
  <2>1. PICK ticks \in 1 .. Drift + Overshoot : AddTicks(ticks)
    BY <1>7
  <2>2. ticks \in Nat
    BY DriftIs
  <2> QED BY <2>1, <2>2, AddTicksInv
<1>8. CASE \E id \in Ids, cycles \in Delays : Schedules(id, cycles)
  BY <1>8, SchedulesInv
<1>9. CASE \E id \in Ids : Unschedules(id)
  <2>1. UNCHANGED <<tickVars, loopVars>>
    BY <1>9 DEF Unschedules
  <2> QED BY <1>9, <2>1, UnschedulesInv, SameTicks
<1>10. CASE RunEnds
  BY <1>10, NextCoreInv, LoopInv
<1>11. CASE \E c \in Core, id \in Ids, cycles \in Delays :
              \E ticks \in SeenTicks(c) : HostReads(c, id, cycles, ticks)
  <2>1. UNCHANGED <<tickVars, loopVars>>
    BY <1>11 DEF HostReads
  <2> QED BY <1>11, <2>1, HostReadsInv, SameTicks
<1>12. CASE HostPushes
  <2>1. UNCHANGED <<tickVars, loopVars>>
    BY <1>12 DEF HostPushes
  <2> QED BY <1>12, <2>1, HostPushesInv, SameTicks
<1>13. CASE UNCHANGED vars
  <2>1. UNCHANGED <<tickVars, loopVars>>
    BY <1>13 DEF vars
  <2>2. /\ event_queue' = event_queue /\ ts_queue' = ts_queue /\ event_fifo_id' = event_fifo_id
        /\ is_timer_sane' = is_timer_sane /\ slice_length' = slice_length /\ downcount' = downcount
        /\ executed_ticks' = executed_ticks /\ host' = host
        /\ pc' = pc /\ cur' = cur /\ next' = next /\ max_slice' = max_slice
    BY <1>13 DEF vars, queueVars, tickVars, loopVars
  <2>3. Basics' /\ Orderly' /\ Timely'
    BY <2>2 DEF Inv, Basics, Orderly, Timely, Firing
  <2> QED BY <2>1, <2>3, SameTicks DEF Inv
<1> QED BY <1>1, <1>2, <1>3, <1>4, <1>5, <1>6, <1>7, <1>8, <1>9, <1>10, <1>11, <1>12, <1>13
        DEF Next

LEMMA AlwaysInv == Spec => []Inv
<1>1. Inv /\ [Next]_vars => Inv'
  BY StepInv
<1> QED BY <1>1, InitInv, PTL DEF Spec

-------------------------------------------------------------------------------
(* What it implies                                                         *)

LEMMA InvTyped ==
    ASSUME Inv
    PROVE  TypeOK
<1>0. Basics /\ Clocks /\ Course
  BY DEF Inv
<1>1. slice_length \in [Core -> 0 .. Drift]
  <2>1. \A c \in Core : slice_length[c] \in 0 .. Drift
    <3> SUFFICES ASSUME NEW c \in Core PROVE slice_length[c] \in 0 .. Drift
      OBVIOUS
    <3>1. slice_length[c] \in Nat /\ slice_length[c] <= Drift
      BY <1>0 DEF Basics, Course
    <3> QED BY <3>1, DriftIs
  <2> QED BY <1>0, <2>1 DEF Basics
<1>2. downcount \in [Core -> -Overshoot .. Drift]
  <2>1. \A c \in Core : downcount[c] \in -Overshoot .. Drift
    <3> SUFFICES ASSUME NEW c \in Core PROVE downcount[c] \in -Overshoot .. Drift
      OBVIOUS
    <3>1. /\ slice_length[c] \in Nat /\ slice_length[c] <= Drift /\ downcount[c] \in Int
          /\ downcount[c] <= slice_length[c] /\ 0 <= downcount[c] + Overshoot
      BY <1>0 DEF Basics, Course, Clocks
    <3> QED BY <3>1, DriftIs
  <2> QED BY <1>0, <2>1 DEF Basics
<1>3. max_slice \in 0 .. Drift /\ (pc = "advance" => max_slice > 0)
  <2>1. max_slice \in Nat /\ max_slice <= Drift /\ (pc = "advance" => max_slice \in 1 .. MAX_SLICE_LENGTH)
    BY <1>0 DEF Basics, Course
  <2> QED BY <2>1, DriftIs
<1> QED BY <1>0, <1>1, <1>2, <1>3 DEF Basics, TypeOK

LEMMA InvOnTime ==
    ASSUME Inv
    PROVE  OnTime
<1>0. Basics /\ Clocks /\ Timely
  BY DEF Inv
<1> SUFFICES ASSUME NEW c \in Core, NEW e \in event_queue[c]
             PROVE  LateAtMost(GetTicks(c), e)
  BY DEF OnTime, LateAtMost
<1>1. /\ GetTicks(c) = executed_ticks[c] + slice_length[c] - downcount[c]
      /\ executed_ticks[c] \in Nat /\ slice_length[c] \in Nat /\ downcount[c] \in Int
      /\ 0 <= downcount[c] + Overshoot /\ e.time \in Int
  <2>1. GetTicks(c) = executed_ticks[c] + slice_length[c] - downcount[c]
    BY <1>0, TimesAre
  <2>2. e \in Event
    BY <1>0 DEF Basics
  <2>3. e.time \in Int
    BY <2>2 DEF Event
  <2>4. /\ executed_ticks[c] \in Nat /\ slice_length[c] \in Nat /\ downcount[c] \in Int
        /\ 0 <= downcount[c] + Overshoot
    BY <1>0 DEF Basics, Clocks
  <2> QED BY <2>1, <2>3, <2>4
<1>2. CASE Firing /\ c = cur
  <2>1. slice_length[c] = 0 /\ downcount[c] = 0 /\ LateAtMost(executed_ticks[c], e)
    BY <1>0, <1>2 DEF Clocks, Idle, Timely
  <2>2. GetTicks(c) = executed_ticks[c]
    BY <1>1, <2>1
  <2> QED BY <2>1, <2>2
<1>3. CASE ~(Firing /\ c = cur)
  <2>1. executed_ticks[c] + slice_length[c] <= e.time
    BY <1>0, <1>3 DEF Timely, Punctual
  <2>2. GetTicks(c) - e.time <= Overshoot /\ GetTicks(c) - e.time \in Int
    BY <1>1, <2>1, DriftIs
  <2>3. Overshoot <= MinDelay + (NumCores + 1) * Overshoot /\ MinDelay + (NumCores + 1) * Overshoot \in Int
    <3>1. PICK o : o = Over(NumCores)
      OBVIOUS
    <3>2. (NumCores + 1) * Overshoot = o + Overshoot /\ o \in Nat
      BY <3>1, DriftIs DEF Over
    <3> QED BY <3>2, DriftIs
  <2> QED BY <2>2, <2>3, DriftIs DEF LateAtMost
<1> QED BY <1>2, <1>3

LEMMA InvDriftBounded ==
    ASSUME Inv
    PROVE  DriftBounded
<1>0. Basics /\ Clocks /\ Course /\ Ranks
  BY DEF Inv
<1> SUFFICES ASSUME NEW c \in Core, NEW d \in Core PROVE times[c] - times[d] <= Drift
  BY <1>0, TimesAre DEF DriftBounded
<1>1. times[c] \in Nat /\ times[d] \in Nat
  BY <1>0, TimesAre
<1>2. CASE Syncing
  <2>1. PICK t : t = times
    OBVIOUS
  <2>2. Ranked(t)
    BY <1>0, <1>2, <2>1 DEF Ranks
  <2> QED BY <2>1, <2>2, RankedDrift
<1>3. CASE Passing
  <2>1. times[c] - times[d] <= MinDelay
    BY <1>0, <1>3 DEF Course
  <2> QED BY <1>1, <2>1, DriftIs
<1>4. CASE pc = "run"
  <2>1. /\ times[c] = executed_ticks[c] + slice_length[c] - downcount[c]
        /\ times[d] = executed_ticks[d] + slice_length[d] - downcount[d]
        /\ executed_ticks[c] \in Nat /\ executed_ticks[d] \in Nat
        /\ slice_length[c] \in Nat /\ slice_length[d] \in Nat /\ downcount[c] \in Int /\ downcount[d] \in Int
        /\ 0 <= downcount[c] + Overshoot /\ downcount[d] <= slice_length[d]
        /\ executed_ticks[c] - executed_ticks[d] <= MinDelay
    BY <1>0, <1>4, TimesAre DEF Basics, Clocks, Course
  <2>2. c \in Int /\ cur \in Int /\ c + 1 <= NumCores
    BY <1>0, DriftIs DEF Basics, Core
  <2>3. slice_length[c] + Overshoot <= MAX_SLICE_LENGTH + Over(NumCores)
        \/ (slice_length[c] = 0 /\ downcount[c] = 0)
    <3>1. CASE c <= cur
      <4>1. slice_length[c] <= MAX_SLICE_LENGTH + Over(c)
        BY <1>0, <1>4, <3>1 DEF Course
      <4>2. PICK j : j = c + 1
        OBVIOUS
      <4>3. Over(c) \in Int /\ Over(j) = Over(c) + Overshoot /\ Over(j) <= Over(NumCores)
        <5>1. j \in Int /\ c \in Int /\ 1 \in Int /\ NumCores \in Int /\ j <= NumCores /\ j = c + 1
          BY <2>2, <4>2, DriftIs
        <5>2. Over(c) \in Int /\ Over(c + 1) = Over(c) + Over(1) /\ Over(j) <= Over(NumCores)
          BY <5>1, OverArithmetic
        <5> QED BY <5>1, <5>2, OverArithmetic
      <4> QED BY <2>1, <4>1, <4>3, DriftIs
    <3>2. CASE c > cur
      BY <1>0, <1>4, <3>2 DEF Clocks, Idle
    <3> QED BY <2>2, <3>1, <3>2
  <2> QED BY <2>1, <2>3, DriftIs
<1> QED BY <1>0, <1>2, <1>3, <1>4 DEF Basics, Pc, Syncing, Passing

\* The fields of the timers and of RunLoop stay in their ranges: no slice is negative or
\* longer than the drift RunLoop allows, no core is more than an overshoot past its slice,
\* and a pass begins with a slice that is not empty (RunLoop, Timer::Advance, SetNextSlice
\* and ForceExceptionCheck).
THEOREM TimingTyped == Spec => []TypeOK
<1>1. Inv => TypeOK
  BY InvTyped
<1> QED BY <1>1, AlwaysInv, PTL

\* No event of a core or of a callback waits in its heap for longer than an overshoot, and
\* none of another host thread that was not held up for longer than what the cores may be
\* apart beyond a slice: SetNextSlice and ForceExceptionCheck end every slice at the next
\* event, and ScheduleEvent's two slices make up for a torn read of the ticks.
THEOREM EventsOnTime == Spec => []OnTime
<1>1. Inv => OnTime
  BY InvOnTime
<1> QED BY <1>1, AlwaysInv, PTL

\* RunLoop keeps the cores together: no core is ever ahead of another by more than the
\* tolerated delay, a slice, and an overshoot for every core.
THEOREM CoresStayTogether == Spec => []DriftBounded
<1>1. Inv => DriftBounded
  BY InvDriftBounded
<1> QED BY <1>1, AlwaysInv, PTL

\* GetTicks of no core goes back, although Advance, SetNextSlice and ForceExceptionCheck
\* move the time between executed_ticks, slice_length and downcount.
THEOREM ClocksNeverGoBack == Spec => TicksMonotone
<1>0. Inv' => (\A c \in Core : GetTicks(c) = times[c])'
  <2>1. Inv => \A c \in Core : GetTicks(c) = times[c]
    BY TimesAre DEF Inv
  <2> QED BY <2>1, PTL
<1>1. ASSUME Inv, Inv', [Next]_vars
      PROVE  \A c \in Core : GetTicks(c)' >= GetTicks(c)
  <2> SUFFICES ASSUME NEW c \in Core PROVE GetTicks(c)' >= GetTicks(c)
    OBVIOUS
  <2>1. GetTicks(c) = times[c] /\ times[c] = executed_ticks[c] + slice_length[c] - downcount[c]
        /\ times[c] \in Nat
    BY <1>1, TimesAre DEF Inv
  <2>2. GetTicks(c)' = times'[c]
    BY <1>0, <1>1
  <2>3. CASE times' = times
    BY <2>1, <2>2, <2>3
  <2>4. CASE \E ticks \in Nat : AddTicks(ticks)
    <3>1. PICK ticks \in Nat : AddTicks(ticks)
      BY <2>4
    <3>2. times'[c] = executed_ticks[c] + slice_length[c] - downcount'[c]
      BY <3>1 DEF AddTicks, times
    <3>3. /\ executed_ticks[c] \in Nat /\ slice_length[c] \in Nat /\ downcount[c] \in Int
          /\ downcount \in [Core -> Int]
      BY <1>1 DEF Inv, Basics
    <3>4. downcount'[c] = downcount[c] \/ downcount'[c] = downcount[c] - ticks
      BY <3>1, <3>3 DEF AddTicks
    <3> QED BY <2>1, <2>2, <3>2, <3>3, <3>4
  <2> QED BY <1>1, <2>3, <2>4, StepInv
<1>2. Inv /\ Inv' /\ [Next]_vars => [\A c \in Core : GetTicks(c)' >= GetTicks(c)]_vars
  BY <1>1
<1> QED BY <1>2, AlwaysInv, PTL DEF Spec, TicksMonotone
===============================================================================
