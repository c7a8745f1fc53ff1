---------------------------- MODULE ArbiterProofs -----------------------------
(***************************************************************************)
(* The arbiter lists exactly the threads that wait for it, and a signal    *)
(* wakes them in order, for any threads, addresses, priorities and counts. *)
(***************************************************************************)
EXTENDS Arbiter, ListProofs

-------------------------------------------------------------------------------
(* One signal                                                              *)

ListTypeOK ==
    /\ waiting_threads \in Seq(Thread) /\ arrivals \in Seq(Thread)
    /\ wait_address \in [Thread -> Address]
    /\ current_priority \in [Thread -> Priority]

\* t is to be woken before u.
Better(t, u) ==
    \/ current_priority[t] < current_priority[u]
    \/ current_priority[t] = current_priority[u] /\ Precedes(waiting_threads, t, u)

\* What a signal to a has made of the list so far: only threads that wait for a
\* have left it, the best ones, and threads with the same address have kept their
\* order.
SignalledOK(a, list) ==
    /\ list \in Seq(Thread) /\ IsInjective(list)
    /\ ToSet(list) \subseteq ToSet(waiting_threads)
    /\ \A t \in ToSet(waiting_threads) : wait_address[t] # a => t \in ToSet(list)
    /\ \A t, u \in Thread : wait_address[t] = wait_address[u] /\ Precedes(list, t, u) =>
          Precedes(waiting_threads, t, u)
    /\ \A t \in ToSet(waiting_threads) \ ToSet(list), u \in ToSet(list) :
          wait_address[u] = a => Better(t, u)

\* min_element finds the first of the threads with the best priority.
LEMMA BestExists ==
    ASSUME ListTypeOK, NEW q \in Seq(Thread), q # <<>>
    PROVE  /\ Best(q) \in DOMAIN q
           /\ \A j \in DOMAIN q :
                \/ current_priority[q[Best(q)]] < current_priority[q[j]]
                \/ current_priority[q[Best(q)]] = current_priority[q[j]] /\ Best(q) <= j
<1>1. Priority \subseteq Nat
  BY ArbiterAssumption
<1>2. DOMAIN q # {} /\ DOMAIN q \subseteq Nat /\ \A j \in DOMAIN q : current_priority[q[j]] \in Nat
  <2>1. Len(q) \in Nat \ {0} /\ DOMAIN q = 1 .. Len(q) /\ \A j \in DOMAIN q : q[j] \in Thread
    OBVIOUS
  <2>2. 1 \in DOMAIN q
    BY <2>1
  <2>3. \A j \in DOMAIN q : current_priority[q[j]] \in Priority
    BY <2>1 DEF ListTypeOK
  <2>4. DOMAIN q \subseteq Nat
    BY <2>1
  <2>5. \A j \in DOMAIN q : current_priority[q[j]] \in Nat
    BY <1>1, <2>3, Zenon
  <2> QED BY <2>2, <2>4, <2>5, Zenon
<1> DEFINE P == {current_priority[q[j]] : j \in DOMAIN q}
<1>3. P \in SUBSET Nat /\ P # {}
  BY <1>2
<1>4. PICK p \in P : \A r \in P : p <= r
  BY <1>3, LeastNumber
<1> DEFINE I == {j \in DOMAIN q : current_priority[q[j]] = p}
<1>5. I \in SUBSET Nat /\ I # {}
  BY <1>2
<1>6. PICK i \in I : \A j \in I : i <= j
  BY <1>5, LeastNumber
<1>7. ASSUME NEW j \in DOMAIN q
      PROVE  \/ current_priority[q[i]] < current_priority[q[j]]
             \/ current_priority[q[i]] = current_priority[q[j]] /\ i <= j
  <2>1. current_priority[q[i]] = p /\ p <= current_priority[q[j]]
    BY <1>4, <1>6
  <2>2. current_priority[q[j]] \in Nat /\ p \in Nat
    BY <1>2, <1>3
  <2>3. CASE current_priority[q[j]] = p
    BY <1>6, <2>1, <2>3
  <2>4. CASE current_priority[q[j]] # p
    BY <2>1, <2>2, <2>4
  <2> QED BY <2>3, <2>4
<1>8. i \in DOMAIN q
  BY <1>6
<1> HIDE DEF I, P
<1> QED BY <1>7, <1>8 DEF Best

\* A pass over the list keeps it so.
LEMMA ResumeHighestKeeps ==
    ASSUME ListTypeOK, NEW a \in Address, NEW list, SignalledOK(a, list)
    PROVE  SignalledOK(a, AfterResumeHighest(a, list))
<1> DEFINE q == At(a, list)
           o == NotAt(a, list)
           r == IF q = <<>> THEN q ELSE RemoveAt(q, Best(q))
<1>1. AfterResumeHighest(a, list) = o \o r
  BY DEF AfterResumeHighest
<1>2. list \in Seq(Thread) /\ IsInjective(list) /\ ToSet(list) \subseteq Thread
  BY DEF SignalledOK, ToSet
<1>3. /\ q \in Seq(Thread) /\ IsInjective(q)
      /\ ToSet(q) = {t \in ToSet(list) : wait_address[t] = a}
      /\ \A t, u : Precedes(q, t, u) => Precedes(list, t, u)
  BY <1>2, KeepProperties DEF At
<1>4. /\ o \in Seq(Thread) /\ IsInjective(o)
      /\ ToSet(o) = {t \in ToSet(list) : wait_address[t] # a}
      /\ \A t, u : Precedes(o, t, u) => Precedes(list, t, u)
  BY <1>2, KeepProperties DEF NotAt
<1> HIDE DEF q, o
<1>5. /\ r \in Seq(Thread) /\ IsInjective(r) /\ ToSet(r) \subseteq ToSet(q)
      /\ \A t, u : Precedes(r, t, u) => Precedes(q, t, u)
  <2>1. CASE q = <<>>
    BY <1>3, <2>1
  <2>2. CASE q # <<>>
    <3>1. Best(q) \in DOMAIN q
      BY <1>3, <2>2, BestExists
    <3> QED BY <1>3, <2>2, <3>1, RemoveAtProperties
  <2> QED BY <2>1, <2>2
<1>6. ASSUME NEW t \in ToSet(q), t \notin ToSet(r), NEW u \in ToSet(r)
      PROVE  Better(t, u)
  <2>1. q # <<>>
    BY <1>6
  <2>2. /\ Best(q) \in DOMAIN q
        /\ \A j \in DOMAIN q :
             \/ current_priority[q[Best(q)]] < current_priority[q[j]]
             \/ current_priority[q[Best(q)]] = current_priority[q[j]] /\ Best(q) <= j
    BY <1>3, <2>1, BestExists
  <2>3. ToSet(r) = ToSet(q) \ {q[Best(q)]}
    BY <1>3, <2>1, <2>2, RemoveAtProperties
  <2>4. t = q[Best(q)] /\ u # t /\ u \in ToSet(q)
    BY <1>6, <2>3
  <2>5. PICK j \in DOMAIN q : u = q[j]
    BY <2>4 DEF ToSet
  <2>6. CASE current_priority[t] < current_priority[u]
    BY <2>6 DEF Better
  <2>7. CASE current_priority[t] = current_priority[u] /\ Best(q) <= j
    <3>1. Best(q) \in Nat /\ j \in Nat /\ Best(q) # j
      BY <1>3, <2>2, <2>4, <2>5
    <3>2. Best(q) < j
      BY <2>7, <3>1
    <3>3. Precedes(q, t, u)
      BY <2>2, <2>4, <2>5, <3>2 DEF Precedes
    <3>4. Precedes(list, t, u) /\ wait_address[t] = wait_address[u] /\ t \in Thread /\ u \in Thread
      BY <1>2, <1>3, <2>4, <3>3
    <3>5. Precedes(waiting_threads, t, u)
      BY <3>4 DEF SignalledOK
    <3> QED BY <2>7, <3>5 DEF Better
  <2> QED BY <2>2, <2>4, <2>5, <2>6, <2>7
<1> HIDE DEF r
<1>7. ToSet(o) \cap ToSet(r) = {}
  BY <1>3, <1>4, <1>5
<1>8. /\ o \o r \in Seq(Thread) /\ IsInjective(o \o r)
      /\ ToSet(o \o r) = ToSet(o) \cup ToSet(r)
      /\ \A t, u : Precedes(o \o r, t, u) =>
           \/ Precedes(o, t, u) \/ Precedes(r, t, u)
           \/ t \in ToSet(o) /\ u \in ToSet(r)
  <2>1. o \in Seq(Thread) /\ r \in Seq(Thread)
    BY <1>4, <1>5
  <2> QED BY <1>4, <1>5, <1>7, <2>1, JoinedLists, Zenon
<1> DEFINE new == o \o r
<1> HIDE DEF new
<1>9. /\ ToSet(new) \subseteq ToSet(waiting_threads)
      /\ \A t \in ToSet(waiting_threads) : wait_address[t] # a => t \in ToSet(new)
  BY <1>3, <1>4, <1>5, <1>8 DEF SignalledOK, new
<1>10. ASSUME NEW t \in Thread, NEW u \in Thread, wait_address[t] = wait_address[u],
              Precedes(new, t, u)
       PROVE  Precedes(waiting_threads, t, u)
  <2>1. ~(t \in ToSet(o) /\ u \in ToSet(r))
    BY <1>3, <1>4, <1>5, <1>10
  <2>2. Precedes(o, t, u) \/ Precedes(r, t, u)
    BY <1>8, <1>10, <2>1, Zenon DEF new
  <2>3. Precedes(list, t, u)
    BY <1>3, <1>4, <1>5, <2>2, Zenon
  <2> QED BY <1>10, <2>3 DEF SignalledOK
<1>11. ASSUME NEW t \in ToSet(waiting_threads) \ ToSet(new), NEW u \in ToSet(new),
              wait_address[u] = a
       PROVE  Better(t, u)
  <2>1. u \in ToSet(r) /\ u \in ToSet(list)
    BY <1>3, <1>4, <1>5, <1>8, <1>11 DEF new
  <2>2. CASE t \in ToSet(list)
    <3>1. t \in ToSet(q) /\ t \notin ToSet(r)
      BY <1>3, <1>4, <1>8, <1>11, <2>2 DEF new
    <3> QED BY <1>6, <2>1, <3>1
  <2>3. CASE t \notin ToSet(list)
    BY <1>11, <2>1, <2>3 DEF SignalledOK
  <2> QED BY <2>2, <2>3
<1>12. SignalledOK(a, new)
  BY <1>8, <1>9, <1>10, <1>11 DEF SignalledOK, new
<1> QED BY <1>1, <1>12 DEF new

\* So does a signal as a whole, by induction over the passes.
LEMMA ResumeKeeps ==
    ASSUME ListTypeOK, IsInjective(waiting_threads), NEW a \in Address, NEW count \in Nat
    PROVE  SignalledOK(a, AfterResume(a, count))
<1> DEFINE Pass(g, n) == IF n = 0 THEN waiting_threads ELSE AfterResumeHighest(a, g[n - 1])
           Passes(m) == \E g : g = [n \in 0 .. m |-> Pass(g, n)]
<1>1. Passes(count)
  <2> DEFINE Bad == {m \in Nat : ~Passes(m)}
  <2> SUFFICES ASSUME Bad # {} PROVE FALSE
    OBVIOUS
  <2> HIDE DEF Passes
  <2>1. PICK m \in Bad : \A k \in Bad : m <= k
    <3>1. Bad \in SUBSET Nat
      OBVIOUS
    <3> HIDE DEF Bad
    <3> QED BY <3>1, LeastNumber
  <2>2. m \in Nat /\ ~Passes(m) /\ \A k \in Nat : k < m => Passes(k)
    BY <2>1
  <2>3. CASE m = 0
    <3> DEFINE g == [n \in 0 .. 0 |-> waiting_threads]
    <3>1. g = [n \in 0 .. 0 |-> Pass(g, n)]
      OBVIOUS
    <3> HIDE DEF g, Pass
    <3> QED BY <2>2, <2>3, <3>1 DEF Passes
  <2>4. CASE m # 0
    <3>1. m - 1 \in Nat /\ Passes(m - 1)
      BY <2>2, <2>4
    <3>2. PICK h : h = [n \in 0 .. m - 1 |-> Pass(h, n)]
      BY <3>1 DEF Passes
    <3> DEFINE g == [n \in 0 .. m |-> IF n = m THEN AfterResumeHighest(a, h[m - 1]) ELSE h[n]]
    <3>3. \A n \in 0 .. m - 1 : g[n] = h[n]
      BY <2>2
    <3>4. \A n \in 0 .. m : g[n] = Pass(g, n)
      <4>1. ASSUME NEW n \in 0 .. m - 1 PROVE g[n] = Pass(g, n)
        <5>1. h[n] = Pass(h, n)
          BY <3>2
        <5>2. n = 0 \/ (n - 1 \in 0 .. m - 1 /\ g[n - 1] = h[n - 1])
          BY <2>2, <3>3
        <5>3. Pass(g, n) = Pass(h, n)
          BY <5>2
        <5> HIDE DEF g, Pass
        <5> QED BY <3>3, <5>1, <5>3
      <4>2. g[m] = Pass(g, m)
        BY <2>2, <2>4, <3>3
      <4>3. \A n \in 0 .. m : n = m \/ n \in 0 .. m - 1
        BY <2>2
      <4> HIDE DEF g, Pass
      <4> QED BY <4>1, <4>2, <4>3, Zenon
    <3>5. g = [n \in 0 .. m |-> g[n]]
      OBVIOUS
    <3> HIDE DEF g
    <3>6. g = [n \in 0 .. m |-> Pass(g, n)]
      BY <3>4, <3>5
    <3> HIDE DEF Pass
    <3> QED BY <2>2, <3>6 DEF Passes
  <2> QED BY <2>3, <2>4
<1> DEFINE after == CHOOSE g : g = [n \in 0 .. count |-> Pass(g, n)]
<1>2. AfterResume(a, count) = after[count]
  BY DEF AfterResume
<1>3. after = [n \in 0 .. count |-> Pass(after, n)]
  <2> HIDE DEF Pass
  <2> QED BY <1>1
<1> HIDE DEF after
<1>4. SignalledOK(a, waiting_threads)
  BY DEF SignalledOK, ListTypeOK
<1>5. \A n \in 0 .. count : SignalledOK(a, after[n])
  <2> DEFINE Bad == {n \in 0 .. count : ~SignalledOK(a, after[n])}
  <2> SUFFICES ASSUME Bad # {} PROVE FALSE
    OBVIOUS
  <2>1. PICK m \in Bad : \A k \in Bad : m <= k
    <3>1. Bad \in SUBSET Nat
      OBVIOUS
    <3> HIDE DEF Bad
    <3> QED BY <3>1, LeastNumber
  <2>2. m \in 0 .. count /\ after[m] = Pass(after, m)
    BY <1>3
  <2>3. m # 0
    BY <1>4, <2>1, <2>2
  <2>4. m - 1 \in 0 .. count /\ SignalledOK(a, after[m - 1])
    BY <2>1, <2>2, <2>3
  <2>5. SignalledOK(a, AfterResumeHighest(a, after[m - 1]))
    BY <2>4, ResumeHighestKeeps
  <2> QED BY <2>1, <2>2, <2>3, <2>5
<1> QED BY <1>2, <1>5

\* And a signal to everybody.
LEMMA ResumeAllKeeps ==
    ASSUME ListTypeOK, IsInjective(waiting_threads), NEW a \in Address
    PROVE  SignalledOK(a, AfterResumeAll(a))
<1> DEFINE o == NotAt(a, waiting_threads)
<1>1. ToSet(waiting_threads) \subseteq Thread
  BY DEF ListTypeOK, ToSet
<1>2. /\ o \in Seq(Thread) /\ IsInjective(o)
      /\ ToSet(o) = {t \in ToSet(waiting_threads) : wait_address[t] # a}
      /\ \A t, u : Precedes(o, t, u) => Precedes(waiting_threads, t, u)
  BY <1>1, KeepProperties DEF NotAt, ListTypeOK
<1> HIDE DEF o
<1>3. SignalledOK(a, o)
  BY <1>2 DEF SignalledOK
<1> QED BY <1>3 DEF AfterResumeAll, o

-------------------------------------------------------------------------------
(* The invariant                                                           *)

\* The list holds the waiting threads, and nobody else unless the process has
\* ended.  A wakeup event is pending only for a thread that waits, with the
\* callback that takes it off the list, or that was woken meanwhile.  Threads that
\* wait for the same address are in the order in which they came.
Inv ==
    /\ ListTypeOK
    /\ status \in [Thread -> {"Running", "Ready", "WaitArb", "Dead"}]
    /\ wakeups \subseteq Thread
    /\ IsInjective(waiting_threads) /\ IsInjective(arrivals)
    /\ ToSet(arrivals) = ToSet(waiting_threads)
    /\ \A t \in Thread : status[t] = "WaitArb" => t \in ToSet(waiting_threads)
    /\ \/ \A t \in ToSet(waiting_threads) : status[t] = "WaitArb"
       \/ \A t \in Thread : status[t] = "Dead"
    /\ \A t \in wakeups :
          \/ status[t] = "Ready"
          \/ status[t] = "WaitArb" /\ t \in wakeup_callback
    /\ \A t, u \in Thread :
          wait_address[t] = wait_address[u] /\ Precedes(waiting_threads, t, u) =>
            Precedes(arrivals, t, u)

LEMMA InitInv == Init => Inv
<1> SUFFICES ASSUME Init PROVE Inv
  OBVIOUS
<1>1. waiting_threads = <<>> /\ arrivals = <<>>
  BY DEF Init
<1>2. ToSet(<<>>) = {} /\ IsInjective(<<>>) /\ \A t, u : ~Precedes(<<>>, t, u)
  BY DEF ToSet, IsInjective, Precedes
<1>3. ListTypeOK
  BY DEF Init, ListTypeOK
<1> QED BY <1>1, <1>2, <1>3 DEF Init, Inv

\* Who is listed is a thread.
LEMMA ListedThreads ==
    ASSUME ListTypeOK
    PROVE  ToSet(waiting_threads) \subseteq Thread /\ ToSet(arrivals) \subseteq Thread
BY DEF ListTypeOK, ToSet

\* While a thread runs, everybody listed waits.
LEMMA RunningLists ==
    ASSUME Inv, NEW t \in Thread, status[t] # "Dead"
    PROVE  \A u \in ToSet(waiting_threads) : u \in Thread /\ status[u] = "WaitArb"
BY ListedThreads DEF Inv

\* What Signal leaves of the list.
LEMMA SignalListOK ==
    ASSUME ListTypeOK, IsInjective(waiting_threads), NEW a \in Address, NEW count \in Counts
    PROVE  SignalledOK(a, IF count < 0 THEN AfterResumeAll(a) ELSE AfterResume(a, count))
<1>1. CASE count < 0
  BY <1>1, ResumeAllKeeps
<1>2. CASE ~(count < 0)
  <2>1. count \in Nat
    BY <1>2, ArbiterAssumption
  <2> QED BY <1>2, <2>1, ResumeKeeps
<1> QED BY <1>1, <1>2

\* A signal keeps the invariant.
LEMMA ResumeInv ==
    ASSUME Inv, NEW t \in Thread, status[t] = "Running", NEW a \in Address, NEW list,
           SignalledOK(a, list), Resume(list),
           UNCHANGED <<wait_address, current_priority, wakeups>>
    PROVE  Inv'
<1> DEFINE woken == ToSet(waiting_threads) \ ToSet(list)
<1>1. /\ waiting_threads' = list
      /\ status' = [u \in Thread |-> IF u \in woken THEN "Ready" ELSE status[u]]
      /\ wakeup_callback' = wakeup_callback \ woken
      /\ arrivals' = Keep(arrivals, Thread \ woken)
  BY DEF Resume
<1>2. /\ list \in Seq(Thread) /\ IsInjective(list) /\ ToSet(list) \subseteq ToSet(waiting_threads)
      /\ \A u, v \in Thread : wait_address[u] = wait_address[v] /\ Precedes(list, u, v) =>
           Precedes(waiting_threads, u, v)
  BY DEF SignalledOK
<1>3. \A u \in ToSet(waiting_threads) : u \in Thread /\ status[u] = "WaitArb"
  BY RunningLists
<1> HIDE DEF woken
<1>4. /\ arrivals' \in Seq(Thread) /\ IsInjective(arrivals')
      /\ ToSet(arrivals') = ToSet(arrivals) \cap (Thread \ woken)
      /\ \A u, v : Precedes(arrivals', u, v) => Precedes(arrivals, u, v)
  BY <1>1, KeepProperties DEF Inv, ListTypeOK
<1>5. ToSet(arrivals') = ToSet(waiting_threads')
  BY <1>1, <1>2, <1>3, <1>4 DEF Inv, woken
<1>6. \A u \in Thread : status'[u] = "WaitArb" => u \in ToSet(waiting_threads')
  BY <1>1 DEF Inv, woken
<1>7. \A u \in ToSet(waiting_threads') : status'[u] = "WaitArb"
  BY <1>1, <1>2, <1>3 DEF woken
<1>8. ASSUME NEW u \in wakeups'
      PROVE  status'[u] = "Ready" \/ (status'[u] = "WaitArb" /\ u \in wakeup_callback')
  BY <1>1, <1>3 DEF Inv
<1>9. ASSUME NEW u \in Thread, NEW v \in Thread, wait_address'[u] = wait_address'[v],
             Precedes(waiting_threads', u, v)
      PROVE  Precedes(arrivals', u, v)
  <2>1. Precedes(arrivals, u, v)
    BY <1>1, <1>2, <1>9 DEF Inv
  <2>2. u \in ToSet(waiting_threads') /\ v \in ToSet(waiting_threads')
    BY <1>9 DEF Precedes, ToSet
  <2>3. u \in Thread \ woken /\ v \in Thread \ woken
    BY <1>1, <2>2 DEF woken
  <2> QED BY <1>1, <2>1, <2>3, KeepProperties DEF Inv, ListTypeOK
<1>10. ListTypeOK' /\ status' \in [Thread -> {"Running", "Ready", "WaitArb", "Dead"}]
  BY <1>1, <1>2, <1>4 DEF Inv, ListTypeOK
<1> QED BY <1>1, <1>2, <1>4, <1>5, <1>6, <1>7, <1>8, <1>9, <1>10 DEF Inv

LEMMA SignalInv ==
    ASSUME Inv, NEW t \in Thread, NEW a \in Address, NEW count \in Counts, Signal(t, a, count)
    PROVE  Inv'
<1> DEFINE list == IF count < 0 THEN AfterResumeAll(a) ELSE AfterResume(a, count)
<1>1. SignalledOK(a, list)
  BY SignalListOK DEF Inv
<1>2. Resume(list) /\ status[t] = "Running" /\ UNCHANGED <<wait_address, current_priority, wakeups>>
  BY DEF Signal
<1> HIDE DEF list
<1> QED BY <1>1, <1>2, ResumeInv

\* A list to which an element was added.
LEMMA AddedToList ==
    ASSUME NEW T, NEW s \in Seq(T), NEW x \in T, x \notin ToSet(s)
    PROVE  /\ Append(s, x) \in Seq(T)
           /\ ToSet(Append(s, x)) = ToSet(s) \cup {x}
           /\ IsInjective(s) => IsInjective(Append(s, x))
           /\ \A t, u : Precedes(Append(s, x), t, u) <=>
                Precedes(s, t, u) \/ (t \in ToSet(s) /\ u = x)
<1> DEFINE c == Append(s, x)
<1>1. /\ c \in Seq(T) /\ DOMAIN c = 1 .. Len(s) + 1 /\ DOMAIN s = 1 .. Len(s) /\ Len(s) \in Nat
      /\ c[Len(s) + 1] = x /\ \A i \in DOMAIN s : c[i] = s[i]
  OBVIOUS
<1> HIDE DEF c
<1>2. DOMAIN c = DOMAIN s \cup {Len(s) + 1} /\ Len(s) + 1 \notin DOMAIN s
  BY <1>1
<1>3. ToSet(c) = ToSet(s) \cup {x}
  BY <1>1, <1>2 DEF ToSet
<1>4. \A i \in DOMAIN s : s[i] # x
  BY DEF ToSet
<1>5. ASSUME IsInjective(s) PROVE IsInjective(c)
  BY <1>1, <1>2, <1>4, <1>5, Zenon DEF IsInjective
<1>6. ASSUME NEW t, NEW u, Precedes(c, t, u) PROVE Precedes(s, t, u) \/ (t \in ToSet(s) /\ u = x)
  <2>1. PICK i \in DOMAIN c, j \in DOMAIN c : i < j /\ c[i] = t /\ c[j] = u
    BY <1>6 DEF Precedes
  <2>2. i \in DOMAIN s
    BY <1>1, <2>1
  <2>3. CASE j = Len(s) + 1
    BY <1>1, <2>1, <2>2, <2>3 DEF ToSet
  <2>4. CASE j # Len(s) + 1
    <3>1. j \in DOMAIN s
      BY <1>2, <2>4
    <3> QED BY <1>1, <2>1, <2>2, <3>1 DEF Precedes
  <2> QED BY <2>3, <2>4
<1>7. ASSUME NEW t, NEW u, Precedes(s, t, u) PROVE Precedes(c, t, u)
  BY <1>1, <1>2, <1>7 DEF Precedes
<1>8. ASSUME NEW t \in ToSet(s) PROVE Precedes(c, t, x)
  <2>1. PICK i \in DOMAIN s : s[i] = t
    BY DEF ToSet
  <2>2. i < Len(s) + 1 /\ i \in DOMAIN c /\ Len(s) + 1 \in DOMAIN c
    BY <1>1
  <2> QED BY <1>1, <2>1, <2>2 DEF Precedes
<1> QED BY <1>1, <1>3, <1>5, <1>6, <1>7, <1>8 DEF c

\* A thread that starts to wait runs: it is in neither list and has no wakeup event.
LEMMA ArbitrateWaitInv ==
    ASSUME Inv, NEW t \in Thread, NEW a \in Address, NEW value \in Value,
           NEW decrement \in BOOLEAN, NEW timeout \in BOOLEAN,
           ArbitrateWait(t, a, value, decrement, timeout)
    PROVE  Inv'
<1>1. /\ status[t] = "Running"
      /\ wait_address' = [wait_address EXCEPT ![t] = a]
      /\ status' = [status EXCEPT ![t] = "WaitArb"]
      /\ waiting_threads' = Append(waiting_threads, t)
      /\ arrivals' = Append(arrivals, t)
      /\ current_priority' = current_priority
  BY DEF ArbitrateWait, WaitThread
<1>2. \/ wakeup_callback' = wakeup_callback \cup {t} /\ wakeups' = wakeups \cup {t}
      \/ wakeup_callback' = wakeup_callback /\ wakeups' = wakeups
  BY DEF ArbitrateWait
<1>3. \A u \in ToSet(waiting_threads) : u \in Thread /\ status[u] = "WaitArb"
  BY <1>1, RunningLists
<1>4. /\ waiting_threads \in Seq(Thread) /\ arrivals \in Seq(Thread)
      /\ IsInjective(waiting_threads) /\ IsInjective(arrivals)
      /\ ToSet(arrivals) = ToSet(waiting_threads)
  BY DEF Inv, ListTypeOK
<1>5. t \notin ToSet(waiting_threads) /\ t \notin ToSet(arrivals)
  BY <1>1, <1>3, <1>4
<1>6. /\ waiting_threads' \in Seq(Thread) /\ IsInjective(waiting_threads')
      /\ ToSet(waiting_threads') = ToSet(waiting_threads) \cup {t}
      /\ \A u, v : Precedes(waiting_threads', u, v) <=>
           Precedes(waiting_threads, u, v) \/ (u \in ToSet(waiting_threads) /\ v = t)
  BY <1>1, <1>4, <1>5, AddedToList
<1>7. /\ arrivals' \in Seq(Thread) /\ IsInjective(arrivals')
      /\ ToSet(arrivals') = ToSet(arrivals) \cup {t}
      /\ \A u, v : Precedes(arrivals', u, v) <=>
           Precedes(arrivals, u, v) \/ (u \in ToSet(arrivals) /\ v = t)
  BY <1>1, <1>4, <1>5, AddedToList
<1>8. ListTypeOK' /\ status' \in [Thread -> {"Running", "Ready", "WaitArb", "Dead"}]
  BY <1>1, <1>6, <1>7 DEF Inv, ListTypeOK
<1>9. /\ \A u \in Thread : status'[u] = "WaitArb" => u \in ToSet(waiting_threads')
      /\ \A u \in ToSet(waiting_threads') : status'[u] = "WaitArb"
  BY <1>1, <1>3, <1>6 DEF Inv
<1>10. wakeups' \subseteq Thread
  BY <1>2 DEF Inv
<1>11. ASSUME NEW u \in wakeups'
       PROVE  status'[u] = "Ready" \/ (status'[u] = "WaitArb" /\ u \in wakeup_callback')
  <2>1. t \notin wakeups
    BY <1>1 DEF Inv
  <2>2. CASE u = t
    BY <1>1, <1>2, <1>11, <2>1, <2>2 DEF Inv
  <2>3. CASE u # t
    <3>1. u \in wakeups /\ status'[u] = status[u] /\ (u \in wakeup_callback => u \in wakeup_callback')
      BY <1>1, <1>2, <1>11, <2>3 DEF Inv
    <3> QED BY <3>1 DEF Inv
  <2> QED BY <2>2, <2>3
<1>12. ASSUME NEW u \in Thread, NEW v \in Thread, wait_address'[u] = wait_address'[v],
              Precedes(waiting_threads', u, v)
       PROVE  Precedes(arrivals', u, v)
  <2>1. CASE u \in ToSet(waiting_threads) /\ v = t
    BY <1>4, <1>7, <2>1
  <2>2. CASE Precedes(waiting_threads, u, v)
    <3>1. u \in ToSet(waiting_threads) /\ v \in ToSet(waiting_threads)
      BY <2>2 DEF Precedes, ToSet
    <3>2. wait_address[u] = wait_address[v]
      BY <1>1, <1>5, <1>12, <3>1 DEF Inv, ListTypeOK
    <3>3. Precedes(arrivals, u, v)
      BY <2>2, <3>2 DEF Inv
    <3> QED BY <1>7, <3>3
  <2> QED BY <1>6, <1>12, <2>1, <2>2
<1> QED BY <1>4, <1>6, <1>7, <1>8, <1>9, <1>10, <1>11, <1>12 DEF Inv

\* A timeout finds its thread waiting, and takes it off both lists, or woken.
LEMMA TimeoutFiresInv ==
    ASSUME Inv, NEW t \in Thread, TimeoutFires(t)
    PROVE  Inv'
<1>1. /\ t \in wakeups /\ wakeups' = wakeups \ {t}
      /\ wakeup_callback' = wakeup_callback \ {t}
      /\ UNCHANGED <<wait_address, current_priority>>
  BY DEF TimeoutFires
<1>2. status[t] = "Ready" \/ (status[t] = "WaitArb" /\ t \in wakeup_callback)
  BY <1>1 DEF Inv
<1>3. status' = [status EXCEPT ![t] = "Ready"]
  BY <1>2 DEF TimeoutFires, Inv
<1>4. CASE status[t] = "Ready"
  <2>1. UNCHANGED <<waiting_threads, arrivals>>
    BY <1>4 DEF TimeoutFires
  <2>2. status' = status
    BY <1>3, <1>4 DEF Inv
  <2>3. \A u \in wakeups' :
          \/ status'[u] = "Ready"
          \/ status'[u] = "WaitArb" /\ u \in wakeup_callback'
    BY <1>1, <2>2 DEF Inv
  <2> QED BY <1>1, <2>1, <2>2, <2>3 DEF Inv, ListTypeOK
<1>5. CASE status[t] = "WaitArb" /\ t \in wakeup_callback
  <2>1. /\ waiting_threads' = Keep(waiting_threads, Thread \ {t})
        /\ arrivals' = Keep(arrivals, Thread \ {t})
    BY <1>5 DEF TimeoutFires, ListAfterTimeout
  <2>2. \A u \in ToSet(waiting_threads) : u \in Thread /\ status[u] = "WaitArb"
    BY <1>5, RunningLists
  <2>3. /\ waiting_threads \in Seq(Thread) /\ arrivals \in Seq(Thread)
        /\ IsInjective(waiting_threads) /\ IsInjective(arrivals)
        /\ ToSet(arrivals) = ToSet(waiting_threads)
    BY DEF Inv, ListTypeOK
  <2>4. /\ waiting_threads' \in Seq(Thread) /\ IsInjective(waiting_threads')
        /\ ToSet(waiting_threads') = ToSet(waiting_threads) \cap (Thread \ {t})
        /\ \A u, v : Precedes(waiting_threads', u, v) <=>
             Precedes(waiting_threads, u, v) /\ u \in Thread \ {t} /\ v \in Thread \ {t}
    BY <2>1, <2>3, KeepProperties
  <2>5. /\ arrivals' \in Seq(Thread) /\ IsInjective(arrivals')
        /\ ToSet(arrivals') = ToSet(arrivals) \cap (Thread \ {t})
        /\ \A u, v : Precedes(arrivals', u, v) <=>
             Precedes(arrivals, u, v) /\ u \in Thread \ {t} /\ v \in Thread \ {t}
    BY <2>1, <2>3, KeepProperties
  <2>6. ListTypeOK' /\ status' \in [Thread -> {"Running", "Ready", "WaitArb", "Dead"}]
    BY <1>1, <1>3, <2>4, <2>5 DEF Inv, ListTypeOK
  <2>7. /\ \A u \in Thread : status'[u] = "WaitArb" => u \in ToSet(waiting_threads')
        /\ \A u \in ToSet(waiting_threads') : status'[u] = "WaitArb"
    BY <1>3, <2>2, <2>4 DEF Inv
  <2>8. ASSUME NEW u \in wakeups'
        PROVE  status'[u] = "Ready" \/ (status'[u] = "WaitArb" /\ u \in wakeup_callback')
    BY <1>1, <1>3 DEF Inv
  <2>9. \A u, v \in Thread :
          wait_address'[u] = wait_address'[v] /\ Precedes(waiting_threads', u, v) =>
            Precedes(arrivals', u, v)
    BY <1>1, <2>4, <2>5 DEF Inv
  <2>10. wakeups' \subseteq Thread /\ ToSet(arrivals') = ToSet(waiting_threads')
    BY <1>1, <2>3, <2>4, <2>5 DEF Inv
  <2> QED BY <2>4, <2>5, <2>6, <2>7, <2>8, <2>9, <2>10 DEF Inv
<1> QED BY <1>2, <1>4, <1>5

\* Steps that leave the lists alone.
LEMMA ThreadInv ==
    ASSUME Inv, NEW t \in Thread,
           SwitchContext(t) \/ ExitThread(t) \/ ExitProcess(t)
    PROVE  Inv'
<1>1. UNCHANGED <<waiting_threads, wait_address, current_priority, wakeup_callback, arrivals>>
  BY DEF SwitchContext, ExitThread, ExitProcess
<1>2. ListTypeOK'
  BY <1>1 DEF Inv, ListTypeOK
<1>3. CASE SwitchContext(t) \/ ExitThread(t)
  <2>1. /\ status[t] \in {"Ready", "Running"} /\ wakeups' = wakeups \ {t}
        /\ \E st \in {"Running", "Dead"} : status' = [status EXCEPT ![t] = st]
    BY <1>3 DEF SwitchContext, ExitThread
  <2>2. \A u \in ToSet(waiting_threads) : u \in Thread /\ status[u] = "WaitArb"
    BY <2>1, RunningLists
  <2>3. /\ \A u \in Thread : status'[u] = "WaitArb" => status[u] = "WaitArb"
        /\ \A u \in ToSet(waiting_threads) : status'[u] = "WaitArb"
        /\ \A u \in wakeups' : u \in wakeups /\ status'[u] = status[u]
        /\ status' \in [Thread -> {"Running", "Ready", "WaitArb", "Dead"}]
    BY <2>1, <2>2 DEF Inv
  <2> QED BY <1>1, <1>2, <2>1, <2>3 DEF Inv
<1>4. CASE ExitProcess(t)
  <2>1. status' = [u \in Thread |-> "Dead"] /\ wakeups' = {}
    BY <1>4 DEF ExitProcess
  <2> QED BY <1>1, <1>2, <2>1 DEF Inv
<1> QED BY <1>3, <1>4

LEMMA NextInv == Inv /\ [Next]_vars => Inv'
<1> SUFFICES ASSUME Inv, [Next]_vars PROVE Inv'
  OBVIOUS
<1>1. ASSUME NEW t \in Thread, TimeoutFires(t) PROVE Inv'
  BY <1>1, TimeoutFiresInv
<1>2. ASSUME NEW t \in Thread, SwitchContext(t) \/ ExitThread(t) \/ ExitProcess(t) PROVE Inv'
  BY <1>2, ThreadInv
<1>3. ASSUME NEW t \in Thread, NEW a \in Address, NEW count \in Counts, Signal(t, a, count)
      PROVE  Inv'
  BY <1>3, SignalInv
<1>4. ASSUME NEW t \in Thread, NEW a \in Address, NEW v \in Value, Stores(t, a, v) PROVE Inv'
  BY <1>4 DEF Stores, Inv, ListTypeOK
<1>5. ASSUME NEW t \in Thread, NEW a \in Address, NEW v \in Value, NEW decrement \in BOOLEAN,
             NEW timeout \in BOOLEAN, ArbitrateWait(t, a, v, decrement, timeout)
      PROVE  Inv'
  BY <1>5, ArbitrateWaitInv
<1>6. ASSUME NEW t \in Thread, NEW u \in Thread, NEW p \in Priority, SetThreadPriority(t, u, p)
      PROVE  Inv'
  BY <1>6 DEF SetThreadPriority, Inv, ListTypeOK
<1>7. CASE UNCHANGED vars
  BY <1>7 DEF vars, Inv, ListTypeOK
<1> QED BY <1>1, <1>2, <1>3, <1>4, <1>5, <1>6, <1>7 DEF Next

LEMMA Invariance == Spec => []Inv
<1> QED BY InitInv, NextInv, PTL DEF Spec

-------------------------------------------------------------------------------
(* Theorems                                                                *)

\* Whatever signals, timeouts and ends of threads come, the arbiter lists exactly
\* the threads that wait for it, once each, while a thread is left to use it: the
\* assertion of ResumeAllThreads and ResumeHighestPriorityThread never fails.
THEOREM ListIsExact == Spec => []ListsExactlyWaiting
<1>1. Inv => ListsExactlyWaiting
  <2> SUFFICES ASSUME Inv, NEW t \in Thread, status[t] \in {"Running", "Ready"}
               PROVE  /\ ToSet(waiting_threads) = {u \in Thread : status[u] = "WaitArb"}
                      /\ IsInjective(waiting_threads)
    BY DEF ListsExactlyWaiting
  <2>1. \A u \in ToSet(waiting_threads) : u \in Thread /\ status[u] = "WaitArb"
    BY RunningLists
  <2> QED BY <2>1 DEF Inv
<1> QED BY <1>1, Invariance, PTL

\* Only a signal wakes a waiting thread and leaves the wakeup events alone.
LEMMA WokenBySignal ==
    ASSUME Inv, [Next]_vars, NEW t \in Thread, status[t] = "WaitArb", status'[t] = "Ready",
           wakeups' = wakeups
    PROVE  \E u \in Thread, a \in Address, count \in Counts : Signal(u, a, count)
<1> SUFFICES ASSUME ~\E u \in Thread, a \in Address, count \in Counts : Signal(u, a, count)
             PROVE  FALSE
  OBVIOUS
<1>1. \A u \in Thread : ~TimeoutFires(u)
  BY DEF TimeoutFires
<1>2. \A u \in Thread : ~SwitchContext(u) /\ ~ExitThread(u) /\ ~ExitProcess(u)
  BY DEF SwitchContext, ExitThread, ExitProcess, Inv
<1>3. \A u \in Thread, a \in Address, v \in Value : ~Stores(u, a, v)
  BY DEF Stores
<1>4. ASSUME NEW u \in Thread, NEW a \in Address, NEW v \in Value, NEW decrement \in BOOLEAN,
             NEW timeout \in BOOLEAN, ArbitrateWait(u, a, v, decrement, timeout)
      PROVE  FALSE
  BY <1>4 DEF ArbitrateWait, WaitThread, Inv
<1>5. \A u, v \in Thread, p \in Priority : ~SetThreadPriority(u, v, p)
  BY DEF SetThreadPriority
<1>6. ~UNCHANGED vars
  BY DEF vars
<1> QED BY <1>1, <1>2, <1>3, <1>4, <1>5, <1>6 DEF Next

\* A signal wakes the best threads first, in the order in which they came: the
\* passes over the list reorder it, never two threads of the same address.
THEOREM SignalsInOrder == Spec => WakesInOrder
<1> DEFINE Order(i, j) ==
             /\ wait_address[arrivals[i]] = wait_address[arrivals[j]]
             /\ status[arrivals[i]] = "WaitArb" /\ status'[arrivals[i]] = "Ready" /\ wakeups' = wakeups
             /\ status'[arrivals[j]] = "WaitArb"
             => \/ current_priority[arrivals[i]] < current_priority[arrivals[j]]
                \/ current_priority[arrivals[i]] = current_priority[arrivals[j]] /\ i < j
<1>1. ASSUME Inv, [Next]_vars, NEW i \in DOMAIN arrivals, NEW j \in DOMAIN arrivals
      PROVE  Order(i, j)
  <2> DEFINE t == arrivals[i]
             u == arrivals[j]
  <2> SUFFICES ASSUME wait_address[t] = wait_address[u], status[t] = "WaitArb",
                      status'[t] = "Ready", wakeups' = wakeups, status'[u] = "WaitArb"
               PROVE  \/ current_priority[t] < current_priority[u]
                      \/ current_priority[t] = current_priority[u] /\ i < j
    OBVIOUS
  <2>1. t \in Thread /\ u \in Thread /\ t \in ToSet(arrivals) /\ u \in ToSet(arrivals)
    BY <1>1 DEF Inv, ListTypeOK, ToSet
  <2> HIDE DEF t, u
  <2>2. PICK v \in Thread, a \in Address, count \in Counts : Signal(v, a, count)
    BY <1>1, <2>1, WokenBySignal
  <2> DEFINE list == IF count < 0 THEN AfterResumeAll(a) ELSE AfterResume(a, count)
  <2>3. SignalledOK(a, list)
    BY <1>1, SignalListOK DEF Inv
  <2>4. Resume(list)
    BY <2>2 DEF Signal
  <2> HIDE DEF list
  <2>5. t \in ToSet(waiting_threads) /\ u \in ToSet(waiting_threads)
    BY <1>1, <2>1 DEF Inv
  <2>6. t \notin ToSet(list) /\ u \in ToSet(list)
    BY <2>1, <2>4, <2>5 DEF Resume
  <2>7. wait_address[t] = a /\ wait_address[u] = a
    BY <2>3, <2>5, <2>6 DEF SignalledOK
  <2>8. Better(t, u)
    BY <2>3, <2>5, <2>6, <2>7 DEF SignalledOK
  <2>9. CASE current_priority[t] < current_priority[u]
    BY <2>9
  <2>10. CASE current_priority[t] = current_priority[u] /\ Precedes(waiting_threads, t, u)
    <3>1. Precedes(arrivals, t, u)
      BY <1>1, <2>1, <2>7, <2>10 DEF Inv
    <3>2. PICK k \in DOMAIN arrivals, l \in DOMAIN arrivals :
            k < l /\ arrivals[k] = t /\ arrivals[l] = u
      BY <3>1 DEF Precedes
    <3>3. k = i /\ l = j
      BY <1>1, <3>2 DEF Inv, IsInjective, t, u
    <3> QED BY <2>10, <3>2, <3>3
  <2> QED BY <2>8, <2>9, <2>10 DEF Better
<1>2. Inv /\ [Next]_vars => [\A i, j \in DOMAIN arrivals : Order(i, j)]_vars
  BY <1>1
<1>3. Spec => [][\A i, j \in DOMAIN arrivals : Order(i, j)]_vars
  <2> HIDE DEF Order
  <2> QED BY <1>2, Invariance, PTL DEF Spec
<1> QED BY <1>3 DEF WakesInOrder
===============================================================================
