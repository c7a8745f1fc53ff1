--------------------------- MODULE ReadyQueueProofs ---------------------------
(***************************************************************************)
(* Proofs about the ready queue, for any number of priority levels and any *)
(* set of threads.                                                         *)
(***************************************************************************)
EXTENDS ReadyQueue, SequenceTheorems, TLAPS

\* Where a pop has got to: everything before its cursor is empty, and the
\* cursor of pop_first_better has not passed the linked level it stops at.
WalkOK ==
    /\ op.pc \in {"pop_first", "pop_first_better"} =>
         /\ op.cur \in Priority \cup {Nullptr}
         /\ op.cur \in Priority => /\ IsLinked(op.cur)
                                   /\ \A q \in Priority : q < op.cur => data[q] = <<>>
         /\ op.cur = Nullptr => \A q \in Priority : data[q] = <<>>
    /\ op.pc = "pop_first_better" =>
         /\ op.arg \in Priority /\ IsLinked(op.arg)
         /\ op.cur \in Priority /\ op.cur <= op.arg

IInv == TypeOK /\ ChainOK /\ NothingStranded /\ WalkOK /\ NoNullDereference

\* Removing a thread from a deque leaves a deque of threads.
LEMMA WithoutType ==
    ASSUME NEW T, NEW s \in Seq(T), NEW t
    PROVE  Without(s, t) \in Seq(T)
<1>1. CASE \E i \in 1 .. Len(s) : s[i] = t
  <2> DEFINE k == CHOOSE i \in 1 .. Len(s) : s[i] = t
             w == [j \in 1 .. Len(s) - 1 |-> IF j < k THEN s[j] ELSE s[j + 1]]
  <2>1. k \in 1 .. Len(s)
    BY <1>1
  <2>2. Len(s) - 1 \in Nat
    BY <2>1
  <2>3. \A j \in 1 .. Len(s) - 1 : w[j] \in T
    BY <2>1
  <2> HIDE DEF w
  <2>4. w \in [1 .. Len(s) - 1 -> T]
    BY <2>3 DEF w
  <2>5. w \in Seq(T)
    BY <2>2, <2>4, IsASeq
  <2> QED BY <1>1, <2>5 DEF Without, w
<1>2. CASE ~(\E i \in 1 .. Len(s) : s[i] = t)
  BY <1>2 DEF Without
<1> QED BY <1>1, <1>2

\* The cursor of a loop can be compared with the bounds of the array.
LEMMA CursorIsInt == TypeOK => op.cur \in Int
BY ReadyQueueAssumption DEF TypeOK, Pointer, Priority, Nullptr, Unlinked

\* The initial queue satisfies the inductive invariant.
LEMMA InitIInv == Init => IInv
<1> SUFFICES ASSUME Init PROVE IInv
  OBVIOUS
<1> USE ReadyQueueAssumption DEF Init, Idle, Priority, Nullptr, Unlinked, Pointer
<1>1. TypeOK
  BY DEF TypeOK
<1>2. ChainOK
  BY DEF ChainOK, IsLinked
<1>3. NothingStranded /\ WalkOK /\ NoNullDereference
  BY DEF NothingStranded, WalkOK, NoNullDereference
<1> QED BY <1>1, <1>2, <1>3 DEF IInv

\* Every operation and every loop iteration preserves it.
LEMMA NextIInv == IInv /\ [Next]_vars => IInv'
<1> SUFFICES ASSUME IInv, [Next]_vars PROVE IInv'
  OBVIOUS
<1> USE ReadyQueueAssumption DEF IInv, Priority, Nullptr, Unlinked, Pointer
<1>1. ASSUME NEW p \in Priority, NEW t \in Thread, push_front(p, t) PROVE IInv'
  <2>1. <<t>> \o data[p] \in Seq(Thread)
    BY DEF TypeOK
  <2>2. TypeOK'
    BY <1>1, <2>1 DEF push_front, TypeOK
  <2>3. ChainOK' /\ WalkOK' /\ NoNullDereference'
    BY <1>1 DEF push_front, MayPush, Idle, ChainOK, WalkOK, NoNullDereference, IsLinked
  <2>4. NothingStranded'
    BY <1>1 DEF push_front, MayPush, TypeOK, NothingStranded, IsLinked
  <2> QED BY <2>2, <2>3, <2>4
<1>2. ASSUME NEW p \in Priority, NEW t \in Thread, push_back(p, t) PROVE IInv'
  <2>1. Append(data[p], t) \in Seq(Thread)
    BY DEF TypeOK
  <2>2. TypeOK'
    BY <1>2, <2>1 DEF push_back, TypeOK
  <2>3. ChainOK' /\ WalkOK' /\ NoNullDereference'
    BY <1>2 DEF push_back, MayPush, Idle, ChainOK, WalkOK, NoNullDereference, IsLinked
  <2>4. NothingStranded'
    BY <1>2 DEF push_back, MayPush, TypeOK, NothingStranded, IsLinked
  <2> QED BY <2>2, <2>3, <2>4
<1>3. ASSUME NEW p \in Priority, NEW t \in Thread, remove(p, t) PROVE IInv'
  <2>1. Without(data[p], t) \in Seq(Thread)
    BY WithoutType DEF TypeOK
  <2>2. TypeOK'
    BY <1>3, <2>1 DEF remove, TypeOK
  <2>3. data[p] = <<>> => Without(data[p], t) = <<>>
    BY DEF Without
  <2>4. ChainOK' /\ WalkOK' /\ NoNullDereference'
    BY <1>3 DEF remove, Idle, ChainOK, WalkOK, NoNullDereference, IsLinked
  <2>5. NothingStranded'
    BY <1>3, <2>3 DEF remove, TypeOK, NothingStranded, IsLinked
  <2> QED BY <2>2, <2>4, <2>5
<1>4. ASSUME NEW p \in Priority, prepare(p) PROVE IInv'
  <2>1. TypeOK'
    BY <1>4 DEF prepare, TypeOK
  <2>2. ChainOK'
    BY <1>4, SMTT(30) DEF prepare, TypeOK, ChainOK, IsLinked
  <2>3. NothingStranded' /\ WalkOK' /\ NoNullDereference'
    BY <1>4 DEF prepare, TypeOK, NothingStranded, WalkOK, NoNullDereference, IsLinked
  <2> QED BY <2>1, <2>2, <2>3
<1>5. ASSUME NEW t \in Thread, NEW old \in Priority, NEW new \in Priority, move(t, old, new)
      PROVE  IInv'
  <2> DEFINE left == [data EXCEPT ![old] = Without(@, t)]
  <2>1. left \in [Priority -> Seq(Thread)]
    BY WithoutType DEF TypeOK
  <2>2. \A p \in Priority : data[p] = <<>> => left[p] = <<>>
    BY DEF Without, TypeOK
  <2>3. op = Idle /\ UNCHANGED <<first, next_nonempty, popped>>
    BY <1>5 DEF move
  <2>4. CASE IsLinked(new)
    <3>1. data' = [left EXCEPT ![new] = Append(@, t)] /\ op' = op
      BY <1>5, <2>4 DEF move
    <3> HIDE DEF left
    <3>2. TypeOK'
      BY <2>1, <2>3, <3>1, SMTT(30) DEF TypeOK
    <3>3. ChainOK' /\ WalkOK' /\ NoNullDereference'
      BY <2>3, <3>1 DEF Idle, ChainOK, WalkOK, NoNullDereference, IsLinked
    <3>4. NothingStranded'
      BY <2>1, <2>2, <2>3, <2>4, <3>1 DEF NothingStranded, IsLinked
    <3> QED BY <3>2, <3>3, <3>4
  <2>5. CASE ~IsLinked(new)
    <3>1. /\ data' = left
          /\ op' = [pc |-> "link", cur |-> new - 1, arg |-> new, thread |-> t]
      BY <1>5, <2>5 DEF move
    <3> HIDE DEF left
    <3>2. TypeOK'
      BY <2>1, <2>3, <3>1, SMTT(30) DEF TypeOK
    <3>3. ChainOK'
      BY <2>3, <2>5, <3>1 DEF TypeOK, ChainOK, IsLinked
    <3>4. NothingStranded' /\ WalkOK' /\ NoNullDereference'
      BY <2>1, <2>2, <2>3, <3>1
         DEF TypeOK, NothingStranded, WalkOK, NoNullDereference, IsLinked
    <3> QED BY <3>2, <3>3, <3>4
  <2> QED BY <2>4, <2>5
<1>6. CASE link
  <2>0. op.cur \in Int
    BY CursorIsInt
  <2>1. CASE op.cur >= 0 /\ ~IsLinked(op.cur)
    <3>1. /\ op.pc = "link" /\ op' = [op EXCEPT !.cur = @ - 1]
          /\ UNCHANGED <<first, next_nonempty, data, popped>>
      BY <1>6, <2>0, <2>1 DEF link
    <3>2. op.arg \in Priority /\ op.cur \in 0 .. op.arg - 1
      BY <2>1, <3>1 DEF ChainOK
    <3>3. op.cur - 1 \in Pointer
      BY <3>2
    <3>4. op'.pc = "link" /\ op'.arg = op.arg /\ op'.cur = op.cur - 1
      BY <3>1 DEF TypeOK
    <3>a. op' \in [pc : {"idle", "link", "pop_first", "pop_first_better", "segv"},
                   cur : Pointer, arg : Pointer, thread : Thread \cup {None}]
      BY <3>1, <3>3 DEF TypeOK
    <3>b. TypeOK'
      BY <3>1, <3>a DEF TypeOK
    <3>5. ChainOK'
      BY <2>1, <3>1, <3>2, <3>4, SMTT(30) DEF TypeOK, ChainOK, IsLinked
    <3>6. NothingStranded' /\ WalkOK' /\ NoNullDereference'
      BY <3>1, <3>4 DEF NothingStranded, WalkOK, NoNullDereference, IsLinked
    <3> QED BY <3>b, <3>5, <3>6
  <2>2. CASE ~(op.cur >= 0 /\ ~IsLinked(op.cur))
    <3>1. FinishLink /\ op.pc = "link"
      BY <1>6, <2>2 DEF link
    <3>2. op.arg \in Priority /\ op.cur \in -1 .. op.arg - 1
      BY <3>1 DEF ChainOK
    <3>3. data' \in [Priority -> Seq(Thread)]
      BY <3>1, <3>2 DEF FinishLink, TypeOK
    <3>4. \A p \in Priority : p # op.arg => data'[p] = data[p]
      BY <3>1 DEF FinishLink, TypeOK
    <3>5. op' = Idle /\ popped' = popped
      BY <3>1 DEF FinishLink
    <3>6. CASE op.cur >= 0
      <4>1. /\ next_nonempty' = [next_nonempty EXCEPT ![op.arg] = next_nonempty[op.cur],
                                                      ![op.cur] = op.arg]
            /\ first' = first
        BY <1>6, <2>0, <2>2, <3>6 DEF link
      <4>2. op.cur \in Priority /\ IsLinked(op.cur) /\ op.cur < op.arg
        BY <2>2, <3>2, <3>6
      <4>3. /\ next_nonempty' \in [Priority -> Pointer]
            /\ next_nonempty'[op.cur] = op.arg
            /\ next_nonempty'[op.arg] = next_nonempty[op.cur]
            /\ \A q \in Priority :
                 q # op.cur /\ q # op.arg => next_nonempty'[q] = next_nonempty[q]
        <5> DEFINE f == [next_nonempty EXCEPT ![op.arg] = next_nonempty[op.cur]]
        <5>1. f \in [Priority -> Pointer]
          BY <3>2, <4>2 DEF TypeOK
        <5>2. /\ f[op.arg] = next_nonempty[op.cur]
              /\ \A q \in Priority : q # op.arg => f[q] = next_nonempty[q]
          BY <3>2, <4>2 DEF TypeOK
        <5>3. next_nonempty' = [f EXCEPT ![op.cur] = op.arg]
          BY <4>1
        <5> HIDE DEF f
        <5> QED BY <3>2, <4>2, <5>1, <5>2, <5>3
      <4>4. TypeOK'
        BY <3>3, <3>5, <4>1, <4>3 DEF TypeOK, Idle
      <4>5. op'.pc = "idle"
        BY <3>5 DEF Idle
      <4>6. \A q \in Priority : IsLinked(q)' <=> IsLinked(q) \/ q = op.arg
        BY <3>2, <4>2, <4>3 DEF IsLinked
      <4>7. ChainOK'
        <5>1. (first = Nullptr => \A p \in Priority : ~IsLinked(p))'
          BY <4>1, <4>2 DEF ChainOK
        <5>2. (first # Nullptr => /\ first \in Priority /\ IsLinked(first)
                                  /\ \A p \in Priority : IsLinked(p) => first <= p)'
          BY <3>2, <4>1, <4>2, <4>6 DEF ChainOK
        <5>3. ASSUME NEW p \in Priority
              PROVE  (/\ next_nonempty[p] \in Priority =>
                           /\ p < next_nonempty[p] /\ IsLinked(next_nonempty[p])
                           /\ \A q \in Priority : p < q /\ q < next_nonempty[p] => ~IsLinked(q)
                      /\ next_nonempty[p] = Nullptr =>
                           \A q \in Priority : p < q => ~IsLinked(q))'
          <6>0. \A q \in Priority : op.cur < q /\ q < op.arg => ~IsLinked(q)
            BY <3>1 DEF ChainOK
          <6>1. CASE p = op.cur
            BY <3>2, <4>2, <4>3, <4>6, <6>0, <6>1
          <6>2. CASE p = op.arg
            <7>1. next_nonempty'[p] = next_nonempty[op.cur] /\ ~IsLinked(op.arg)
              BY <3>1, <4>3, <6>2 DEF ChainOK
            <7>2. next_nonempty[op.cur] \in Priority =>
                    /\ IsLinked(next_nonempty[op.cur]) /\ op.arg < next_nonempty[op.cur]
                    /\ \A q \in Priority :
                         op.cur < q /\ q < next_nonempty[op.cur] => ~IsLinked(q)
              BY <3>2, <4>2, <6>0, <7>1 DEF ChainOK
            <7>3. next_nonempty[op.cur] = Nullptr =>
                    \A q \in Priority : op.cur < q => ~IsLinked(q)
              BY <4>2 DEF ChainOK
            <7> QED BY <3>2, <4>2, <4>6, <6>2, <7>1, <7>2, <7>3
          <6>3. CASE p # op.cur /\ p # op.arg
            <7>1. next_nonempty'[p] = next_nonempty[p]
              BY <4>3, <6>3
            <7>2. IsLinked(p) => ~(op.cur < p /\ p < op.arg)
              BY <6>0
            <7>3. CASE p < op.cur
              BY <3>2, <4>2, <4>6, <7>1, <7>3 DEF ChainOK
            <7>4. CASE op.arg < p
              BY <3>2, <4>2, <4>6, <7>1, <7>4 DEF ChainOK
            <7>5. CASE op.cur < p /\ p < op.arg
              BY <7>1, <7>2, <7>5 DEF IsLinked
            <7> QED BY <3>2, <4>2, <6>3, <7>3, <7>4, <7>5
          <6> QED BY <6>1, <6>2, <6>3
        <5> QED BY <4>5, <5>1, <5>2, <5>3 DEF ChainOK
      <4>8. NothingStranded'
        BY <3>4, <4>6 DEF NothingStranded
      <4> QED BY <4>4, <4>5, <4>7, <4>8 DEF WalkOK, NoNullDereference
    <3>7. CASE ~(op.cur >= 0)
      <4>1. next_nonempty' = [next_nonempty EXCEPT ![op.arg] = first] /\ first' = op.arg
        BY <1>6, <3>2, <3>7 DEF link
      <4>2. TypeOK'
        BY <3>2, <3>3, <3>5, <4>1 DEF TypeOK, Idle
      <4>3. op'.pc = "idle"
        BY <3>5 DEF Idle
      <4>4. /\ next_nonempty'[op.arg] = first
            /\ \A q \in Priority : q # op.arg => next_nonempty'[q] = next_nonempty[q]
        BY <3>2, <4>1 DEF TypeOK
      <4>5. \A q \in Priority : IsLinked(q)' <=> IsLinked(q) \/ q = op.arg
        BY <3>2, <4>4 DEF IsLinked, ChainOK
      <4>6. \A q \in Priority : q < op.arg => ~IsLinked(q)
        BY <3>1, <3>2, <3>7 DEF ChainOK
      <4>7. ChainOK'
        <5>1. (first # Nullptr => /\ first \in Priority /\ IsLinked(first)
                                  /\ \A p \in Priority : IsLinked(p) => first <= p)'
          BY <3>2, <4>1, <4>5, <4>6
        <5>2. ASSUME NEW p \in Priority
              PROVE  (/\ next_nonempty[p] \in Priority =>
                           /\ p < next_nonempty[p] /\ IsLinked(next_nonempty[p])
                           /\ \A q \in Priority : p < q /\ q < next_nonempty[p] => ~IsLinked(q)
                      /\ next_nonempty[p] = Nullptr =>
                           \A q \in Priority : p < q => ~IsLinked(q))'
          <6>1. CASE p = op.arg
            <7>1. next_nonempty'[p] = first /\ ~IsLinked(op.arg)
              BY <3>1, <4>4, <6>1 DEF ChainOK
            <7>2. first \in Priority =>
                    /\ IsLinked(first) /\ op.arg < first
                    /\ \A q \in Priority : q < first => ~IsLinked(q)
              BY <3>2, <4>6, <7>1 DEF ChainOK
            <7>3. first = Nullptr => \A q \in Priority : ~IsLinked(q)
              BY DEF ChainOK
            <7> QED BY <3>2, <4>5, <6>1, <7>1, <7>2, <7>3
          <6>2. CASE p # op.arg
            <7>1. next_nonempty'[p] = next_nonempty[p]
              BY <4>4, <6>2
            <7>2. CASE p < op.arg
              BY <4>6, <7>1, <7>2 DEF IsLinked
            <7>3. CASE op.arg < p
              BY <3>2, <4>5, <7>1, <7>3 DEF ChainOK
            <7> QED BY <3>2, <6>2, <7>2, <7>3
          <6> QED BY <6>1, <6>2
        <5> QED BY <3>2, <4>1, <4>3, <5>1, <5>2 DEF ChainOK
      <4>8. NothingStranded'
        BY <3>4, <4>5 DEF NothingStranded
      <4> QED BY <4>2, <4>3, <4>7, <4>8 DEF WalkOK, NoNullDereference
    <3> QED BY <3>6, <3>7
  <2> QED BY <2>1, <2>2
<1>7. CASE CallPop
  <2>1. UNCHANGED <<first, next_nonempty, data, popped>>
    BY <1>7 DEF CallPop
  <2>2. CASE op' = [pc |-> "pop_first", cur |-> first, arg |-> Nullptr, thread |-> None]
    <3>1. TypeOK'
      BY <2>1, <2>2 DEF TypeOK
    <3>2. ChainOK' /\ NothingStranded' /\ NoNullDereference'
      BY <2>1, <2>2 DEF ChainOK, NothingStranded, NoNullDereference, IsLinked
    <3>3. WalkOK'
      BY <2>1, <2>2 DEF ChainOK, NothingStranded, WalkOK, IsLinked
    <3> QED BY <3>1, <3>2, <3>3
  <2>3. ASSUME NEW p \in Priority, IsLinked(p),
               op' = [pc |-> "pop_first_better", cur |-> first, arg |-> p, thread |-> None]
        PROVE  IInv'
    <3>1. TypeOK'
      BY <2>1, <2>3 DEF TypeOK
    <3>2. ChainOK' /\ NothingStranded' /\ NoNullDereference'
      BY <2>1, <2>3 DEF ChainOK, NothingStranded, NoNullDereference, IsLinked
    <3>3. WalkOK'
      BY <2>1, <2>3 DEF ChainOK, NothingStranded, WalkOK, IsLinked
    <3> QED BY <3>1, <3>2, <3>3
  <2> QED BY <1>7, <2>2, <2>3 DEF CallPop
<1>8. CASE pop
  <2>1. /\ op.pc \in {"pop_first", "pop_first_better"}
        /\ UNCHANGED <<first, next_nonempty>>
    BY <1>8 DEF pop
  <2>2. CASE ~PopContinues
    <3>1. Popped(None) \in [limit : 0 .. NumQueues, thread : Thread \cup {None}]
      BY <2>1 DEF Popped, WalkOK
    <3>2. op' = Idle /\ popped' = Popped(None) /\ data' = data
      BY <1>8, <2>2 DEF pop
    <3>3. TypeOK'
      BY <2>1, <3>1, <3>2 DEF TypeOK, Idle
    <3> QED BY <2>1, <3>2, <3>3 DEF Idle, ChainOK, NothingStranded, WalkOK,
                                    NoNullDereference, IsLinked
  <2>3. CASE PopContinues
    <3>1. op.cur \in Priority
      BY <2>1, <2>3 DEF PopContinues, WalkOK
    <3>2. CASE data[op.cur] # <<>>
      <4>1. /\ popped' = Popped(Head(data[op.cur]))
            /\ data' = [data EXCEPT ![op.cur] = Tail(@)]
            /\ op' = Idle
        BY <1>8, <2>3, <3>1, <3>2 DEF pop
      <4>2. Head(data[op.cur]) \in Thread /\ Tail(data[op.cur]) \in Seq(Thread)
        BY <3>1, <3>2 DEF TypeOK
      <4>a. popped' \in [limit : 0 .. NumQueues, thread : Thread \cup {None}]
        BY <2>1, <4>1, <4>2 DEF Popped, WalkOK
      <4>3. TypeOK'
        BY <2>1, <3>1, <4>1, <4>2, <4>a DEF TypeOK, Idle
      <4>4. ChainOK' /\ WalkOK' /\ NoNullDereference'
        BY <2>1, <4>1 DEF ChainOK, WalkOK, NoNullDereference, Idle, IsLinked
      <4>5. NothingStranded'
        BY <2>1, <3>1, <3>2, <4>1 DEF TypeOK, NothingStranded, IsLinked
      <4> QED BY <4>3, <4>4, <4>5
    <3>3. CASE data[op.cur] = <<>>
      <4>1. op' = [op EXCEPT !.cur = next_nonempty[op.cur]] /\ UNCHANGED <<data, popped>>
        BY <1>8, <2>3, <3>1, <3>3 DEF pop
      <4>2. TypeOK' /\ ChainOK' /\ NothingStranded'
        BY <2>1, <3>1, <4>1 DEF TypeOK, ChainOK, NothingStranded, IsLinked
      <4>3. next_nonempty[op.cur] \in Priority \cup {Nullptr}
        BY <2>1, <3>1 DEF TypeOK, WalkOK, IsLinked
      <4>4. WalkOK'
        <5>1. op'.cur \in Priority =>
                 IsLinked(op.cur)' /\ \A q \in Priority : q < op'.cur => data[q] = <<>>
          BY <2>1, <3>1, <3>3, <4>1 DEF TypeOK, ChainOK, WalkOK, NothingStranded, IsLinked
        <5>2. op'.cur = Nullptr => \A q \in Priority : data[q] = <<>>
          BY <2>1, <3>1, <3>3, <4>1 DEF TypeOK, ChainOK, WalkOK, NothingStranded, IsLinked
        <5>3. op.pc = "pop_first_better" => op'.cur \in Priority /\ op'.cur <= op.arg
          BY <2>1, <2>3, <3>1, <4>1, <4>3
             DEF TypeOK, ChainOK, WalkOK, IsLinked, PopContinues
        <5> QED BY <2>1, <4>1, <4>3, <5>1, <5>2, <5>3 DEF TypeOK, WalkOK, IsLinked
      <4> QED BY <4>1, <4>2, <4>4, <2>1 DEF TypeOK, NoNullDereference
    <3> QED BY <3>2, <3>3
  <2> QED BY <2>2, <2>3
<1>9. CASE UNCHANGED vars
  BY <1>9 DEF vars, TypeOK, ChainOK, NothingStranded, WalkOK, NoNullDereference, IsLinked
<1> QED BY <1>1, <1>2, <1>3, <1>4, <1>5, <1>6, <1>7, <1>8, <1>9 DEF Next

\* The inductive invariant holds in every reachable state.
THEOREM Invariance == Spec => []IInv
BY InitIInv, NextIInv, PTL DEF Spec

\* Every link of the list is a level or one of its two tags, and the cursor of an
\* operation under way is a pointer too.
THEOREM QueueTyped == Spec => []TypeOK
BY Invariance, PTL DEF IInv

\* The chain of levels is always sorted and complete.
THEOREM ChainAlwaysOK == Spec => []ChainOK
BY Invariance, PTL DEF IInv

\* pop_first_better never follows a null pointer.
THEOREM NullNeverDereferenced == Spec => []NoNullDereference
BY Invariance, PTL DEF IInv

\* Every level that holds threads is on the chain, so no ready thread is out of
\* the reach of the pops.
THEOREM NeverStranded == Spec => []NothingStranded
BY Invariance, PTL DEF IInv

\* link and the pops end within NumQueues + 1 iterations, as the cursor of link only
\* goes down and the chain leads a pop only up.
THEOREM WalksEnd == Spec => WalksMakeProgress
<1> USE ReadyQueueAssumption DEF Priority, Nullptr, Unlinked, Pointer
<1>1. ASSUME IInv, IInv', link PROVE WalkLeft \in Nat /\ WalkLeft' < WalkLeft
  <2>1. op.pc = "link" /\ op.cur \in -1 .. op.arg - 1 /\ op.arg \in Priority
    BY <1>1 DEF link, IInv, ChainOK
  <2>2. WalkLeft = op.cur + 2
    BY <2>1 DEF WalkLeft
  <2>3. CASE op' = Idle
    <3>1. WalkLeft' = 0
      BY <2>3 DEF WalkLeft, Idle
    <3> QED BY <2>1, <2>2, <3>1
  <2>4. CASE op.cur >= 0 /\ op' = [op EXCEPT !.cur = @ - 1]
    <3>1. op'.pc = "link" /\ op'.cur = op.cur - 1
      BY <1>1, <2>1, <2>4 DEF IInv, TypeOK
    <3>2. WalkLeft' = op.cur + 1
      BY <2>1, <3>1 DEF WalkLeft
    <3> QED BY <2>1, <2>2, <3>2
  <2> QED BY <1>1, <2>3, <2>4 DEF link, FinishLink
<1>2. ASSUME IInv, IInv', pop PROVE WalkLeft \in Nat /\ WalkLeft' < WalkLeft
  <2>1. op.pc \in {"pop_first", "pop_first_better"} /\ op.cur \in Priority \cup {Nullptr}
    BY <1>2 DEF pop, IInv, WalkOK
  <2>2. WalkLeft = IF op.cur = Nullptr THEN 1 ELSE NumQueues - op.cur + 1
    BY <2>1 DEF WalkLeft
  <2>3. WalkLeft \in Nat /\ WalkLeft > 0
    BY <2>1, <2>2
  <2>4. CASE op' = Idle
    <3>1. WalkLeft' = 0
      BY <2>4 DEF WalkLeft, Idle
    <3> QED BY <2>3, <3>1
  <2>5. CASE op' # Idle
    <3>1. op.cur \in Priority /\ op' = [op EXCEPT !.cur = next_nonempty[op.cur]]
      <4>1. op'.pc # "segv"
        BY <1>2 DEF IInv, NoNullDereference
      <4> QED BY <1>2, <2>5, <4>1 DEF pop, IInv, TypeOK
    <3>2. op'.pc = op.pc /\ op'.cur = next_nonempty[op.cur]
      BY <1>2, <3>1 DEF IInv, TypeOK
    <3>3. op'.cur \in Priority \cup {Nullptr}
      BY <1>2, <2>1, <3>2 DEF IInv, WalkOK
    <3>4. op'.cur \in Priority => op.cur < op'.cur
      BY <1>2, <3>1, <3>2 DEF IInv, ChainOK
    <3>5. WalkLeft' = IF op'.cur = Nullptr THEN 1 ELSE NumQueues - op'.cur + 1
      BY <2>1, <3>2 DEF WalkLeft
    <3> QED BY <2>2, <2>3, <3>1, <3>3, <3>4, <3>5
  <2> QED BY <2>4, <2>5
<1>3. IInv /\ IInv' /\ [Next]_vars
        => [link \/ pop => WalkLeft \in Nat /\ WalkLeft' < WalkLeft]_vars
  BY <1>1, <1>2
<1> QED BY <1>3, Invariance, PTL DEF Spec, WalksMakeProgress

\* The linked list implements the abstract priority queue: a step of the list
\* is a step of ReadyQueueSpec on the view, or leaves the view alone.
THEOREM Refinement == Spec => ImplementsPriorityQueue
<1> USE ReadyQueueAssumption DEF Priority, Nullptr, Unlinked, Pointer
<1>1. Init => Abstract!Init
  BY DEF Init, Idle, ReadyView, Abstract!Init, Abstract!Priority
<1>2. IInv /\ IInv' /\ [Next]_vars => [Abstract!Next]_(Abstract!vars)
  <2> SUFFICES ASSUME IInv, IInv', [Next]_vars
               PROVE  Abstract!Next \/ UNCHANGED <<ReadyView, popped>>
    BY DEF Abstract!vars
  <2> USE DEF IInv
  <2>0. Abstract!Priority = Priority
    BY DEF Abstract!Priority
  <2>1. \A s, t : Abstract!Without(s, t) = Without(s, t)
    BY DEF Abstract!Without, Without
  <2>2. ASSUME op.pc # "link" PROVE ReadyView = data
    BY <2>2 DEF ReadyView
  <2>3. ASSUME op'.pc # "link" PROVE ReadyView' = data'
    BY <2>3 DEF ReadyView
  <2>4. op = Idle => op.pc # "link"
    BY DEF Idle
  <2>5. op' = Idle => op'.pc # "link"
    BY DEF Idle
  <2>6. ASSUME NEW p \in Priority, NEW t \in Thread, push_front(p, t) PROVE Abstract!Next
    <3>1. Abstract!PushFront(p, t)
      BY <2>0, <2>2, <2>3, <2>4, <2>5, <2>6
         DEF push_front, MayPush, Queued, Abstract!PushFront, Abstract!Absent
    <3> QED BY <2>0, <3>1 DEF Abstract!Next
  <2>7. ASSUME NEW p \in Priority, NEW t \in Thread, push_back(p, t) PROVE Abstract!Next
    <3>1. Abstract!PushBack(p, t)
      BY <2>0, <2>2, <2>3, <2>4, <2>5, <2>7
         DEF push_back, MayPush, Queued, Abstract!PushBack, Abstract!Absent
    <3> QED BY <2>0, <3>1 DEF Abstract!Next
  <2>8. ASSUME NEW p \in Priority, NEW t \in Thread, remove(p, t) PROVE Abstract!Next
    <3>1. Abstract!Remove(p, t)
      BY <2>0, <2>1, <2>2, <2>3, <2>4, <2>5, <2>8 DEF remove, Abstract!Remove
    <3> QED BY <2>0, <3>1 DEF Abstract!Next
  <2>9. ASSUME NEW p \in Priority, prepare(p) PROVE UNCHANGED <<ReadyView, popped>>
    <3>1. op'.pc = "link" /\ op'.thread = None /\ UNCHANGED <<data, popped>> /\ op = Idle
      BY <2>9 DEF prepare
    <3> QED BY <2>2, <2>4, <3>1 DEF ReadyView
  <2>10. ASSUME NEW t \in Thread, NEW old \in Priority, NEW new \in Priority,
                move(t, old, new)
         PROVE  Abstract!Next
    <3> DEFINE left == [data EXCEPT ![old] = Without(@, t)]
    <3>1. op = Idle /\ popped' = popped /\ ~Queued(left, t)
      BY <2>10 DEF move
    <3>2. ReadyView' = [left EXCEPT ![new] = Append(@, t)]
      <4>1. CASE IsLinked(new)
        BY <2>3, <2>5, <2>10, <3>1, <4>1 DEF move
      <4>2. CASE ~IsLinked(new)
        <5>1. data' = left /\ op'.pc = "link" /\ op'.thread = t /\ op'.arg = new
          BY <2>10, <4>2 DEF move
        <5>2. t # None
          OBVIOUS
        <5> HIDE DEF left
        <5> QED BY <5>1, <5>2 DEF ReadyView
      <4> QED BY <4>1, <4>2
    <3>3. left = [ReadyView EXCEPT ![old] = Abstract!Without(@, t)]
      BY <2>1, <2>2, <2>4, <3>1
    <3>4. Abstract!Absent(left, t)
      BY <2>0, <3>1 DEF Queued, Abstract!Absent
    <3>5. Abstract!Move(t, old, new)
      BY <3>1, <3>2, <3>3, <3>4 DEF Abstract!Move
    <3> QED BY <2>0, <3>5 DEF Abstract!Next
  <2>11. CASE link
    <3>0. op.cur \in Int
      BY CursorIsInt
    <3>1. CASE op.cur >= 0 /\ ~IsLinked(op.cur)
      <4>1. op' = [op EXCEPT !.cur = @ - 1] /\ UNCHANGED <<data, popped>>
        BY <2>11, <3>0, <3>1 DEF link
      <4>2. op'.pc = op.pc /\ op'.arg = op.arg /\ op'.thread = op.thread
        BY <4>1 DEF TypeOK
      <4> QED BY <4>1, <4>2 DEF ReadyView
    <3>2. CASE ~(op.cur >= 0 /\ ~IsLinked(op.cur))
      <4>1. FinishLink /\ op.pc = "link"
        BY <2>11, <3>2 DEF link
      <4> QED BY <2>3, <2>5, <4>1 DEF FinishLink, ReadyView
    <3> QED BY <3>1, <3>2
  <2>12. CASE CallPop
    <3>1. op = Idle /\ op'.pc # "link" /\ UNCHANGED <<data, popped>>
      BY <2>12 DEF CallPop
    <3> QED BY <2>2, <2>3, <2>4, <3>1
  <2>13. CASE pop
    <3>1. op.pc \in {"pop_first", "pop_first_better"} /\ ReadyView = data
      BY <2>2, <2>13 DEF pop
    <3> DEFINE stop == IF op.pc = "pop_first" THEN NumQueues ELSE op.arg
    <3>2. stop \in 0 .. NumQueues
      BY <3>1 DEF WalkOK
    <3>3. CASE ~PopContinues
      <4>1. op' = Idle /\ popped' = [limit |-> stop, thread |-> None] /\ data' = data
        BY <2>13, <3>3 DEF pop, Popped
      <4>2. \A p \in Priority : p < stop => data[p] = <<>>
        BY <3>1, <3>3 DEF PopContinues, WalkOK, TypeOK
      <4>3. Abstract!Pop(stop)
        BY <2>0, <2>3, <2>5, <3>1, <4>1, <4>2 DEF Abstract!Pop
      <4> QED BY <3>2, <4>3 DEF Abstract!Next
    <3>4. CASE PopContinues /\ data[op.cur] # <<>>
      <4>1. op.cur \in Priority
        BY <3>1, <3>4 DEF PopContinues, WalkOK
      <4>2. /\ op' = Idle /\ popped' = [limit |-> stop, thread |-> Head(data[op.cur])]
            /\ data' = [data EXCEPT ![op.cur] = Tail(@)]
        BY <2>13, <3>4, <4>1 DEF pop, Popped
      <4>3. op.cur < stop /\ \A q \in Priority : q < op.cur => data[q] = <<>>
        BY <3>1, <3>4, <4>1 DEF PopContinues, WalkOK
      <4>4. Abstract!Pop(stop)
        BY <2>0, <2>3, <2>5, <3>1, <3>4, <4>1, <4>2, <4>3 DEF Abstract!Pop
      <4> QED BY <3>2, <4>4 DEF Abstract!Next
    <3>5. CASE PopContinues /\ data[op.cur] = <<>>
      <4>1. op.cur \in Priority
        BY <3>1, <3>5 DEF PopContinues, WalkOK
      <4>2. op' = [op EXCEPT !.cur = next_nonempty[op.cur]] /\ UNCHANGED <<data, popped>>
        BY <2>13, <3>5, <4>1 DEF pop
      <4>3. op'.pc = op.pc
        BY <4>2 DEF TypeOK
      <4> QED BY <2>3, <3>1, <4>2, <4>3
    <3> QED BY <3>3, <3>4, <3>5
  <2>14. CASE UNCHANGED vars
    BY <2>14 DEF vars, ReadyView
  <2> QED BY <2>6, <2>7, <2>8, <2>9, <2>10, <2>11, <2>12, <2>13, <2>14 DEF Next
<1> QED BY <1>1, <1>2, Invariance, PTL DEF Spec, ImplementsPriorityQueue, Abstract!Spec
===============================================================================
