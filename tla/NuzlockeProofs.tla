---------------------------- MODULE NuzlockeProofs ----------------------------
(***************************************************************************)
(* The rules of the challenge for any routes, party, balls and items.      *)
(*                                                                         *)
(* Captures.  A route is marked when an ordinary battle on it is noticed   *)
(* by a player who has had a ball.  A player with a ball in the pocket has *)
(* had one, so the first battle in which a ball can be thrown is marked    *)
(* and later ones take the balls away.                                     *)
(*                                                                         *)
(* Deaths.  Until a battle is over a mark is on a battle slot whose        *)
(* pokemon fainted in it, and what was read for the slot is that pokemon   *)
(* or matches nothing.  Outside battle there are no marks.                 *)
(*                                                                         *)
(* Items.  While balls are away the pocket holds none, and the player has  *)
(* one stack of each item.                                                 *)
(***************************************************************************)
EXTENDS Nuzlocke, ListProofs, SequenceTheorems

\* TypeOK without the bounds that depend on what the player owns.
Basics ==
    /\ battle \in Kind \cup {"none"} /\ route \in Routes /\ order \in Order
    /\ hp0 \subseteq Slot /\ dead \subseteq Slot
    /\ overCap \in BOOLEAN /\ candies \in BOOLEAN
    /\ pocket \in Seq(Item)
    /\ g_wasInBattle \in BOOLEAN /\ g_pending_delete \subseteq Slot
    /\ g_battleData \in [Slot -> Slot \cup {None}]
    /\ pokemonCarried \in 0 .. PartySize
    /\ g_RemovedPokeBalls \in [1 .. 16 -> Item \cup {None}]
    /\ haspkb \in BOOLEAN /\ visRou \subseteq Routes
    /\ fainted \subseteq Slot /\ captures \in [Routes -> Seq(Kind)]

-------------------------------------------------------------------------------
(* The pocket                                                              *)

\* Entries kept by the supervisor are balls in the place of their id, and there
\* are some only after a battle began.
Kept ==
    /\ \A i \in 1 .. 16 : g_RemovedPokeBalls[i] # None =>
         IsBall(g_RemovedPokeBalls[i]) /\ RemovedIndex(g_RemovedPokeBalls[i].id) = i
    /\ ~g_wasInBattle => g_RemovedPokeBalls = NothingRemoved

\* RemovePokeballs takes the balls out of the pocket and keeps entries of it.
LEMMA TakeBallsPocket ==
    ASSUME Basics, TakeBalls
    PROVE  /\ pocket' \in Seq(Item)
           /\ ToSet(pocket') = {e \in ToSet(pocket) : ~IsBall(e)}
           /\ IsInjective(pocket) => IsInjective(pocket')
<1>1. PICK S : S = {item \in ToSet(pocket) : ~IsBall(item)}
  OBVIOUS
<1>2. PICK p : p = pocket
  OBVIOUS
<1>3. pocket' = Keep(p, S) /\ p \in Seq(Item)
  BY <1>1, <1>2 DEF TakeBalls, Basics
<1>4. /\ Keep(p, S) \in Seq(Item) /\ ToSet(Keep(p, S)) = ToSet(p) \cap S
      /\ IsInjective(p) => IsInjective(Keep(p, S))
  BY <1>3, KeepProperties
<1>5. ToSet(p) \cap S = S
  BY <1>1, <1>2
<1> QED BY <1>1, <1>2, <1>3, <1>4, <1>5

LEMMA TakeBallsKeeps ==
    ASSUME Basics, TakeBalls, NEW i \in 1 .. 16
    PROVE  /\ g_RemovedPokeBalls' \in [1 .. 16 -> Item \cup {None}]
           /\ \/ /\ g_RemovedPokeBalls'[i] = g_RemovedPokeBalls[i]
                 /\ \A e \in ToSet(pocket) : IsBall(e) => RemovedIndex(e.id) # i
              \/ /\ g_RemovedPokeBalls'[i] \in ToSet(pocket)
                 /\ IsBall(g_RemovedPokeBalls'[i]) /\ RemovedIndex(g_RemovedPokeBalls'[i].id) = i
<1>1. pocket \in Seq(Item) /\ g_RemovedPokeBalls \in [1 .. 16 -> Item \cup {None}]
  BY DEF Basics
<1>2. ASSUME NEW j \in 1 .. 16
      PROVE  \/ /\ RemovedAt(j) = g_RemovedPokeBalls[j]
                /\ \A e \in ToSet(pocket) : IsBall(e) => RemovedIndex(e.id) # j
             \/ /\ RemovedAt(j) \in ToSet(pocket) /\ IsBall(RemovedAt(j))
                /\ RemovedIndex(RemovedAt(j).id) = j
  <2> DEFINE at == {k \in DOMAIN pocket : IsBall(pocket[k]) /\ RemovedIndex(pocket[k].id) = j}
             last == CHOOSE k \in at : \A l \in at : l <= k
  <2>1. CASE at = {}
    <3>1. RemovedAt(j) = g_RemovedPokeBalls[j]
      BY <2>1 DEF RemovedAt
    <3>2. \A e \in ToSet(pocket) : IsBall(e) => RemovedIndex(e.id) # j
      BY <2>1 DEF ToSet
    <3> QED BY <3>1, <3>2
  <2>2. CASE at # {}
    <3>1. at \in SUBSET (1 .. Len(pocket)) /\ Len(pocket) \in Nat
      BY <1>1
    <3>2. \E k \in at : \A l \in at : l <= k
      <4>1. PICK T, n : T = at /\ n = Len(pocket)
        OBVIOUS
      <4>2. n \in Nat /\ T \in SUBSET (1 .. n) /\ T # {}
        BY <2>2, <3>1, <4>1
      <4>3. \E k \in T : \A l \in T : l <= k
        BY <4>2, GreatestNumber
      <4> QED BY <4>1, <4>3
    <3>3. last \in at
      BY <3>2
    <3>4. RemovedAt(j) = pocket[last]
      BY <2>2 DEF RemovedAt
    <3> HIDE DEF last
    <3> QED BY <3>3, <3>4 DEF ToSet
  <2> QED BY <2>1, <2>2
<1>3. g_RemovedPokeBalls' = [j \in 1 .. 16 |-> RemovedAt(j)]
  BY DEF TakeBalls
<1>4. ToSet(pocket) \subseteq Item
  BY <1>1 DEF ToSet
<1>5. \A j \in 1 .. 16 : RemovedAt(j) \in Item \cup {None}
  BY <1>1, <1>2, <1>4
<1> QED BY <1>2, <1>3, <1>5

\* The array g_RemovedPokeBalls as a list.
LEMMA RemovedIsList ==
    ASSUME NEW g \in [1 .. 16 -> Item \cup {None}]
    PROVE  g \in Seq(Item \cup {None})
<1>1. PICK T, n : T = Item \cup {None} /\ n = 16
  OBVIOUS
<1>2. g \in [1 .. n -> T] /\ n \in Nat
  BY <1>1
<1>3. \A i \in 1 .. n : g[i] \in T
  BY <1>2
<1>4. [i \in 1 .. n |-> g[i]] \in Seq(T)
  BY <1>2, <1>3, IsASeq
<1>5. g = [i \in 1 .. n |-> g[i]]
  BY <1>2
<1> QED BY <1>1, <1>4, <1>5

\* RestorePokeballs puts what was kept before what is in the pocket.
LEMMA RestoredPocket ==
    ASSUME Basics, RestorePokeballs
    PROVE  /\ pocket' \in Seq(Item) /\ g_RemovedPokeBalls' = NothingRemoved
           /\ ToSet(pocket') \subseteq ToSet(Returned) \cup ToSet(pocket)
           /\ Returned \in Seq(Item) /\ ToSet(Returned) = ToSet(g_RemovedPokeBalls) \ {None}
<1>1. PICK g, S, p, ret : /\ g = g_RemovedPokeBalls /\ S = ToSet(g) \ {None}
                          /\ p = pocket /\ ret = Keep(g, S)
  OBVIOUS
<1>2. g \in Seq(Item \cup {None}) /\ p \in Seq(Item)
  <2>1. g \in [1 .. 16 -> Item \cup {None}] /\ p \in Seq(Item)
    BY <1>1 DEF Basics
  <2> QED BY <2>1, RemovedIsList
<1>3. ret \in Seq(Item \cup {None}) /\ ToSet(ret) = ToSet(g) \cap S
  BY <1>1, <1>2, KeepProperties
<1>4. ToSet(ret) = S /\ S \subseteq Item
  <2>1. ToSet(g) \subseteq Item \cup {None}
    BY <1>2 DEF ToSet
  <2> QED BY <1>1, <1>3, <2>1
<1>5. ret \in Seq(Item)
  BY <1>3, <1>4, ListOver
<1>6. ret \o p \in Seq(Item) /\ ToSet(ret \o p) = ToSet(ret) \cup ToSet(p)
  BY <1>2, <1>5, JoinedLists
<1>7. PICK full : full = ret \o p
  OBVIOUS
<1>8. PICK n : n = IF Len(full) < SLOT_COUNT THEN Len(full) ELSE SLOT_COUNT
  OBVIOUS
<1>9. full \in Seq(Item) /\ n \in Nat /\ n <= Len(full)
  BY <1>6, <1>7, <1>8, NuzlockeAssumption
<1>10. SubSeq(full, 1, n) \in Seq(Item) /\ ToSet(SubSeq(full, 1, n)) \subseteq ToSet(full)
  BY <1>9, Prefix
<1>11. Returned = ret
  BY <1>1 DEF Returned
<1>12. pocket' = SubSeq(full, 1, n) /\ g_RemovedPokeBalls' = NothingRemoved
  BY <1>1, <1>7, <1>8, <1>11 DEF RestorePokeballs
<1> QED BY <1>1, <1>4, <1>5, <1>6, <1>7, <1>10, <1>11, <1>12

\* An item that is found joins its stack or opens one.
LEMMA GainedPocket ==
    ASSUME Basics, NEW id \in Balls \cup Goods, Gains(id)
    PROVE  /\ pocket' \in Seq(Item)
           /\ \A e \in ToSet(pocket') : e \in ToSet(pocket) \/ e.id = id
<1>1. pocket \in Seq(Item)
  BY DEF Basics
<1>2. CASE \E k \in Index(id) : pocket' = [pocket EXCEPT ![k].qty = @ + 1]
  <2>1. PICK k \in Index(id) : pocket' = [pocket EXCEPT ![k].qty = @ + 1]
    BY <1>2
  <2>2. k \in DOMAIN pocket /\ pocket[k] \in Item /\ pocket[k].id = id
    BY <1>1, <2>1 DEF Index
  <2>3. PICK e : e = [pocket[k] EXCEPT !.qty = @ + 1]
    OBVIOUS
  <2>4. e \in Item /\ e.id = id
    BY <2>2, <2>3 DEF Item
  <2>5. pocket' = [pocket EXCEPT ![k] = e]
    BY <2>1, <2>3
  <2>6. /\ pocket' \in Seq(Item) /\ DOMAIN pocket' = DOMAIN pocket
        /\ \A j \in DOMAIN pocket : pocket'[j] = IF j = k THEN e ELSE pocket[j]
    BY <1>1, <2>2, <2>4, <2>5
  <2> QED BY <2>4, <2>6 DEF ToSet
<1>3. CASE Index(id) = {} /\ pocket' = Append(pocket, [id |-> id, qty |-> 1])
  <2>1. PICK e : e = [id |-> id, qty |-> 1]
    OBVIOUS
  <2>2. e \in Item /\ e.id = id
    BY <2>1 DEF Item
  <2>3. pocket' = Append(pocket, e)
    BY <1>3, <2>1
  <2>4. /\ pocket' \in Seq(Item) /\ DOMAIN pocket' = 1 .. Len(pocket) + 1
        /\ \A j \in 1 .. Len(pocket) + 1 : pocket'[j] = IF j = Len(pocket) + 1 THEN e ELSE pocket[j]
        /\ DOMAIN pocket = 1 .. Len(pocket) /\ Len(pocket) \in Nat
    BY <1>1, <2>2, <2>3
  <2>5. \A j \in 1 .. Len(pocket) + 1 : j = Len(pocket) + 1 \/ j \in DOMAIN pocket
    BY <2>4
  <2> QED BY <2>2, <2>4, <2>5 DEF ToSet
<1> QED BY <1>2, <1>3 DEF Gains

\* An item that is used leaves its stack.
LEMMA UsedPocket ==
    ASSUME Basics, NEW k \in DOMAIN pocket, pocket' = UseUp(k)
    PROVE  /\ pocket' \in Seq(Item)
           /\ \A e \in ToSet(pocket') : \E f \in ToSet(pocket) : f.id = e.id
<1>1. pocket \in Seq(Item) /\ pocket[k] \in Item
  BY DEF Basics
<1>2. CASE pocket[k].qty = 1
  <2>1. PICK p : p = pocket
    OBVIOUS
  <2>2. RemoveAt(p, k) \in Seq(Item) /\ ToSet(RemoveAt(p, k)) \subseteq ToSet(p)
    BY <1>1, <2>1, RemoveAtProperties
  <2> QED BY <1>2, <2>1, <2>2 DEF UseUp
<1>3. CASE pocket[k].qty # 1
  <2>1. PICK e : e = [pocket[k] EXCEPT !.qty = @ - 1]
    OBVIOUS
  <2>2. e \in Item /\ e.id = pocket[k].id
    BY <1>1, <1>3, <2>1 DEF Item
  <2>3. pocket' = [pocket EXCEPT ![k] = e]
    BY <1>3, <2>1 DEF UseUp
  <2>4. /\ pocket' \in Seq(Item) /\ DOMAIN pocket' = DOMAIN pocket
        /\ \A j \in DOMAIN pocket : pocket'[j] = IF j = k THEN e ELSE pocket[j]
    BY <1>1, <2>2, <2>3
  <2> QED BY <2>2, <2>4 DEF ToSet
<1> QED BY <1>2, <1>3

\* Outside battle the party is in its order.
LEMMA Unordered == [i \in Slot |-> i] \in Order
BY DEF Order

-------------------------------------------------------------------------------
(* The invariant                                                           *)

\* A player with the ball 576 has had another ball before.
Flagged ==
    /\ \A e \in ToSet(pocket) : e.id = 576 => haspkb
    /\ \A i \in 1 .. 16 : g_RemovedPokeBalls[i] # None /\ g_RemovedPokeBalls[i].id = 576 => haspkb

HoldsBall == \E e \in ToSet(pocket) : IsBall(e)

\* Where something was captured no ball can be thrown at an ordinary pokemon, and
\* at others never.
Marks ==
    /\ \A r \in Routes : captures[r] # <<>> => r \in visRou
    /\ isBattle /\ g_wasInBattle /\ HoldsBall =>
         \/ battle \in {"trainer", "delta", "shiny"}
         \/ battle = "wild" /\ captures[route] = <<>> /\ route \in visRou

RouteInv == Flagged /\ Marks /\ OneCapturePerRoute

\* During a battle: marks are on pokemon that fainted, and what was read for a slot
\* is its pokemon or matches nothing.
Fighting ==
    isBattle =>
      /\ hp0 \subseteq fainted
      /\ \A b \in g_pending_delete : order[b] \in fainted
      /\ g_wasInBattle => \A b \in Slot : g_battleData[b] \in {order[b], None}

\* After it, before the sample that notices, and between battles.
Over ==
    ~isBattle =>
      IF g_wasInBattle THEN \A b \in g_pending_delete : g_battleData[b] \in fainted \cup {None}
      ELSE g_pending_delete = {}

Inv == Basics /\ Kept /\ RouteInv /\ Fighting /\ Over

LEMMA InitInv == Init => Inv
<1> SUFFICES ASSUME Init PROVE Inv
  OBVIOUS
<1> USE DEF Init
<1>1. Basics
  <2>1. pokemonCarried \in 0 .. PartySize
    BY NuzlockeAssumption
  <2>2. pocket \in Seq(Item)
    OBVIOUS
  <2>3. captures \in [Routes -> Seq(Kind)]
    OBVIOUS
  <2>4. order \in Order
    BY Unordered
  <2>5. g_RemovedPokeBalls \in [1 .. 16 -> Item \cup {None}]
    BY DEF NothingRemoved
  <2> QED BY <2>1, <2>2, <2>3, <2>4, <2>5 DEF Basics
<1>2. Kept
  BY DEF Kept, NothingRemoved
<1>3. ToSet(pocket) = {}
  BY DEF ToSet
<1>4. RouteInv
  BY <1>3 DEF RouteInv, Flagged, Marks, OneCapturePerRoute, HoldsBall, NothingRemoved, isBattle
<1>5. Fighting /\ Over
  BY DEF Fighting, Over, isBattle
<1> QED BY <1>1, <1>2, <1>4, <1>5 DEF Inv

-------------------------------------------------------------------------------
(* Steps of the game                                                       *)

LEMMA BattleBeginsInv ==
    ASSUME Inv, NEW k \in Kind, NEW r \in Routes, NEW f \in Order, BattleBegins(k, r, f)
    PROVE  Inv'
<1> USE DEF Inv, BattleBegins, supVars, fileVars
<1>1. Basics'
  BY DEF Basics
<1>2. Kept'
  BY DEF Kept
<1>3. ~g_wasInBattle /\ g_pending_delete = {} /\ isBattle'
  BY DEF Noticed, isBattle, Over, Kind
<1>4. RouteInv'
  BY <1>3 DEF RouteInv, Flagged, Marks, OneCapturePerRoute
<1>5. Fighting' /\ Over'
  BY <1>3 DEF Fighting, Over
<1> QED BY <1>1, <1>2, <1>4, <1>5

LEMMA BattleEndsInv ==
    ASSUME Inv, BattleEnds
    PROVE  Inv'
<1> USE DEF Inv, BattleEnds, supVars, fileVars, histVars
<1>1. Basics'
  BY Unordered DEF Basics
<1>2. Kept'
  BY DEF Kept
<1>3. g_wasInBattle /\ isBattle /\ ~isBattle'
  BY DEF Noticed, isBattle
<1>4. RouteInv'
  BY <1>3 DEF RouteInv, Flagged, Marks, OneCapturePerRoute
<1>5. \A b \in g_pending_delete : g_battleData[b] \in fainted \cup {None}
  <2> SUFFICES ASSUME NEW b \in g_pending_delete PROVE g_battleData[b] \in fainted \cup {None}
    OBVIOUS
  <2>1. order[b] \in fainted /\ g_battleData[b] \in {order[b], None}
    BY <1>3 DEF Fighting, Basics
  <2> QED BY <2>1
<1>6. Fighting' /\ Over'
  BY <1>3, <1>5 DEF Fighting, Over
<1> QED BY <1>1, <1>2, <1>4, <1>6

LEMMA UsesMoveInv ==
    ASSUME Inv, NEW s \in Slot, UsesMove(s)
    PROVE  Inv'
<1> USE DEF Inv, UsesMove, gameVars, fileVars, histVars
<1>1. Basics'
  BY DEF Basics
<1>2. Kept'
  BY DEF Kept
<1>3. isBattle /\ isBattle'
  BY DEF isBattle
<1>4. RouteInv'
  BY <1>3 DEF RouteInv, Flagged, Marks, OneCapturePerRoute, HoldsBall
<1>5. \A b \in Slot : g_battleData'[b] \in {g_battleData[b], None}
  BY DEF Basics
<1>6. Fighting' /\ Over'
  BY <1>3, <1>5 DEF Fighting, Over
<1> QED BY <1>1, <1>2, <1>4, <1>6

LEMMA FaintsInv ==
    ASSUME Inv, NEW s \in Slot, Faints(s)
    PROVE  Inv'
<1> USE DEF Inv, Faints, supVars, fileVars
<1>0. order[s] \in Slot
  BY DEF Basics, Order
<1>1. Basics'
  BY <1>0 DEF Basics
<1>2. Kept'
  BY DEF Kept
<1>3. isBattle /\ isBattle'
  BY DEF isBattle
<1>4. RouteInv'
  BY <1>3 DEF RouteInv, Flagged, Marks, OneCapturePerRoute, HoldsBall
<1>5. Fighting' /\ Over'
  BY <1>3 DEF Fighting, Over
<1> QED BY <1>1, <1>2, <1>4, <1>5

LEMMA HealsInv ==
    ASSUME Inv, Heals
    PROVE  Inv'
<1> USE DEF Inv, Heals, fileVars, histVars
<1>1. Basics'
  BY DEF Basics
<1>2. Kept'
  BY DEF Kept
<1>3. ~isBattle /\ ~isBattle'
  BY DEF isBattle
<1>4. RouteInv'
  BY <1>3 DEF RouteInv, Flagged, Marks, OneCapturePerRoute
<1>5. \A b \in Slot : g_battleData'[b] = None
  OBVIOUS
<1>6. Fighting' /\ Over'
  BY <1>3, <1>5 DEF Fighting, Over, Basics
<1> QED BY <1>1, <1>2, <1>4, <1>6

\* Experience and candies have no part in the rules.
LEMMA LevelsInv ==
    ASSUME Inv, GainsExperience \/ GetsCandies
    PROVE  Inv'
<1> USE DEF Inv, GainsExperience, GetsCandies, supVars, fileVars, histVars
<1>1. Basics'
  BY DEF Basics
<1>2. UNCHANGED <<battle, route, order, hp0, pocket, g_wasInBattle, g_pending_delete,
                  g_battleData, g_RemovedPokeBalls, haspkb, visRou, fainted, captures>>
  OBVIOUS
<1>3. Kept'
  BY <1>2 DEF Kept
<1>4. RouteInv'
  BY <1>2 DEF RouteInv, Flagged, Marks, OneCapturePerRoute, HoldsBall, isBattle
<1>5. Fighting' /\ Over'
  BY <1>2 DEF Fighting, Over, isBattle
<1> QED BY <1>1, <1>3, <1>4, <1>5

LEMMA GainsInv ==
    ASSUME Inv, NEW id \in Balls \cup Goods, Gains(id)
    PROVE  Inv'
<1>1. /\ ~isBattle /\ (id = 576 => haspkb)
      /\ UNCHANGED <<battle, route, order, hp0, dead, overCap, candies, supVars, fileVars,
                     fainted, captures>>
  BY DEF Gains
<1>2. /\ pocket' \in Seq(Item)
      /\ \A e \in ToSet(pocket') : e \in ToSet(pocket) \/ e.id = id
  BY GainedPocket DEF Inv
<1> USE DEF supVars, fileVars
<1>3. Basics'
  BY <1>1, <1>2 DEF Inv, Basics
<1>4. Kept'
  BY <1>1 DEF Inv, Kept
<1>5. Flagged'
  BY <1>1, <1>2 DEF Inv, RouteInv, Flagged
<1>6. Marks' /\ OneCapturePerRoute'
  BY <1>1 DEF Inv, RouteInv, Marks, OneCapturePerRoute, isBattle
<1>7. Fighting' /\ Over'
  BY <1>1 DEF Inv, Fighting, Over, isBattle
<1> QED BY <1>3, <1>4, <1>5, <1>6, <1>7 DEF Inv, RouteInv

LEMMA UsesInv ==
    ASSUME Inv, NEW k \in DOMAIN pocket, Uses(k)
    PROVE  Inv'
<1>1. /\ pocket' = UseUp(k)
      /\ UNCHANGED <<battle, route, order, hp0, dead, overCap, candies, supVars, fileVars,
                     fainted, captures>>
  BY DEF Uses
<1>2. /\ pocket' \in Seq(Item)
      /\ \A e \in ToSet(pocket') : \E f \in ToSet(pocket) : f.id = e.id
  BY <1>1, UsedPocket DEF Inv
<1> USE DEF supVars, fileVars
<1>3. Basics'
  BY <1>1, <1>2 DEF Inv, Basics
<1>4. Kept'
  BY <1>1 DEF Inv, Kept
<1>5. Flagged'
  BY <1>1, <1>2 DEF Inv, RouteInv, Flagged
<1>6. HoldsBall' => HoldsBall
  BY <1>2 DEF HoldsBall, IsBall
<1>7. Marks' /\ OneCapturePerRoute'
  BY <1>1, <1>6 DEF Inv, RouteInv, Marks, OneCapturePerRoute, isBattle
<1>8. Fighting' /\ Over'
  BY <1>1 DEF Inv, Fighting, Over, isBattle
<1> QED BY <1>3, <1>4, <1>5, <1>7, <1>8 DEF Inv, RouteInv

\* A ball can only be thrown where a capture is due.
LEMMA ThrowsInv ==
    ASSUME Inv, NEW k \in DOMAIN pocket, NEW caught \in BOOLEAN, Throws(k, caught)
    PROVE  Inv'
<1>1. /\ isBattle /\ g_wasInBattle /\ battle # "trainer" /\ IsBall(pocket[k])
      /\ pocket' = UseUp(k)
      /\ UNCHANGED <<route, hp0, dead, overCap, candies, supVars, fileVars, fainted>>
  BY DEF Throws, Noticed, Inv, Basics
<1>2. /\ pocket' \in Seq(Item)
      /\ \A e \in ToSet(pocket') : \E f \in ToSet(pocket) : f.id = e.id
  BY <1>1, UsedPocket DEF Inv
<1> USE DEF supVars, fileVars
<1>3. HoldsBall
  BY <1>1 DEF HoldsBall, ToSet
<1>4. \/ battle \in {"delta", "shiny"}
      \/ battle = "wild" /\ captures[route] = <<>> /\ route \in visRou
  BY <1>1, <1>3 DEF Inv, RouteInv, Marks
<1>5. \/ captures' = captures
      \/ /\ caught /\ battle = "wild" /\ route \in visRou
         /\ captures' = [captures EXCEPT ![route] = <<"wild">>]
  <2>1. CASE caught /\ battle \notin {"shiny", "delta"}
    <3>1. battle = "wild" /\ captures[route] = <<>> /\ route \in visRou
      BY <1>4, <2>1
    <3>2. Append(captures[route], battle) = <<"wild">>
      BY <3>1
    <3>3. captures' = [captures EXCEPT ![route] = Append(captures[route], battle)]
      BY <2>1 DEF Throws
    <3> QED BY <2>1, <3>1, <3>2, <3>3
  <2>2. CASE ~(caught /\ battle \notin {"shiny", "delta"})
    BY <2>2 DEF Throws
  <2> QED BY <2>1, <2>2
<1>6. captures' \in [Routes -> Seq(Kind)] /\ OneCapturePerRoute'
  <2>1. <<"wild">> \in Seq(Kind)
    BY DEF Kind
  <2> QED BY <1>5, <2>1 DEF Inv, Basics, RouteInv, OneCapturePerRoute
<1>7. CASE caught
  <2>1. battle' = "none" /\ order' = [i \in Slot |-> i]
    BY <1>7 DEF Throws
  <2>2. Basics'
    BY <1>1, <1>2, <1>6, <2>1, Unordered DEF Inv, Basics
  <2>3. Kept'
    BY <1>1 DEF Inv, Kept
  <2>4. Flagged'
    BY <1>1, <1>2, SMTT(30) DEF Inv, RouteInv, Flagged
  <2>5. Marks'
    BY <1>1, <1>5, <2>1 DEF Inv, Basics, RouteInv, Marks, isBattle
  <2>6. \A b \in g_pending_delete : g_battleData[b] \in fainted \cup {None}
    <3> SUFFICES ASSUME NEW b \in g_pending_delete PROVE g_battleData[b] \in fainted \cup {None}
      OBVIOUS
    <3>1. order[b] \in fainted /\ g_battleData[b] \in {order[b], None}
      BY <1>1 DEF Inv, Fighting, Basics
    <3> QED BY <3>1
  <2>7. Fighting' /\ Over'
    BY <1>1, <2>1, <2>6 DEF Fighting, Over, isBattle
  <2> QED BY <1>6, <2>2, <2>3, <2>4, <2>5, <2>7 DEF Inv, RouteInv
<1>8. CASE ~caught
  <2>1. battle' = battle /\ order' = order /\ captures' = captures
    BY <1>8 DEF Throws
  <2>2. Basics'
    BY <1>1, <1>2, <2>1 DEF Inv, Basics
  <2>3. Kept'
    BY <1>1 DEF Inv, Kept
  <2>4. Flagged'
    BY <1>1, <1>2, SMTT(30) DEF Inv, RouteInv, Flagged
  <2>5. Marks'
    BY <1>1, <1>3, <2>1 DEF Inv, RouteInv, Marks, isBattle
  <2>6. Fighting' /\ Over'
    BY <1>1, <2>1 DEF Inv, Fighting, Over, isBattle
  <2> QED BY <1>6, <2>2, <2>3, <2>4, <2>5, <2>6 DEF Inv, RouteInv
<1> QED BY <1>7, <1>8

LEMMA RestartsInv ==
    ASSUME Inv, Restarts
    PROVE  Inv'
<1> USE DEF Restarts, gameVars, fileVars
<1>1. Basics'
  <2>1. pokemonCarried' \in 0 .. PartySize
    BY NuzlockeAssumption
  <2>2. g_RemovedPokeBalls' \in [1 .. 16 -> Item \cup {None}]
    BY DEF NothingRemoved
  <2> QED BY <2>1, <2>2 DEF Inv, Basics
<1>2. Kept'
  BY DEF Kept, NothingRemoved
<1>3. Flagged'
  BY DEF Inv, RouteInv, Flagged, NothingRemoved
<1>4. Marks' /\ OneCapturePerRoute'
  BY DEF Inv, RouteInv, Marks, OneCapturePerRoute
<1>5. Fighting' /\ Over'
  BY DEF Inv, Fighting, Over, isBattle
<1> QED BY <1>1, <1>2, <1>3, <1>4, <1>5 DEF Inv, RouteInv

-------------------------------------------------------------------------------
(* Samples                                                                 *)

\* The pokemon CheckDeadPokemon marks have fainted in this battle.
LEMMA DyingFainted ==
    ASSUME Inv
    PROVE  /\ Dying \subseteq Slot /\ (~isBattle => Dying = {})
           /\ \A b \in Dying : order[b] \in fainted
<1>1. 1 .. pokemonCarried \subseteq Slot
  BY NuzlockeAssumption DEF Inv, Basics, Slot
<1> QED BY <1>1 DEF Dying, Inv, Fighting

LEMMA CheckDeadPokemonInv ==
    ASSUME Inv, CheckDeadPokemon
    PROVE  Inv'
<1> USE DEF CheckDeadPokemon, gameVars, fileVars, histVars
<1>1. Basics'
  BY DyingFainted DEF Inv, Basics
<1>2. Kept'
  BY DEF Inv, Kept
<1>3. RouteInv'
  BY DEF Inv, RouteInv, Flagged, Marks, OneCapturePerRoute, HoldsBall, isBattle
<1>4. Fighting' /\ Over'
  BY DyingFainted DEF Inv, Fighting, Over, isBattle
<1> QED BY <1>1, <1>2, <1>3, <1>4 DEF Inv

\* What is read for a battle slot is its pokemon, or nothing.
LEMMA ReadBattleData ==
    ASSUME Basics
    PROVE  /\ ReadBattle \in [Slot -> Slot \cup {None}]
           /\ isBattle => \A b \in Slot : ReadBattle[b] \in {order[b], None}
           /\ ~isBattle => ReadBattle = g_battleData
<1>1. \A b \in Slot : order[b] \in Slot /\ g_battleData[b] \in Slot \cup {None}
  BY DEF Basics, Order
<1>2. ReadBattle = [b \in Slot |-> IF ~isBattle THEN g_battleData[b]
                                   ELSE IF b <= pokemonCarried THEN order[b] ELSE None]
  BY DEF ReadBattle
<1>3. ~isBattle => ReadBattle = g_battleData
  BY <1>2 DEF Basics
<1>4. \A b \in Slot : ReadBattle[b] = IF ~isBattle THEN g_battleData[b]
                                      ELSE IF b <= pokemonCarried THEN order[b] ELSE None
  BY <1>2
<1>5. \A b \in Slot : ReadBattle[b] \in Slot \cup {None}
  BY <1>1, <1>4
<1> QED BY <1>2, <1>3, <1>4, <1>5

\* What a sample does in any case.
LEMMA ExportPartyCommon ==
    ASSUME Inv, ExportParty
    PROVE  /\ pokemonCarried' \in 0 .. PartySize /\ g_wasInBattle' = isBattle
           /\ overCap' \in BOOLEAN /\ candies' \in BOOLEAN
           /\ UNCHANGED <<battle, route, order, owned, captures>>
<1>1. pokemonCarried' \in 0 .. PartySize
  BY NuzlockeAssumption DEF ExportParty
<1>2. overCap' \in BOOLEAN /\ candies' \in BOOLEAN
  BY DEF ExportParty, LevelCapAdjustment, Inv, Basics
<1> QED BY <1>1, <1>2 DEF ExportParty

\* OnBattleEnded: the balls come back, and those die who fainted.
LEMMA BattleEndedDead ==
    ASSUME Inv, ExportParty, g_wasInBattle, ~isBattle
    PROVE  /\ dead' \subseteq dead \cup (fainted \cap Slot)
           /\ hp0' \subseteq hp0 \cup Slot
           /\ g_battleData' \in [Slot -> Slot \cup {None}]
           /\ g_pending_delete' = {} /\ fainted' = {}
<1>1. Dying = {} /\ ReadBattle = g_battleData
  BY DyingFainted, ReadBattleData DEF Inv
<1>2. DeleteFaintedPokemon(ReadBattle, g_pending_delete \cup Dying) /\ fainted' = {}
  BY DEF ExportParty
<1>3. PICK data, marked : data = g_battleData /\ marked = g_pending_delete
  OBVIOUS
<1>4. DeleteFaintedPokemon(data, marked)
  BY <1>1, <1>2, <1>3
<1>5. Converted(data, marked) \subseteq fainted \cap Slot
  <2> SUFFICES ASSUME NEW s \in Slot, NEW b \in marked, data[b] = s PROVE s \in fainted
    BY DEF Converted
  <2>1. data[b] \in fainted \cup {None}
    BY <1>3 DEF Inv, Over
  <2> QED BY <2>1, NuzlockeAssumption
<1>6. \A b \in Slot : data[b] \in Slot \cup {None}
  BY <1>3 DEF Inv, Basics
<1>7. Forget(data, Converted(data, marked)) \in [Slot -> Slot \cup {None}]
  BY <1>6 DEF Forget
<1> QED BY <1>2, <1>4, <1>5, <1>7 DEF DeleteFaintedPokemon

LEMMA BattleEndedInv ==
    ASSUME Inv, ExportParty, g_wasInBattle, ~isBattle
    PROVE  Inv'
<1>1. RestorePokeballs /\ UNCHANGED fileVars
  BY DEF ExportParty
<1>2. /\ pocket' \in Seq(Item) /\ g_RemovedPokeBalls' = NothingRemoved
      /\ ToSet(pocket') \subseteq (ToSet(g_RemovedPokeBalls) \ {None}) \cup ToSet(pocket)
  BY <1>1, RestoredPocket DEF Inv
<1>3. ~isBattle' /\ ~g_wasInBattle'
  BY ExportPartyCommon DEF isBattle
<1>4. Basics'
  <2>1. g_RemovedPokeBalls' \in [1 .. 16 -> Item \cup {None}]
    BY <1>2 DEF NothingRemoved
  <2>2. dead' \subseteq Slot /\ hp0' \subseteq Slot
    BY BattleEndedDead DEF Inv, Basics
  <2>3. g_wasInBattle' \in BOOLEAN
    BY ExportPartyCommon DEF isBattle
  <2> QED BY <1>1, <1>2, <2>1, <2>2, <2>3, BattleEndedDead, ExportPartyCommon DEF Inv, Basics, fileVars
<1>5. Kept'
  BY <1>2 DEF Kept, NothingRemoved
<1>6. Flagged'
  <2>1. \A i \in 1 .. 16 : g_RemovedPokeBalls'[i] = None
    BY <1>2 DEF NothingRemoved
  <2>2. \A e \in ToSet(pocket') : e.id = 576 => haspkb
    <3> SUFFICES ASSUME NEW e \in ToSet(pocket'), e.id = 576 PROVE haspkb
      OBVIOUS
    <3>1. CASE e \in ToSet(pocket)
      BY <3>1 DEF Inv, RouteInv, Flagged
    <3>2. CASE e \in ToSet(g_RemovedPokeBalls) /\ e # None
      <4>1. PICK i \in 1 .. 16 : e = g_RemovedPokeBalls[i]
        BY <3>2 DEF ToSet, Inv, Basics
      <4> QED BY <3>2, <4>1 DEF Inv, RouteInv, Flagged
    <3> QED BY <1>2, <3>1, <3>2
  <2> QED BY <1>1, <2>1, <2>2 DEF Flagged, fileVars
<1>7. Marks' /\ OneCapturePerRoute'
  BY <1>1, <1>3, ExportPartyCommon DEF Inv, RouteInv, Marks, OneCapturePerRoute, fileVars
<1>8. Fighting' /\ Over'
  BY <1>3, BattleEndedDead DEF Fighting, Over
<1> QED BY <1>4, <1>5, <1>6, <1>7, <1>8 DEF Inv, RouteInv

\* Every other sample: what was read and marked is remembered.
LEMMA SampleData ==
    ASSUME Inv, ExportParty, ~(g_wasInBattle /\ ~isBattle)
    PROVE  /\ g_battleData' \in [Slot -> Slot \cup {None}] /\ g_pending_delete' \subseteq Slot
           /\ Fighting' /\ Over' /\ UNCHANGED <<dead, hp0, fainted>>
<1>1. /\ g_battleData' = ReadBattle /\ g_pending_delete' = g_pending_delete \cup Dying
      /\ UNCHANGED <<dead, hp0, fainted, order, battle>> /\ g_wasInBattle' = isBattle
  BY DEF ExportParty
<1>2. g_battleData' \in [Slot -> Slot \cup {None}]
  BY <1>1, ReadBattleData DEF Inv
<1>3. g_pending_delete' \subseteq Slot
  BY <1>1, DyingFainted DEF Inv, Basics
<1>4. Fighting'
  BY <1>1, ReadBattleData, DyingFainted DEF Inv, Fighting, isBattle
<1>5. Over'
  BY <1>1, DyingFainted DEF Inv, Over, isBattle
<1> QED BY <1>1, <1>2, <1>3, <1>4, <1>5

\* OnBattleStarted: a ball that stays in the pocket may be thrown.
LEMMA BattleStartedInv ==
    ASSUME Inv, ExportParty, ~g_wasInBattle, isBattle
    PROVE  Inv'
<1>1. RemovePokeballs
  BY DEF ExportParty
<1>2. g_wasInBattle' = TRUE /\ UNCHANGED <<battle, route, order, captures>>
  BY ExportPartyCommon
<1>3. g_RemovedPokeBalls = NothingRemoved
  BY DEF Inv, Kept
<1>4. haspkb' = HasPkb /\ visRou' = Marked /\ visRou \subseteq visRou' /\ (haspkb => haspkb')
  BY <1>1 DEF RemovePokeballs, Marked, HasPkb
<1>5. haspkb' \in BOOLEAN /\ visRou' \subseteq Routes
  BY <1>4 DEF HasPkb, Marked, Inv, Basics
<1>6. /\ pocket' \in Seq(Item) /\ ToSet(pocket') \subseteq ToSet(pocket)
      /\ g_RemovedPokeBalls' \in [1 .. 16 -> Item \cup {None}]
      /\ \A i \in 1 .. 16 : g_RemovedPokeBalls'[i] # None =>
           /\ g_RemovedPokeBalls'[i] \in ToSet(pocket)
           /\ IsBall(g_RemovedPokeBalls'[i]) /\ RemovedIndex(g_RemovedPokeBalls'[i].id) = i
      /\ ShouldRemove => \A e \in ToSet(pocket') : ~IsBall(e)
  <2>1. CASE ShouldRemove
    <3>1. TakeBalls
      BY <1>1, <2>1 DEF RemovePokeballs
    <3>2. pocket' \in Seq(Item) /\ ToSet(pocket') = {e \in ToSet(pocket) : ~IsBall(e)}
      BY <3>1, TakeBallsPocket DEF Inv
    <3>3. g_RemovedPokeBalls' \in [1 .. 16 -> Item \cup {None}]
      <4>1. 1 \in 1 .. 16
        OBVIOUS
      <4> QED BY <3>1, <4>1, TakeBallsKeeps DEF Inv
    <3>4. ASSUME NEW i \in 1 .. 16, g_RemovedPokeBalls'[i] # None
          PROVE  /\ g_RemovedPokeBalls'[i] \in ToSet(pocket)
                 /\ IsBall(g_RemovedPokeBalls'[i]) /\ RemovedIndex(g_RemovedPokeBalls'[i].id) = i
      <4>1. g_RemovedPokeBalls[i] = None
        BY <1>3 DEF NothingRemoved
      <4>2. \/ g_RemovedPokeBalls'[i] = g_RemovedPokeBalls[i]
            \/ /\ g_RemovedPokeBalls'[i] \in ToSet(pocket)
               /\ IsBall(g_RemovedPokeBalls'[i]) /\ RemovedIndex(g_RemovedPokeBalls'[i].id) = i
        BY <3>1, TakeBallsKeeps DEF Inv
      <4> QED BY <3>4, <4>1, <4>2
    <3> QED BY <3>2, <3>3, <3>4
  <2>2. CASE ~ShouldRemove
    <3>1. UNCHANGED <<pocket, g_RemovedPokeBalls>>
      BY <1>1, <2>2 DEF RemovePokeballs
    <3> QED BY <1>3, <2>2, <3>1 DEF Inv, Basics, NothingRemoved
  <2> QED BY <2>1, <2>2
<1>7. Basics'
  BY <1>2, <1>5, <1>6, SampleData, ExportPartyCommon DEF Inv, Basics
<1>8. Kept'
  BY <1>2, <1>6 DEF Kept
<1>9. Flagged'
  BY <1>4, <1>6 DEF Inv, RouteInv, Flagged
<1>10. ASSUME HoldsBall'
       PROVE  \/ battle \in {"trainer", "delta", "shiny"}
              \/ battle = "wild" /\ captures[route] = <<>> /\ route \in visRou'
  <2>1. ~ShouldRemove
    BY <1>6, <1>10 DEF HoldsBall
  <2>2. HasPkb
    <3>1. PICK e \in ToSet(pocket) : IsBall(e)
      BY <1>6, <1>10 DEF HoldsBall
    <3>2. CASE e.id = 576
      BY <3>2 DEF Inv, RouteInv, Flagged, HasPkb
    <3>3. CASE e.id # 576
      BY <3>1, <3>3 DEF HasPkb, ToSet
    <3> QED BY <3>2, <3>3
  <2>3. CASE battle = "wild"
    <3>1. route \notin visRou /\ route \in visRou'
      BY <1>4, <2>1, <2>2, <2>3 DEF ShouldRemove, Marked
    <3>2. captures[route] = <<>>
      BY <3>1 DEF Inv, Basics, RouteInv, Marks
    <3> QED BY <2>3, <3>1, <3>2
  <2>4. CASE battle # "wild"
    BY <2>1, <2>4 DEF ShouldRemove, Inv, Basics, Kind, isBattle
  <2> QED BY <2>3, <2>4
<1>11. Marks'
  BY <1>2, <1>4, <1>10 DEF Inv, RouteInv, Marks
<1>12. OneCapturePerRoute'
  BY <1>2 DEF Inv, RouteInv, OneCapturePerRoute
<1> QED BY <1>7, <1>8, <1>9, <1>11, <1>12, SampleData DEF Inv, RouteInv

LEMMA SameBattleInv ==
    ASSUME Inv, ExportParty, g_wasInBattle = isBattle
    PROVE  Inv'
<1>1. UNCHANGED <<pocket, g_RemovedPokeBalls, fileVars>>
  BY DEF ExportParty
<1>2. g_wasInBattle' = g_wasInBattle /\ UNCHANGED <<battle, route, order, captures>>
  BY ExportPartyCommon
<1>3. Basics'
  BY <1>1, <1>2, SampleData, ExportPartyCommon DEF Inv, Basics, fileVars
<1>4. Kept'
  BY <1>1, <1>2 DEF Inv, Kept
<1>5. RouteInv'
  BY <1>1, <1>2 DEF Inv, RouteInv, Flagged, Marks, OneCapturePerRoute, HoldsBall, isBattle, fileVars
<1> QED BY <1>3, <1>4, <1>5, SampleData DEF Inv

LEMMA NextInv == Inv /\ [Next]_vars => Inv'
<1> SUFFICES ASSUME Inv, [Next]_vars PROVE Inv'
  OBVIOUS
<1>1. CASE ExportParty
  <2>1. g_wasInBattle \in BOOLEAN /\ isBattle \in BOOLEAN
    BY DEF Inv, Basics, isBattle
  <2>2. CASE g_wasInBattle /\ ~isBattle
    BY <1>1, <2>2, BattleEndedInv
  <2>3. CASE ~g_wasInBattle /\ isBattle
    BY <1>1, <2>3, BattleStartedInv
  <2>4. CASE g_wasInBattle = isBattle
    BY <1>1, <2>4, SameBattleInv
  <2> QED BY <2>1, <2>2, <2>3, <2>4
<1>2. CASE CheckDeadPokemon
  BY <1>2, CheckDeadPokemonInv
<1>3. CASE Game
  BY <1>3, BattleBeginsInv, BattleEndsInv, UsesMoveInv, FaintsInv, HealsInv, LevelsInv, GainsInv,
     UsesInv, ThrowsInv DEF Game
<1>4. CASE Restarts
  BY <1>4, RestartsInv
<1>5. CASE UNCHANGED vars
  BY <1>5, SMTT(30) DEF vars, gameVars, supVars, fileVars, histVars, Inv, Basics, Kept, RouteInv, Flagged, Marks,
              OneCapturePerRoute, HoldsBall, Fighting, Over, isBattle
<1> QED BY <1>1, <1>2, <1>3, <1>4, <1>5 DEF Next, Supervisor

LEMMA Invariance == Spec => []Inv
BY InitInv, NextInv, PTL DEF Spec

\* For any routes and any play: a route gives at most one ordinary capture and
\* never a legendary or already owned pokemon (poke_capture.cpp, ShouldRemove).
THEOREM OneCaptureOnly == Spec => []OneCapturePerRoute
<1>1. Inv => OneCapturePerRoute
  BY DEF Inv, RouteInv
<1> QED BY <1>1, Invariance, PTL

LEMMA DeathsAreDeserved == Inv /\ [Next]_vars => [dead' \ dead \subseteq fainted]_vars
<1> SUFFICES ASSUME Inv, Next PROVE dead' \ dead \subseteq fainted
  OBVIOUS
<1>1. CASE ExportParty
  <2>1. CASE g_wasInBattle /\ ~isBattle
    BY <1>1, <2>1, BattleEndedDead
  <2>2. CASE ~(g_wasInBattle /\ ~isBattle)
    BY <1>1, <2>2, SampleData
  <2> QED BY <2>1, <2>2
<1>2. CASE CheckDeadPokemon \/ Restarts
  BY <1>2 DEF CheckDeadPokemon, Restarts, gameVars
<1>3. CASE Game
  BY <1>3 DEF Game, BattleBegins, BattleEnds, UsesMove, Faints, Heals, GainsExperience, GetsCandies,
              Gains, Uses, Throws, gameVars
<1> QED BY <1>1, <1>2, <1>3 DEF Next, Supervisor

\* For any party and any order of samples, moves, faints and restarts: only a pokemon
\* that fainted in the battle that ended is turned into a dead one
\* (poke_export.cpp, DeleteFaintedPokemon).
THEOREM OnlyTheFaintedDie == Spec => OnlyFaintedDie
BY Invariance, DeathsAreDeserved, PTL DEF Spec, OnlyFaintedDie

-------------------------------------------------------------------------------
(* Items                                                                   *)

\* The item pocket of a game has a slot for every item that goes there.
RoomForAll == IsFiniteSet(Balls \cup Goods) /\ Cardinality(Balls \cup Goods) <= SLOT_COUNT

OneStack(p) == \A k, l \in DOMAIN p : p[k].id = p[l].id => k = l

Stacks(p, id) == {k \in DOMAIN p : p[k].id = id}

Stock(p, id) == IF Stacks(p, id) = {} THEN 0 ELSE p[CHOOSE k \in Stacks(p, id) : TRUE].qty

\* With one stack of each item the stock is the quantity of its stack.
LEMMA StockIs ==
    ASSUME NEW p, OneStack(p)
    PROVE  /\ \A k \in DOMAIN p : Stock(p, p[k].id) = p[k].qty
           /\ \A id : (\A k \in DOMAIN p : p[k].id # id) => Stock(p, id) = 0
<1>1. ASSUME NEW k \in DOMAIN p PROVE Stock(p, p[k].id) = p[k].qty
  <2>1. Stacks(p, p[k].id) = {k}
    BY DEF Stacks, OneStack
  <2>2. (CHOOSE l \in {k} : TRUE) = k
    OBVIOUS
  <2> QED BY <2>1, <2>2 DEF Stock
<1>2. ASSUME NEW id, \A k \in DOMAIN p : p[k].id # id PROVE Stock(p, id) = 0
  BY <1>2 DEF Stock, Stacks
<1> QED BY <1>1, <1>2

LEMMA StockOfEntry ==
    ASSUME NEW p, OneStack(p)
    PROVE  /\ \A e \in ToSet(p) : Stock(p, e.id) = e.qty
           /\ \A id : (\A e \in ToSet(p) : e.id # id) => Stock(p, id) = 0
BY StockIs, Zenon DEF ToSet

LEMMA OneStackEntries ==
    ASSUME NEW p, OneStack(p)
    PROVE  IsInjective(p) /\ \A e, f \in ToSet(p) : e.id = f.id => e = f
BY DEF OneStack, IsInjective, ToSet

LEMMA EntriesOneStack ==
    ASSUME NEW p, IsInjective(p), \A e, f \in ToSet(p) : e.id = f.id => e = f
    PROVE  OneStack(p)
BY DEF OneStack, IsInjective, ToSet

\* The stock of an item depends on its entry alone.
LEMMA SameStock ==
    ASSUME NEW p, NEW q, OneStack(p), OneStack(q), NEW id,
           \A e \in ToSet(p) : e.id = id => e \in ToSet(q),
           \A e \in ToSet(q) : e.id = id => e \in ToSet(p)
    PROVE  Stock(q, id) = Stock(p, id)
<1>1. CASE \E e \in ToSet(p) : e.id = id
  <2>1. PICK e \in ToSet(p) : e.id = id
    BY <1>1
  <2>2. e \in ToSet(q)
    BY <2>1
  <2>3. Stock(p, e.id) = e.qty /\ Stock(q, e.id) = e.qty
    BY <2>1, <2>2, StockOfEntry
  <2> QED BY <2>1, <2>3
<1>2. CASE ~ \E e \in ToSet(p) : e.id = id
  <2>1. Stock(p, id) = 0
    BY <1>2, StockOfEntry
  <2>2. \A e \in ToSet(q) : e.id # id
    BY <1>2
  <2>3. Stock(q, id) = 0
    BY <2>2, StockOfEntry
  <2> QED BY <2>1, <2>3
<1> QED BY <1>1, <1>2

\* A pocket with one stack of each item has room.
LEMMA PocketFits ==
    ASSUME RoomForAll, NEW p \in Seq(Item), OneStack(p)
    PROVE  Len(p) <= SLOT_COUNT
<1> DEFINE ids == [k \in 1 .. Len(p) |-> p[k].id]
<1>1. Len(p) \in Nat /\ \A k \in 1 .. Len(p) : p[k].id \in Balls \cup Goods
  <2>1. Len(p) \in Nat /\ \A k \in 1 .. Len(p) : p[k] \in Item
    OBVIOUS
  <2>2. \A e \in Item : e.id \in Balls \cup Goods
    BY DEF Item
  <2> QED BY <2>1, <2>2
<1>2. ids \in Seq(Balls \cup Goods)
  <2>1. PICK B : B = Balls \cup Goods
    OBVIOUS
  <2>2. \A k \in 1 .. Len(p) : p[k].id \in B
    BY <1>1, <2>1
  <2>3. ids \in Seq(B)
    BY <1>1, <2>2, IsASeq
  <2> QED BY <2>1, <2>3
<1>3. DOMAIN p = 1 .. Len(p)
  OBVIOUS
<1>4. IsInjective(ids)
  BY <1>3 DEF IsInjective, OneStack
<1>5. Len(ids) = Len(p)
  BY <1>1
<1> HIDE DEF ids
<1>6. Len(ids) <= Cardinality(Balls \cup Goods)
  BY <1>2, <1>4, ListFits DEF RoomForAll
<1>7. Cardinality(Balls \cup Goods) \in Nat
  BY FS_CardinalityType DEF RoomForAll
<1> QED BY <1>1, <1>5, <1>6, <1>7, NuzlockeAssumption DEF RoomForAll

\* The entries of a list after one of them was replaced.
LEMMA Replaced ==
    ASSUME NEW p \in Seq(Item), OneStack(p), NEW k \in DOMAIN p, NEW e \in Item, e.id = p[k].id
    PROVE  /\ [p EXCEPT ![k] = e] \in Seq(Item) /\ OneStack([p EXCEPT ![k] = e])
           /\ Stock([p EXCEPT ![k] = e], e.id) = e.qty /\ Stock(p, e.id) = p[k].qty
           /\ \A id : id # e.id => Stock([p EXCEPT ![k] = e], id) = Stock(p, id)
<1> DEFINE q == [p EXCEPT ![k] = e]
<1>1. /\ q \in Seq(Item) /\ DOMAIN q = DOMAIN p
      /\ \A j \in DOMAIN p : q[j] = IF j = k THEN e ELSE p[j]
  OBVIOUS
<1> HIDE DEF q
<1>2. OneStack(q)
  BY <1>1 DEF OneStack
<1>3. q[k] = e
  BY <1>1
<1>4. Stock(q, e.id) = e.qty /\ Stock(p, e.id) = p[k].qty
  BY <1>1, <1>2, <1>3, StockIs
<1>5. ASSUME NEW id, id # e.id PROVE Stock(q, id) = Stock(p, id)
  <2>1. \A j \in DOMAIN p : p[j].id = id => q[j] = p[j]
    BY <1>1, <1>5
  <2>2. \A j \in DOMAIN p : q[j].id = id => q[j] = p[j]
    BY <1>1, <1>5
  <2>3. \A x \in ToSet(p) : x.id = id => x \in ToSet(q)
    BY <1>1, <2>1 DEF ToSet
  <2>4. \A x \in ToSet(q) : x.id = id => x \in ToSet(p)
    BY <1>1, <2>2 DEF ToSet
  <2> QED BY <1>2, <2>3, <2>4, SameStock
<1> QED BY <1>1, <1>2, <1>4, <1>5 DEF q

\* A stack that is opened.
LEMMA Opened ==
    ASSUME NEW p \in Seq(Item), OneStack(p), NEW e \in Item, \A k \in DOMAIN p : p[k].id # e.id
    PROVE  /\ Append(p, e) \in Seq(Item) /\ OneStack(Append(p, e))
           /\ Stock(Append(p, e), e.id) = e.qty /\ Stock(p, e.id) = 0
           /\ \A id : id # e.id => Stock(Append(p, e), id) = Stock(p, id)
<1> DEFINE q == Append(p, e)
           n == Len(p) + 1
<1>1. /\ q \in Seq(Item) /\ DOMAIN q = 1 .. n /\ q[n] = e /\ n \in DOMAIN q
      /\ \A j \in DOMAIN p : q[j] = p[j] /\ j \in DOMAIN q
  OBVIOUS
<1>2. \A j \in DOMAIN q : j = n \/ j \in DOMAIN p
  BY <1>1
<1> HIDE DEF q, n
<1>3. OneStack(q)
  BY <1>1, <1>2 DEF OneStack
<1>4. Stock(q, e.id) = e.qty /\ Stock(p, e.id) = 0
  BY <1>1, <1>3, StockIs
<1>5. ASSUME NEW id, id # e.id PROVE Stock(q, id) = Stock(p, id)
  <2>1. \A x \in ToSet(p) : x.id = id => x \in ToSet(q)
    BY <1>1 DEF ToSet
  <2>2. \A x \in ToSet(q) : x.id = id => x \in ToSet(p)
    BY <1>1, <1>2, <1>5 DEF ToSet
  <2> QED BY <1>3, <2>1, <2>2, SameStock
<1> QED BY <1>1, <1>3, <1>4, <1>5 DEF q

\* A stack that is used up.
LEMMA Closed ==
    ASSUME NEW p \in Seq(Item), OneStack(p), NEW k \in DOMAIN p
    PROVE  /\ RemoveAt(p, k) \in Seq(Item) /\ OneStack(RemoveAt(p, k))
           /\ Stock(RemoveAt(p, k), p[k].id) = 0 /\ Stock(p, p[k].id) = p[k].qty
           /\ \A id : id # p[k].id => Stock(RemoveAt(p, k), id) = Stock(p, id)
<1>1. PICK q : q = RemoveAt(p, k)
  OBVIOUS
<1>2. IsInjective(p) /\ \A e, f \in ToSet(p) : e.id = f.id => e = f
  BY OneStackEntries
<1>3. q \in Seq(Item) /\ IsInjective(q) /\ ToSet(q) = ToSet(p) \ {p[k]}
  BY <1>1, <1>2, RemoveAtProperties
<1>4. OneStack(q)
  BY <1>2, <1>3, EntriesOneStack
<1>5. p[k] \in ToSet(p)
  BY DEF ToSet
<1>6. \A e \in ToSet(q) : e.id # p[k].id
  BY <1>2, <1>3, <1>5
<1>7. Stock(q, p[k].id) = 0 /\ Stock(p, p[k].id) = p[k].qty
  BY <1>4, <1>6, StockOfEntry, StockIs
<1>8. ASSUME NEW id, id # p[k].id PROVE Stock(q, id) = Stock(p, id)
  <2>1. \A x \in ToSet(p) : x.id = id => x \in ToSet(q)
    BY <1>3, <1>8
  <2>2. \A x \in ToSet(q) : x.id = id => x \in ToSet(p)
    BY <1>3
  <2> QED BY <1>4, <2>1, <2>2, SameStock
<1> QED BY <1>1, <1>3, <1>4, <1>7, <1>8

\* One more of an item that was found, one less of one that was used.
LEMMA GainedStock ==
    ASSUME Basics, OneStack(pocket), NEW id \in Balls \cup Goods, Gains(id)
    PROVE  /\ OneStack(pocket') /\ Stock(pocket', id) = Stock(pocket, id) + 1
           /\ \A i : i # id => Stock(pocket', i) = Stock(pocket, i)
<1>1. PICK p : p = pocket
  OBVIOUS
<1>2. p \in Seq(Item) /\ OneStack(p)
  BY <1>1 DEF Basics
<1>3. CASE \E k \in Index(id) : pocket' = [pocket EXCEPT ![k].qty = @ + 1]
  <2>1. PICK k \in Index(id) : pocket' = [pocket EXCEPT ![k].qty = @ + 1]
    BY <1>3
  <2>2. k \in DOMAIN p /\ p[k] \in Item /\ p[k].id = id
    BY <1>1, <1>2, <2>1 DEF Index
  <2>3. PICK e : e = [p[k] EXCEPT !.qty = @ + 1]
    OBVIOUS
  <2>4. e \in Item /\ e.id = p[k].id /\ e.qty = p[k].qty + 1
    BY <2>2, <2>3 DEF Item
  <2>5. pocket' = [p EXCEPT ![k] = e]
    BY <1>1, <2>1, <2>3
  <2>6. /\ OneStack([p EXCEPT ![k] = e])
        /\ Stock([p EXCEPT ![k] = e], e.id) = e.qty /\ Stock(p, e.id) = p[k].qty
        /\ \A i : i # e.id => Stock([p EXCEPT ![k] = e], i) = Stock(p, i)
    BY <1>2, <2>2, <2>4, Replaced
  <2> QED BY <1>1, <2>2, <2>4, <2>5, <2>6
<1>4. CASE Index(id) = {} /\ pocket' = Append(pocket, [id |-> id, qty |-> 1])
  <2>1. PICK e : e = [id |-> id, qty |-> 1]
    OBVIOUS
  <2>2. e \in Item /\ e.id = id /\ e.qty = 1
    BY <2>1 DEF Item
  <2>3. \A k \in DOMAIN p : p[k].id # e.id
    BY <1>1, <1>4, <2>2 DEF Index
  <2>4. /\ OneStack(Append(p, e)) /\ Stock(Append(p, e), e.id) = e.qty /\ Stock(p, e.id) = 0
        /\ \A i : i # e.id => Stock(Append(p, e), i) = Stock(p, i)
    BY <1>2, <2>2, <2>3, Opened
  <2>5. pocket' = Append(p, e)
    BY <1>1, <1>4, <2>1
  <2> QED BY <1>1, <2>2, <2>4, <2>5
<1> QED BY <1>3, <1>4 DEF Gains

LEMMA UsedStock ==
    ASSUME Basics, OneStack(pocket), NEW k \in DOMAIN pocket, pocket' = UseUp(k)
    PROVE  /\ OneStack(pocket') /\ Stock(pocket', pocket[k].id) = Stock(pocket, pocket[k].id) - 1
           /\ Stock(pocket, pocket[k].id) \in Nat \ {0} /\ pocket[k].id \in Balls \cup Goods
           /\ \A i : i # pocket[k].id => Stock(pocket', i) = Stock(pocket, i)
<1>1. PICK p : p = pocket
  OBVIOUS
<1>2. p \in Seq(Item) /\ OneStack(p) /\ k \in DOMAIN p /\ p[k] \in Item
  BY <1>1 DEF Basics
<1>3. p[k].qty \in Nat \ {0} /\ p[k].id \in Balls \cup Goods
  BY <1>2 DEF Item
<1>4. CASE p[k].qty = 1
  <2>1. /\ OneStack(RemoveAt(p, k)) /\ Stock(RemoveAt(p, k), p[k].id) = 0
        /\ Stock(p, p[k].id) = p[k].qty
        /\ \A i : i # p[k].id => Stock(RemoveAt(p, k), i) = Stock(p, i)
    BY <1>2, Closed
  <2>2. pocket' = RemoveAt(p, k)
    BY <1>1, <1>4 DEF UseUp
  <2> QED BY <1>1, <1>3, <1>4, <2>1, <2>2
<1>5. CASE p[k].qty # 1
  <2>1. PICK e : e = [p[k] EXCEPT !.qty = @ - 1]
    OBVIOUS
  <2>2. e \in Item /\ e.id = p[k].id /\ e.qty = p[k].qty - 1
    BY <1>2, <1>5, <2>1, SMTT(30) DEF Item
  <2>3. pocket' = [p EXCEPT ![k] = e]
    BY <1>1, <1>5, <2>1 DEF UseUp
  <2>4. /\ OneStack([p EXCEPT ![k] = e])
        /\ Stock([p EXCEPT ![k] = e], e.id) = e.qty /\ Stock(p, e.id) = p[k].qty
        /\ \A i : i # e.id => Stock([p EXCEPT ![k] = e], i) = Stock(p, i)
    BY <1>2, <2>2, Replaced
  <2> QED BY <1>1, <1>3, <2>2, <2>3, <2>4
<1> QED BY <1>4, <1>5

-------------------------------------------------------------------------------
(* Balls that are away                                                     *)

AwayOf(g, id) ==
    LET e == g[RemovedIndex(id)]
    IN  IF id \in Balls /\ e # None /\ e.id = id THEN e.qty ELSE 0

\* Every ball has an index of its own.
LEMMA IndexOfBall ==
    /\ \A id \in Balls : RemovedIndex(id) \in 1 .. 16
    /\ \A a, b \in Balls : RemovedIndex(a) = RemovedIndex(b) => a = b
BY NuzlockeAssumption DEF RemovedIndex

\* Item ids are told apart by IsBall.
LEMMA BallOrGood ==
    ASSUME NEW e \in Item
    PROVE  /\ IsBall(e) <=> e.id \in Balls
           /\ ~IsBall(e) <=> e.id \in Goods
           /\ e.id \in Balls \cup Goods /\ e.qty \in Nat \ {0}
<1>1. e.id \in Balls \cup Goods /\ e.qty \in Nat \ {0}
  BY DEF Item
<1>2. \A id \in Balls : id \in (1 .. 16) \cup {576}
  BY NuzlockeAssumption
<1>3. \A id \in Goods : id \notin (1 .. 16) \cup {576}
  BY NuzlockeAssumption
<1> QED BY <1>1, <1>2, <1>3 DEF IsBall

LEMMA StockNat ==
    ASSUME NEW p \in Seq(Item), OneStack(p), NEW id
    PROVE  Stock(p, id) \in Nat
<1>1. CASE \E e \in ToSet(p) : e.id = id
  <2>1. PICK e \in ToSet(p) : e.id = id
    BY <1>1
  <2>2. e \in Item
    BY <2>1 DEF ToSet
  <2> QED BY <2>1, <2>2, StockOfEntry, BallOrGood
<1>2. CASE ~ \E e \in ToSet(p) : e.id = id
  BY <1>2, StockOfEntry
<1> QED BY <1>1, <1>2

\* What is away of an item is the entry kept for it.
LEMMA AwayIs ==
    ASSUME NEW g \in [1 .. 16 -> Item \cup {None}],
           \A i \in 1 .. 16 : g[i] # None => IsBall(g[i]) /\ RemovedIndex(g[i].id) = i
    PROVE  /\ \A i \in 1 .. 16 : g[i] # None => g[i].id \in Balls /\ AwayOf(g, g[i].id) = g[i].qty
           /\ \A id : (\A i \in 1 .. 16 : g[i] # None => g[i].id # id) => AwayOf(g, id) = 0
           /\ \A id : AwayOf(g, id) \in Nat
<1>1. ASSUME NEW i \in 1 .. 16, g[i] # None PROVE g[i].id \in Balls /\ AwayOf(g, g[i].id) = g[i].qty
  <2>1. g[i] \in Item /\ IsBall(g[i]) /\ RemovedIndex(g[i].id) = i
    BY <1>1
  <2>2. g[i].id \in Balls
    BY <2>1, BallOrGood
  <2> QED BY <1>1, <2>1, <2>2 DEF AwayOf
<1>2. ASSUME NEW id, \A i \in 1 .. 16 : g[i] # None => g[i].id # id PROVE AwayOf(g, id) = 0
  <2>1. id \in Balls => RemovedIndex(id) \in 1 .. 16
    BY IndexOfBall
  <2> QED BY <1>2, <2>1 DEF AwayOf
<1>3. ASSUME NEW id PROVE AwayOf(g, id) \in Nat
  <2>1. CASE \E i \in 1 .. 16 : g[i] # None /\ g[i].id = id
    <3>1. PICK i \in 1 .. 16 : g[i] # None /\ g[i].id = id
      BY <2>1
    <3>2. AwayOf(g, id) = g[i].qty /\ g[i] \in Item
      BY <1>1, <3>1
    <3> QED BY <3>2, BallOrGood
  <2>2. CASE ~ \E i \in 1 .. 16 : g[i] # None /\ g[i].id = id
    BY <1>2, <2>2
  <2> QED BY <2>1, <2>2
<1> QED BY <1>1, <1>2, <1>3

\* Nothing is away.
LEMMA NothingAway ==
    ASSUME NEW id
    PROVE  AwayOf(NothingRemoved, id) = 0
<1>1. id \in Balls => RemovedIndex(id) \in 1 .. 16
  BY IndexOfBall
<1> QED BY <1>1 DEF AwayOf, NothingRemoved

\* Taking the balls away: what was in the pocket is there or away.
LEMMA TakenStock ==
    ASSUME Basics, OneStack(pocket), g_RemovedPokeBalls = NothingRemoved, TakeBalls
    PROVE  /\ OneStack(pocket') /\ ~HoldsBall'
           /\ \A id : Stock(pocket', id) + AwayOf(g_RemovedPokeBalls', id) = Stock(pocket, id)
<1>1. PICK p, q, g : p = pocket /\ q = pocket' /\ g = g_RemovedPokeBalls'
  OBVIOUS
<1>2. p \in Seq(Item) /\ OneStack(p) /\ IsInjective(p) /\ \A e, f \in ToSet(p) : e.id = f.id => e = f
  BY <1>1, OneStackEntries DEF Basics
<1>3. q \in Seq(Item) /\ IsInjective(q) /\ ToSet(q) = {e \in ToSet(p) : ~IsBall(e)}
  BY <1>1, <1>2, TakeBallsPocket
<1>4. OneStack(q)
  BY <1>2, <1>3, EntriesOneStack
<1>5. /\ g \in [1 .. 16 -> Item \cup {None}]
      /\ \A i \in 1 .. 16 :
           \/ g[i] = None /\ \A e \in ToSet(p) : IsBall(e) => RemovedIndex(e.id) # i
           \/ g[i] \in ToSet(p) /\ IsBall(g[i]) /\ RemovedIndex(g[i].id) = i
  <2>1. \A i \in 1 .. 16 : NothingRemoved[i] = None
    BY DEF NothingRemoved
  <2>2. 1 \in 1 .. 16
    OBVIOUS
  <2>3. g \in [1 .. 16 -> Item \cup {None}]
    BY <1>1, <2>2, TakeBallsKeeps
  <2>4. ASSUME NEW i \in 1 .. 16
        PROVE  \/ g[i] = None /\ \A e \in ToSet(p) : IsBall(e) => RemovedIndex(e.id) # i
               \/ g[i] \in ToSet(p) /\ IsBall(g[i]) /\ RemovedIndex(g[i].id) = i
    BY <1>1, <2>1, TakeBallsKeeps
  <2> QED BY <2>3, <2>4
<1>6. ToSet(p) \subseteq Item
  BY <1>2 DEF ToSet
<1>7. ASSUME NEW id PROVE Stock(q, id) + AwayOf(g, id) = Stock(p, id)
  <2>0. Stock(p, id) \in Nat
    BY <1>2, StockNat
  <2>1. CASE \E e \in ToSet(p) : e.id = id /\ IsBall(e)
    <3>1. PICK e \in ToSet(p) : e.id = id /\ IsBall(e)
      BY <2>1
    <3>2. id \in Balls /\ e \in Item
      BY <1>6, <3>1, BallOrGood
    <3>3. PICK i \in 1 .. 16 : i = RemovedIndex(id)
      BY <3>2, IndexOfBall
    <3>4. g[i] \in ToSet(p) /\ IsBall(g[i]) /\ RemovedIndex(g[i].id) = i
      BY <1>5, <3>1, <3>3
    <3>5. g[i].id \in Balls
      BY <1>6, <3>4, BallOrGood
    <3>6. g[i].id = id
      BY <3>2, <3>3, <3>4, <3>5, IndexOfBall
    <3>7. g[i] = e
      BY <1>2, <3>1, <3>4, <3>6
    <3>8. g[i] # None
      BY <3>2, <3>7, NuzlockeAssumption
    <3>9. AwayOf(g, id) = e.qty
      BY <3>2, <3>3, <3>6, <3>7, <3>8 DEF AwayOf
    <3>10. \A x \in ToSet(q) : x.id # id
      BY <1>2, <1>3, <3>1
    <3>11. Stock(q, id) = 0
      BY <1>4, <3>10, StockOfEntry
    <3>12. Stock(p, id) = e.qty
      BY <1>2, <3>1, StockOfEntry
    <3> QED BY <2>0, <3>9, <3>11, <3>12
  <2>2. CASE ~ \E e \in ToSet(p) : e.id = id /\ IsBall(e)
    <3>1. \A x \in ToSet(p) : x.id = id => x \in ToSet(q)
      BY <1>3, <2>2
    <3>2. \A x \in ToSet(q) : x.id = id => x \in ToSet(p)
      BY <1>3
    <3>3. Stock(q, id) = Stock(p, id)
      BY <1>2, <1>4, <3>1, <3>2, SameStock
    <3>4. \A i \in 1 .. 16 : g[i] # None => g[i].id # id
      BY <1>5, <2>2
    <3>5. \A i \in 1 .. 16 : g[i] # None => IsBall(g[i]) /\ RemovedIndex(g[i].id) = i
      BY <1>5
    <3>6. AwayOf(g, id) = 0
      BY <1>5, <3>4, <3>5, AwayIs
    <3> QED BY <2>0, <3>3, <3>6
  <2> QED BY <2>1, <2>2
<1>8. ~HoldsBall'
  BY <1>1, <1>3 DEF HoldsBall
<1> QED BY <1>1, <1>4, <1>7, <1>8

\* Giving the balls back: what was away is in the pocket.
LEMMA RestoredStock ==
    ASSUME RoomForAll, Basics, Kept, OneStack(pocket),
           g_RemovedPokeBalls # NothingRemoved => ~HoldsBall, RestorePokeballs
    PROVE  /\ OneStack(pocket')
           /\ \A id : Stock(pocket', id) = Stock(pocket, id) + AwayOf(g_RemovedPokeBalls, id)
<1>1. PICK p, g, S, ret : /\ p = pocket /\ g = g_RemovedPokeBalls /\ S = ToSet(g) \ {None}
                          /\ ret = Keep(g, S)
  OBVIOUS
<1>2. /\ p \in Seq(Item) /\ OneStack(p) /\ g \in [1 .. 16 -> Item \cup {None}]
      /\ \A i \in 1 .. 16 : g[i] # None => IsBall(g[i]) /\ RemovedIndex(g[i].id) = i
      /\ g # NothingRemoved => \A e \in ToSet(p) : ~IsBall(e)
  BY <1>1 DEF Basics, Kept, HoldsBall
<1>3. ret = Returned /\ ret \in Seq(Item) /\ ToSet(ret) = S
  BY <1>1, RestoredPocket DEF Returned
<1>4. \A i, j \in 1 .. 16 : g[i] # None /\ g[j] # None /\ g[i].id = g[j].id => i = j
  BY <1>2
<1>5. DOMAIN g = 1 .. 16 /\ \A e \in S : \E i \in 1 .. 16 : g[i] = e /\ g[i] # None
  BY <1>1, <1>2 DEF ToSet
<1>6. IsInjective(ret)
  <2>1. \A i, j \in DOMAIN g : g[i] \in S /\ g[i] = g[j] => i = j
    BY <1>1, <1>4, <1>5
  <2>2. g \in Seq(Item \cup {None})
    BY <1>2, RemovedIsList
  <2> QED BY <1>1, <2>1, <2>2, KeepProperties
<1>7. ASSUME NEW e \in ToSet(ret), NEW f \in ToSet(ret), e.id = f.id PROVE e = f
  <2>1. PICK i \in 1 .. 16 : g[i] = e /\ g[i] # None
    BY <1>3, <1>5
  <2>2. PICK j \in 1 .. 16 : g[j] = f /\ g[j] # None
    BY <1>3, <1>5
  <2> QED BY <1>4, <1>7, <2>1, <2>2
<1>8. ASSUME NEW e \in ToSet(ret) PROVE e \in Item /\ IsBall(e) /\ e # None
  <2>1. PICK i \in 1 .. 16 : g[i] = e /\ g[i] # None
    BY <1>3, <1>5
  <2>2. g[i] \in Item
    BY <1>2, <2>1
  <2> QED BY <1>2, <2>1, <2>2
<1>9. \A e \in ToSet(ret), f \in ToSet(p) : e.id # f.id
  <2> SUFFICES ASSUME NEW e \in ToSet(ret), NEW f \in ToSet(p), e.id = f.id PROVE FALSE
    OBVIOUS
  <2>1. PICK i \in 1 .. 16 : g[i] = e /\ g[i] # None
    BY <1>3, <1>5
  <2>2. g # NothingRemoved
    BY <2>1 DEF NothingRemoved
  <2> QED BY <1>2, <1>8, <2>2 DEF IsBall
<1>10. PICK full : full = ret \o p
  OBVIOUS
<1>11. IsInjective(p) /\ \A e, f \in ToSet(p) : e.id = f.id => e = f
  BY <1>2, OneStackEntries
<1>12. /\ full \in Seq(Item) /\ ToSet(full) = ToSet(ret) \cup ToSet(p)
       /\ IsInjective(full)
  <2>1. ToSet(ret) \cap ToSet(p) = {}
    BY <1>9
  <2> QED BY <1>2, <1>3, <1>6, <1>10, <1>11, <2>1, JoinedLists
<1>13. \A e, f \in ToSet(full) : e.id = f.id => e = f
  BY <1>7, <1>9, <1>11, <1>12
<1>14. OneStack(full)
  BY <1>12, <1>13, EntriesOneStack
<1>15. Len(full) <= SLOT_COUNT /\ Len(full) \in Nat
  BY <1>12, <1>14, PocketFits
<1>16. pocket' = full
  <2>1. PICK n : n = IF Len(full) < SLOT_COUNT THEN Len(full) ELSE SLOT_COUNT
    OBVIOUS
  <2>2. n = Len(full)
    BY <1>15, <2>1, NuzlockeAssumption
  <2>3. SubSeq(full, 1, n) = full
    BY <1>12, <1>15, <2>2, Prefix
  <2>4. pocket' = SubSeq(full, 1, n)
    BY <1>1, <1>3, <1>10, <2>1 DEF RestorePokeballs
  <2> QED BY <2>3, <2>4
<1>17. ASSUME NEW id PROVE Stock(full, id) = Stock(p, id) + AwayOf(g, id)
  <2>1. CASE \E e \in ToSet(ret) : e.id = id
    <3>1. PICK e \in ToSet(ret) : e.id = id
      BY <2>1
    <3>2. PICK i \in 1 .. 16 : g[i] = e /\ g[i] # None
      BY <1>3, <1>5
    <3>3. AwayOf(g, id) = e.qty /\ e.qty \in Nat
      BY <1>2, <1>8, <3>1, <3>2, AwayIs, BallOrGood
    <3>4. Stock(full, id) = e.qty
      BY <1>12, <1>14, <3>1, StockOfEntry
    <3>5. \A f \in ToSet(p) : f.id # id
      BY <1>9, <3>1
    <3>6. Stock(p, id) = 0
      BY <1>2, <3>5, StockOfEntry
    <3> QED BY <3>3, <3>4, <3>6
  <2>2. CASE ~ \E e \in ToSet(ret) : e.id = id
    <3>1. \A i \in 1 .. 16 : g[i] # None => g[i].id # id
      BY <1>1, <1>3, <1>5, <2>2 DEF ToSet
    <3>2. AwayOf(g, id) = 0
      BY <1>2, <3>1, AwayIs
    <3>3. Stock(full, id) = Stock(p, id)
      BY <1>2, <1>12, <1>14, <2>2, SameStock, SMTT(30)
    <3>4. Stock(p, id) \in Nat
      BY <1>2, StockNat
    <3> QED BY <3>2, <3>3, <3>4
  <2> QED BY <2>1, <2>2
<1> QED BY <1>1, <1>14, <1>16, <1>17

-------------------------------------------------------------------------------
(* Conservation                                                            *)

\* Everything the player owns is in the pocket or away, in one stack each, and
\* while balls are away none is in the pocket.
Balanced == \A id \in Balls \cup Goods : Stock(pocket, id) + Away(id) = owned[id]

StockInv ==
    /\ owned \in [Balls \cup Goods -> Nat]
    /\ OneStack(pocket) /\ Balanced
    /\ g_RemovedPokeBalls # NothingRemoved => ~HoldsBall

LEMMA AwayIsOf == \A id : Away(id) = AwayOf(g_RemovedPokeBalls, id)
BY DEF Away, AwayOf

LEMMA AwayNat ==
    ASSUME Inv, StockInv, NEW id \in Balls \cup Goods
    PROVE  Away(id) \in Nat /\ Stock(pocket, id) \in Nat
<1>1. PICK p, g : p = pocket /\ g = g_RemovedPokeBalls
  OBVIOUS
<1>2. /\ p \in Seq(Item) /\ OneStack(p) /\ g \in [1 .. 16 -> Item \cup {None}]
      /\ \A i \in 1 .. 16 : g[i] # None => IsBall(g[i]) /\ RemovedIndex(g[i].id) = i
  BY <1>1 DEF Inv, Basics, Kept, StockInv
<1>3. AwayOf(g, id) \in Nat /\ Stock(p, id) \in Nat
  BY <1>2, AwayIs, StockNat
<1> QED BY <1>1, <1>3, AwayIsOf

LEMMA InitStock == Init => StockInv
<1> SUFFICES ASSUME Init PROVE StockInv
  OBVIOUS
<1>1. owned \in [Balls \cup Goods -> Nat]
  BY DEF Init
<1>2. OneStack(pocket) /\ \A id : Stock(pocket, id) = 0
  BY DEF Init, OneStack, Stock, Stacks
<1>3. \A id : Away(id) = 0
  BY AwayIsOf, NothingAway DEF Init
<1>4. Balanced
  BY <1>2, <1>3 DEF Balanced, Init
<1> QED BY <1>1, <1>2, <1>4 DEF StockInv, Init

\* Nothing of the player's changes.
LEMMA StockSame ==
    ASSUME StockInv, UNCHANGED <<pocket, g_RemovedPokeBalls, owned>>
    PROVE  StockInv'
<1>1. \A id : Away(id)' = Away(id)
  BY DEF Away
<1>2. HoldsBall' = HoldsBall
  BY DEF HoldsBall
<1>3. Balanced'
  BY <1>1 DEF StockInv, Balanced
<1> QED BY <1>2, <1>3 DEF StockInv

LEMMA GainsStock ==
    ASSUME Inv, StockInv, NEW id \in Balls \cup Goods, Gains(id)
    PROVE  StockInv'
<1>1. /\ OneStack(pocket') /\ Stock(pocket', id) = Stock(pocket, id) + 1
      /\ \A i : i # id => Stock(pocket', i) = Stock(pocket, i)
  BY GainedStock DEF Inv, StockInv
<1>2. /\ owned' = [owned EXCEPT ![id] = @ + 1] /\ UNCHANGED g_RemovedPokeBalls
      /\ ~isBattle /\ (id \in Balls => Noticed)
  BY DEF Gains, supVars
<1>3. owned' \in [Balls \cup Goods -> Nat]
  BY <1>2 DEF StockInv
<1>4. \A i : Away(i)' = Away(i)
  BY <1>2 DEF Away
<1>5. ASSUME NEW i \in Balls \cup Goods PROVE Stock(pocket', i) + Away(i)' = owned'[i]
  <2>1. /\ Stock(pocket, i) + Away(i) = owned[i] /\ Away(i) \in Nat /\ Stock(pocket, i) \in Nat
        /\ owned[i] \in Nat
    BY AwayNat DEF StockInv, Balanced
  <2>2. CASE i = id
    <3>1. owned'[i] = owned[i] + 1
      BY <1>2, <2>2 DEF StockInv
    <3> QED BY <1>1, <1>4, <2>1, <2>2, <3>1
  <2>3. CASE i # id
    <3>1. owned'[i] = owned[i]
      BY <1>2, <2>3 DEF StockInv
    <3> QED BY <1>1, <1>4, <2>1, <2>3, <3>1
  <2> QED BY <2>2, <2>3
<1>6. g_RemovedPokeBalls' # NothingRemoved => ~HoldsBall'
  <2>1. CASE id \in Balls
    <3>1. ~g_wasInBattle
      BY <1>2, <2>1 DEF Noticed
    <3> QED BY <1>2, <3>1 DEF Inv, Kept
  <2>2. CASE id \in Goods
    <3>1. id \notin (1 .. 16) \cup {576}
      BY <2>2, NuzlockeAssumption
    <3>2. \A e \in ToSet(pocket') : e \in ToSet(pocket) \/ ~IsBall(e)
      BY <3>1, GainedPocket DEF Inv, IsBall
    <3> QED BY <1>2, <3>2 DEF StockInv, HoldsBall
  <2> QED BY <2>1, <2>2
<1>7. Balanced'
  BY <1>5 DEF Balanced
<1> QED BY <1>1, <1>3, <1>6, <1>7 DEF StockInv

LEMMA UsesStock ==
    ASSUME Inv, StockInv, NEW k \in DOMAIN pocket, pocket' = UseUp(k),
           owned' = [owned EXCEPT ![pocket[k].id] = @ - 1], UNCHANGED g_RemovedPokeBalls
    PROVE  StockInv'
<1>0. PICK id : id = pocket[k].id
  OBVIOUS
<1>1. /\ OneStack(pocket') /\ Stock(pocket', id) = Stock(pocket, id) - 1
      /\ Stock(pocket, id) \in Nat \ {0} /\ id \in Balls \cup Goods
      /\ \A i : i # id => Stock(pocket', i) = Stock(pocket, i)
  BY <1>0, UsedStock DEF Inv, StockInv
<1>2. \A i : Away(i)' = Away(i)
  BY DEF Away
<1>3. ASSUME NEW i \in Balls \cup Goods
      PROVE  Stock(pocket', i) + Away(i)' = owned'[i] /\ owned'[i] \in Nat
  <2>1. /\ Stock(pocket, i) + Away(i) = owned[i] /\ Away(i) \in Nat /\ Stock(pocket, i) \in Nat
        /\ owned[i] \in Nat
    BY AwayNat DEF StockInv, Balanced
  <2>2. CASE i = id
    <3>1. owned'[i] = owned[i] - 1
      BY <1>0, <2>2 DEF StockInv
    <3> QED BY <1>1, <1>2, <2>1, <2>2, <3>1
  <2>3. CASE i # id
    <3>1. owned'[i] = owned[i]
      BY <1>0, <2>3 DEF StockInv
    <3> QED BY <1>1, <1>2, <2>1, <2>3, <3>1
  <2> QED BY <2>2, <2>3
<1>4. owned' \in [Balls \cup Goods -> Nat]
  <2>1. owned' = [i \in Balls \cup Goods |-> owned'[i]]
    BY DEF StockInv
  <2> QED BY <1>3, <2>1
<1>5. HoldsBall' => HoldsBall
  BY UsedPocket DEF Inv, HoldsBall, IsBall
<1>6. Balanced'
  BY <1>3 DEF Balanced
<1> QED BY <1>1, <1>4, <1>5, <1>6 DEF StockInv

LEMMA RestartsStock ==
    ASSUME Inv, StockInv, Restarts
    PROVE  StockInv'
<1>1. /\ owned' = [id \in Balls \cup Goods |-> owned[id] - Away(id)]
      /\ pocket' = pocket /\ g_RemovedPokeBalls' = NothingRemoved
  BY DEF Restarts, gameVars
<1>2. \A id : Away(id)' = 0
  <2>1. \A id : Away(id)' = AwayOf(g_RemovedPokeBalls', id)
    BY DEF Away, AwayOf
  <2> QED BY <1>1, <2>1, NothingAway
<1>3. ASSUME NEW i \in Balls \cup Goods
      PROVE  Stock(pocket', i) + Away(i)' = owned'[i] /\ owned'[i] \in Nat
  <2>1. /\ Stock(pocket, i) + Away(i) = owned[i] /\ Away(i) \in Nat /\ Stock(pocket, i) \in Nat
        /\ owned[i] \in Nat
    BY AwayNat DEF StockInv, Balanced
  <2>2. owned'[i] = owned[i] - Away(i)
    BY <1>1
  <2> QED BY <1>1, <1>2, <2>1, <2>2
<1>4. owned' \in [Balls \cup Goods -> Nat]
  <2>1. owned' = [i \in Balls \cup Goods |-> owned'[i]]
    BY <1>1
  <2> QED BY <1>3, <2>1
<1>5. Balanced'
  BY <1>3 DEF Balanced
<1> QED BY <1>1, <1>4, <1>5 DEF StockInv

LEMMA ExportPartyStock ==
    ASSUME RoomForAll, Inv, StockInv, ExportParty
    PROVE  StockInv'
<1>1. owned' = owned
  BY ExportPartyCommon
<1>2. \A id : Away(id) = AwayOf(g_RemovedPokeBalls, id) /\ Away(id)' = AwayOf(g_RemovedPokeBalls', id)
  BY DEF Away, AwayOf
<1>3. \A id \in Balls \cup Goods :
        /\ Stock(pocket, id) + Away(id) = owned[id]
        /\ Away(id) \in Nat /\ Stock(pocket, id) \in Nat
  BY AwayNat DEF StockInv, Balanced
<1>4. CASE g_wasInBattle /\ ~isBattle
  <2>1. RestorePokeballs
    BY <1>4 DEF ExportParty
  <2>2. /\ OneStack(pocket')
        /\ \A id : Stock(pocket', id) = Stock(pocket, id) + AwayOf(g_RemovedPokeBalls, id)
    BY <2>1, RestoredStock DEF Inv, StockInv
  <2>3. g_RemovedPokeBalls' = NothingRemoved
    BY <2>1 DEF RestorePokeballs
  <2>4. \A id : Away(id)' = 0
    BY <1>2, <2>3, NothingAway
  <2>5. Balanced'
    <3> SUFFICES ASSUME NEW id \in Balls \cup Goods
                 PROVE  Stock(pocket', id) + Away(id)' = owned'[id]
      BY DEF Balanced
    <3>1. Stock(pocket', id) = Stock(pocket, id) + Away(id)
      BY <1>2, <2>2
    <3> QED BY <1>1, <1>3, <2>4, <3>1
  <2> QED BY <1>1, <2>2, <2>3, <2>5 DEF StockInv
<1>5. CASE ~g_wasInBattle /\ isBattle /\ ShouldRemove
  <2>1. TakeBalls
    BY <1>5 DEF ExportParty, RemovePokeballs
  <2>2. g_RemovedPokeBalls = NothingRemoved
    BY <1>5 DEF Inv, Kept
  <2>3. /\ OneStack(pocket') /\ ~HoldsBall'
        /\ \A id : Stock(pocket', id) + AwayOf(g_RemovedPokeBalls', id) = Stock(pocket, id)
    BY <2>1, <2>2, TakenStock DEF Inv, StockInv
  <2>4. \A id : Away(id) = 0
    BY <1>2, <2>2, NothingAway
  <2>5. Balanced'
    <3> SUFFICES ASSUME NEW id \in Balls \cup Goods
                 PROVE  Stock(pocket', id) + Away(id)' = owned'[id]
      BY DEF Balanced
    <3>1. Stock(pocket', id) + Away(id)' = Stock(pocket, id)
      BY <1>2, <2>3
    <3> QED BY <1>1, <1>3, <2>4, <3>1
  <2> QED BY <1>1, <2>3, <2>5 DEF StockInv
<1>6. CASE ~(g_wasInBattle /\ ~isBattle) /\ ~(~g_wasInBattle /\ isBattle /\ ShouldRemove)
  <2>1. UNCHANGED <<pocket, g_RemovedPokeBalls>>
    BY <1>6 DEF ExportParty, RemovePokeballs
  <2> QED BY <1>1, <2>1, StockSame
<1> QED BY <1>4, <1>5, <1>6

LEMMA NextStock ==
    ASSUME RoomForAll, Inv, StockInv, [Next]_vars
    PROVE  StockInv'
<1>1. CASE ExportParty
  BY <1>1, ExportPartyStock
<1>2. CASE CheckDeadPokemon
  BY <1>2, StockSame DEF CheckDeadPokemon, gameVars, histVars
<1>3. CASE Restarts
  BY <1>3, RestartsStock
<1>4. CASE \E id \in Balls \cup Goods : Gains(id)
  BY <1>4, GainsStock
<1>5. CASE \E k \in DOMAIN pocket : Uses(k) \/ \E caught \in BOOLEAN : Throws(k, caught)
  <2>1. PICK k \in DOMAIN pocket : Uses(k) \/ \E caught \in BOOLEAN : Throws(k, caught)
    BY <1>5
  <2>2. /\ pocket' = UseUp(k) /\ owned' = [owned EXCEPT ![pocket[k].id] = @ - 1]
        /\ UNCHANGED g_RemovedPokeBalls
    BY <2>1 DEF Uses, Throws, supVars
  <2> QED BY <2>2, UsesStock
<1>6. CASE Game /\ ~(\E id \in Balls \cup Goods : Gains(id))
           /\ ~(\E k \in DOMAIN pocket : Uses(k) \/ \E caught \in BOOLEAN : Throws(k, caught))
  <2>1. UNCHANGED <<pocket, g_RemovedPokeBalls, owned>>
    BY <1>6 DEF Game, BattleBegins, BattleEnds, UsesMove, Faints, Heals, GainsExperience,
                GetsCandies, gameVars, supVars, histVars
  <2> QED BY <2>1, StockSame
<1>7. CASE UNCHANGED vars
  BY <1>7, StockSame DEF vars, gameVars, supVars, histVars
<1> QED BY <1>1, <1>2, <1>3, <1>4, <1>5, <1>6, <1>7 DEF Next, Supervisor

LEMMA StockInvariance == RoomForAll => (Spec => []StockInv)
<1> SUFFICES ASSUME RoomForAll PROVE Spec => []StockInv
  OBVIOUS
<1>1. Inv /\ StockInv /\ [Next]_vars => StockInv'
  BY NextStock
<1> QED BY <1>1, InitStock, Invariance, PTL DEF Spec

\* For any balls and items that have room in the pocket: RemovePokeballs and
\* RestorePokeballs neither lose nor make an item, nor open a second stack of one,
\* whatever is found and used meanwhile.
THEOREM ItemsAreConserved == RoomForAll => (Spec => []ItemsConserved)
<1> SUFFICES ASSUME RoomForAll PROVE Spec => []ItemsConserved
  OBVIOUS
<1>1. StockInv => ItemsConserved
  <2> SUFFICES ASSUME StockInv, NEW id \in Balls \cup Goods
               PROVE  /\ \A k, l \in Index(id) : k = l
                      /\ Quantity(id) + Away(id) = owned[id]
    BY DEF ItemsConserved
  <2>1. Quantity(id) = Stock(pocket, id)
    BY DEF Quantity, Index, Stock, Stacks
  <2>2. \A k, l \in Index(id) : k = l
    BY DEF Index, StockInv, OneStack
  <2> QED BY <2>1, <2>2 DEF StockInv, Balanced
<1> QED BY <1>1, StockInvariance, PTL

\* Under the same assumption the state of the game and of the supervisor keep their
\* types: in particular no entry of quantity zero stays in the pocket, and the pocket
\* never needs more slots than it has.
THEOREM ChallengeTyped == RoomForAll => (Spec => []TypeOK)
<1> SUFFICES ASSUME RoomForAll PROVE Spec => []TypeOK
  OBVIOUS
<1>1. Inv /\ StockInv => TypeOK
  <2> SUFFICES ASSUME Inv, StockInv PROVE TypeOK
    OBVIOUS
  <2>1. PICK p : p = pocket
    OBVIOUS
  <2>2. Len(p) <= SLOT_COUNT
    BY <2>1, PocketFits DEF Inv, Basics, StockInv
  <2> QED BY <2>1, <2>2 DEF Inv, Basics, StockInv, TypeOK
<1> QED BY <1>1, Invariance, StockInvariance, PTL
===============================================================================
