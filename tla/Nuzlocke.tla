------------------------------- MODULE Nuzlocke -------------------------------
(***************************************************************************)
(* The automated rules of a Nuzlocke challenge (core/poke_export.cpp,      *)
(* core/poke_capture.cpp): a supervisor that samples the memory of the     *)
(* game from SetCurrentPageTable, every 100 ms for fainted pokemon and     *)
(* every 2 s for everything else, and that edits the memory of the game.   *)
(*                                                                         *)
(* The game (external) changes its memory between two samples.  Its        *)
(* actions that need Noticed assume that the introduction and the end of a *)
(* battle outlast the 2 s period, so that no battle goes unnoticed.        *)
(*                                                                         *)
(* A pokemon is its slot in the party.  Two pokemon of a party never look  *)
(* alike (species, item, ability, moves and PP together).                  *)
(*                                                                         *)
(* The files of the challenge can be read and written, each as a whole:    *)
(* after a failed open of visRou.bin (poke_capture.cpp 137), or a write    *)
(* that the end of the process cuts short, the next load forgets the mark. *)
(***************************************************************************)
EXTENDS Integers, Lists, TLC

CONSTANTS
    None,
    Routes,        \* map ids with wild pokemon
    PartySize,     \* pokemon carried, at most PARTY_SIZE
    Balls,         \* item ids of the balls in the game: 1 to 16, and 576
    Goods,         \* other item ids of the same pocket
    MaxItems,      \* bound on the number of items the player has at once
    SLOT_COUNT     \* slots of the pocket

Slot == 1 .. PartySize
Item == [id : Balls \cup Goods, qty : Nat \ {0}]

ASSUME NuzlockeAssumption ==
    /\ PartySize \in Nat /\ SLOT_COUNT \in Nat /\ MaxItems \in Nat
    /\ Balls \subseteq (1 .. 16) \cup {576} /\ ~({16, 576} \subseteq Balls)
    /\ Goods \subseteq Nat \ ((0 .. 16) \cup {576})
    /\ None \notin Slot \cup Item

VARIABLES
    \* memory of the game
    battle,            \* "none", or what the battle is against
    route,             \* the map id
    order,             \* battle slot -> party slot, the identity outside battle
    hp0,               \* party slots without HP
    dead,              \* party slots turned into a dead Shedinja
    overCap,           \* has a pokemon of the party experience above the level cap
    candies,           \* rare candies in the medicine pocket
    pocket,            \* the item pocket: the entries in use
    \* state of the supervisor
    g_wasInBattle, g_pending_delete,
    g_battleData,      \* party slot that the data read for a battle slot shows, or None
    pokemonCarried,
    g_RemovedPokeBalls,\* index -> entry, or None
    \* files
    haspkb,            \* the player has had a ball
    visRou,            \* routes visited
    \* what happened
    owned,             \* quantities the player got and did not use
    fainted,           \* party slots that lost their HP in this battle
    captures           \* what was captured on each route, exempt battles aside

gameVars == <<battle, route, order, hp0, dead, overCap, candies, pocket>>
supVars  == <<g_wasInBattle, g_pending_delete, g_battleData, pokemonCarried, g_RemovedPokeBalls>>
fileVars == <<haspkb, visRou>>
histVars == <<owned, fainted, captures>>
vars == <<gameVars, supVars, fileVars, histVars>>

\* What the rules tell apart: a trainer; any battle of the Delta Episode (DEp_Map.bin);
\* a wild shiny, legendary or already owned (evolution line) pokemon; an ordinary one.
Kind == {"trainer", "delta", "shiny", "legendary", "owned", "wild"}

isBattle == battle # "none"

Order == {f \in [Slot -> Slot] : \A i, j \in Slot : f[i] = f[j] => i = j}

TypeOK ==
    /\ battle \in Kind \cup {"none"} /\ route \in Routes /\ order \in Order
    /\ hp0 \subseteq Slot /\ dead \subseteq Slot
    /\ overCap \in BOOLEAN /\ candies \in BOOLEAN
    /\ pocket \in Seq(Item) /\ Len(pocket) <= SLOT_COUNT
    /\ g_wasInBattle \in BOOLEAN /\ g_pending_delete \subseteq Slot
    /\ g_battleData \in [Slot -> Slot \cup {None}]
    /\ pokemonCarried \in 0 .. PartySize
    /\ g_RemovedPokeBalls \in [1 .. 16 -> Item \cup {None}]
    /\ haspkb \in BOOLEAN /\ visRou \subseteq Routes
    /\ owned \in [Balls \cup Goods -> Nat]
    /\ fainted \subseteq Slot /\ captures \in [Routes -> Seq(Kind)]

NothingRemoved == [i \in 1 .. 16 |-> None]

Init ==
    /\ battle = "none" /\ route \in Routes /\ order = [i \in Slot |-> i]
    /\ hp0 = {} /\ dead = {} /\ overCap = FALSE /\ candies = FALSE
    /\ pocket = <<>>
    /\ g_wasInBattle = FALSE /\ g_pending_delete = {}
    /\ g_battleData = [i \in Slot |-> None] /\ pokemonCarried = 0
    /\ g_RemovedPokeBalls = NothingRemoved
    /\ haspkb = FALSE /\ visRou = {}
    /\ owned = [i \in Balls \cup Goods |-> 0]
    /\ fainted = {} /\ captures = [r \in Routes |-> <<>>]

-------------------------------------------------------------------------------
(* Taking the balls away and giving them back                              *)

\* Entry of g_RemovedPokeBalls that keeps the balls with an id.
RemovedIndex(id) == IF id = 576 THEN 16 ELSE id

IsBall(item) == item.id \in (1 .. 16) \cup {576}

\* The last entry of the pocket that goes to an index.
RemovedAt(i) ==
    LET at == {k \in DOMAIN pocket : IsBall(pocket[k]) /\ RemovedIndex(pocket[k].id) = i}
    IN  IF at = {} THEN g_RemovedPokeBalls[i]
        ELSE pocket[CHOOSE k \in at : \A l \in at : l <= k]

TakeBallsWithoutPurge ==
    /\ g_RemovedPokeBalls' = [i \in 1 .. 16 |-> RemovedAt(i)]
    /\ pocket' = [k \in DOMAIN pocket |-> IF IsBall(pocket[k]) THEN [pocket[k] EXCEPT !.qty = 0]
                                          ELSE pocket[k]]

\* The loop of RemovePokeballs and RemoveEmptySlots.
TakeBalls ==
    /\ g_RemovedPokeBalls' = [i \in 1 .. 16 |-> RemovedAt(i)]
    /\ pocket' = Keep(pocket, {item \in ToSet(pocket) : ~IsBall(item)})

\* RestorePokeballs: the pocket moves down, and what does not fit is gone.
Returned == Keep(g_RemovedPokeBalls, ToSet(g_RemovedPokeBalls) \ {None})
RestorePokeballsAndKeep ==
    LET full == Returned \o pocket
    IN  /\ pocket' = SubSeq(full, 1, IF Len(full) < SLOT_COUNT THEN Len(full) ELSE SLOT_COUNT)
        /\ UNCHANGED g_RemovedPokeBalls
RestorePokeballs ==
    LET full == Returned \o pocket
    IN  /\ pocket' = SubSeq(full, 1, IF Len(full) < SLOT_COUNT THEN Len(full) ELSE SLOT_COUNT)
        /\ g_RemovedPokeBalls' = NothingRemoved

\* RemovePokeballs creates the flag when the pocket holds a ball other than 576.
HasPkb == haspkb \/ \E k \in DOMAIN pocket : IsBall(pocket[k]) /\ pocket[k].id # 576

\* ShouldRemove, in the order of its tests.
ShouldRemove ==
    \/ battle \in {"legendary", "owned"}
    \/ battle = "wild" /\ route \in visRou

MarkedBeforeFlag ==
    IF battle = "shiny" \/ (battle = "wild" /\ haspkb)
    THEN visRou \cup {route} ELSE visRou

\* The routes it marks: for a shiny pokemon at once, for an ordinary one once the
\* player has had a ball.
Marked ==
    IF battle = "shiny" \/ (battle = "wild" /\ HasPkb)
    THEN visRou \cup {route} ELSE visRou

RemovePokeballs ==
    /\ haspkb' = HasPkb
    /\ visRou' = Marked
    /\ IF ShouldRemove THEN TakeBalls ELSE UNCHANGED <<pocket, g_RemovedPokeBalls>>

-------------------------------------------------------------------------------
(* The samples                                                             *)

\* CheckDeadPokemon marks battle slots without HP.  It looks at the party slot
\* of the same number only to see that somebody is there.
Dying == {b \in 1 .. pokemonCarried : isBattle /\ haspkb /\ order[b] \in hp0}

\* DeleteFaintedPokemon turns the party slots that match a marked battle slot
\* into a dead Shedinja, whether or not the write can be verified.
Converted(data, marked) == {s \in Slot : \E b \in marked : b <= pokemonCarried' /\ data[b] = s}

\* The converted pokemon no longer matches what was read of it.
Forget(data, gone) == [b \in Slot |-> IF data[b] \in gone THEN None ELSE data[b]]

DeleteFaintedPokemonKeepingMarks(data, marked) ==
    /\ dead' = dead \cup Converted(data, marked)
    /\ hp0' = hp0 \cup Converted(data, marked)
    /\ g_battleData' = Forget(data, Converted(data, marked))
    /\ g_pending_delete' = marked
DeleteFaintedPokemon(data, marked) ==
    /\ dead' = dead \cup Converted(data, marked)
    /\ hp0' = hp0 \cup Converted(data, marked)
    /\ g_battleData' = Forget(data, Converted(data, marked))
    /\ g_pending_delete' = {}

\* LevelCapAdjustment, outside battle: experience above the cap is cut, a whole
\* level above it (a choice here) costs the candies.
LevelCapAdjustment ==
    /\ overCap' = (overCap /\ isBattle)
    /\ \/ UNCHANGED candies
       \/ overCap /\ ~isBattle /\ candies /\ candies' = FALSE

\* ReadBattleSlot gives nothing for slots past the pokemon counted last time.
ReadBattle ==
    [b \in Slot |-> IF ~isBattle THEN g_battleData[b]
                    ELSE IF b <= pokemonCarried THEN order[b] ELSE None]

\* The 100 ms branch of MaybeExportParty.
CheckDeadPokemon ==
    /\ g_pending_delete' = g_pending_delete \cup Dying
    /\ UNCHANGED <<gameVars, g_wasInBattle, g_battleData, pokemonCarried, g_RemovedPokeBalls,
                   fileVars, histVars>>

\* The 2 s branch comes with the 100 ms branch: CheckDeadPokemon, then ExportParty
\* (read, LevelCapAdjustment, CheckBattleTransition).
ExportParty ==
    LET data == ReadBattle
        marked == g_pending_delete \cup Dying
    IN  /\ pokemonCarried' = PartySize
        /\ g_wasInBattle' = isBattle
        /\ IF g_wasInBattle /\ ~isBattle
           THEN \* OnBattleEnded
                /\ RestorePokeballs
                /\ DeleteFaintedPokemon(data, marked)
                /\ fainted' = {}
                /\ UNCHANGED fileVars
           ELSE /\ g_battleData' = data
                /\ g_pending_delete' = marked
                /\ UNCHANGED <<dead, hp0, fainted>>
                /\ IF ~g_wasInBattle /\ isBattle
                   THEN RemovePokeballs  \* OnBattleStarted
                   ELSE UNCHANGED <<pocket, g_RemovedPokeBalls, fileVars>>
        /\ LevelCapAdjustment
        /\ UNCHANGED <<battle, route, order, owned, captures>>

-------------------------------------------------------------------------------
(* The game (external)                                                     *)

Noticed == g_wasInBattle = isBattle

\* A battle begins; fainted pokemon may take part, without HP.
BattleBegins(k, r, f) ==
    /\ ~isBattle /\ Noticed
    /\ battle' = k /\ route' = r /\ order' = f
    /\ fainted' = hp0
    /\ UNCHANGED <<hp0, dead, overCap, candies, pocket, supVars, fileVars, owned, captures>>

BattleEnds ==
    /\ isBattle /\ Noticed
    /\ battle' = "none" /\ order' = [i \in Slot |-> i]
    /\ UNCHANGED <<route, hp0, dead, overCap, candies, pocket, supVars, fileVars, histVars>>

\* A move changes the PP: what was read of the pokemon no longer matches.
UsesMove(b) ==
    /\ isBattle /\ order[b] \notin hp0
    /\ g_battleData' = [g_battleData EXCEPT ![b] = None]
    /\ UNCHANGED <<gameVars, g_wasInBattle, g_pending_delete, pokemonCarried,
                   g_RemovedPokeBalls, fileVars, histVars>>

Faints(b) ==
    /\ isBattle /\ order[b] \notin hp0
    /\ hp0' = hp0 \cup {order[b]} /\ fainted' = fainted \cup {order[b]}
    /\ UNCHANGED <<battle, route, order, dead, overCap, candies, pocket, supVars, fileVars, owned,
                   captures>>

\* A pokemon center heals everyone but the dead, whose maximum is restored too.
Heals ==
    /\ ~isBattle /\ hp0 # {}
    /\ hp0' = {}
    /\ g_battleData' = [b \in Slot |-> None]
    /\ UNCHANGED <<battle, route, order, dead, overCap, candies, pocket, g_wasInBattle,
                   g_pending_delete, pokemonCarried, g_RemovedPokeBalls, fileVars, histVars>>

\* Experience comes from battles and from candies.
GainsExperience ==
    /\ isBattle \/ candies
    /\ ~overCap /\ overCap' = TRUE
    /\ UNCHANGED <<battle, route, order, hp0, dead, candies, pocket, supVars, fileVars, histVars>>

Index(id) == {k \in DOMAIN pocket : pocket[k].id = id}

\* An item is found outside battle: it joins its stack or opens one at the end.
\* Balls with the id 576 are found late in the game only, and no ball is found
\* before the balls taken for the last battle are back.
Gains(id) ==
    /\ ~isBattle /\ FoldFunction(+, 0, owned) < MaxItems
    /\ (id \in Balls => Noticed) /\ (id = 576 => haspkb)
    /\ \/ \E k \in Index(id) : pocket' = [pocket EXCEPT ![k].qty = @ + 1]
       \/ Index(id) = {} /\ Len(pocket) < SLOT_COUNT
             /\ pocket' = Append(pocket, [id |-> id, qty |-> 1])
    /\ owned' = [owned EXCEPT ![id] = @ + 1]
    /\ UNCHANGED <<battle, route, order, hp0, dead, overCap, candies, supVars, fileVars, fainted,
                   captures>>

UseUp(k) ==
    IF pocket[k].qty = 1 THEN RemoveAt(pocket, k) ELSE [pocket EXCEPT ![k].qty = @ - 1]

Uses(k) ==
    /\ ~IsBall(pocket[k])
    /\ pocket' = UseUp(k)
    /\ owned' = [owned EXCEPT ![pocket[k].id] = @ - 1]
    /\ UNCHANGED <<battle, route, order, hp0, dead, overCap, candies, supVars, fileVars, fainted,
                   captures>>

\* A ball is thrown in a wild battle; a capture ends the battle.
Throws(k, caught) ==
    /\ isBattle /\ battle # "trainer" /\ Noticed
    /\ IsBall(pocket[k])
    /\ pocket' = UseUp(k)
    /\ owned' = [owned EXCEPT ![pocket[k].id] = @ - 1]
    /\ captures' = IF caught /\ battle \notin {"shiny", "delta"}
                   THEN [captures EXCEPT ![route] = Append(@, battle)] ELSE captures
    /\ battle' = IF caught THEN "none" ELSE battle
    /\ order' = IF caught THEN [i \in Slot |-> i] ELSE order
    /\ UNCHANGED <<route, hp0, dead, overCap, candies, supVars, fileVars, fainted>>

\* Candies are bought or found.
GetsCandies ==
    /\ ~isBattle /\ ~candies /\ candies' = TRUE
    /\ UNCHANGED <<battle, route, order, hp0, dead, overCap, pocket, supVars, fileVars, histVars>>

Quantity(id) == IF Index(id) = {} THEN 0 ELSE pocket[CHOOSE k \in Index(id) : TRUE].qty
Away(id) ==
    LET e == g_RemovedPokeBalls[RemovedIndex(id)]
    IN  IF id \in Balls /\ e # None /\ e.id = id THEN e.qty ELSE 0

\* The emulator is closed and the savestate it took is loaded at the next start:
\* the memory of the game is what it was, the state of the supervisor is new, and
\* balls that were away are lost.  Left out are a game that is stopped and booted
\* again by the same process, which keeps the state of the supervisor, and a start
\* without a savestate, which goes back to the last save of the game.
Restarts ==
    /\ g_wasInBattle' = FALSE /\ g_pending_delete' = {}
    /\ g_battleData' = [b \in Slot |-> None] /\ pokemonCarried' = 0
    /\ g_RemovedPokeBalls' = NothingRemoved
    /\ owned' = [id \in Balls \cup Goods |-> owned[id] - Away(id)]
    /\ UNCHANGED <<gameVars, fileVars, fainted, captures>>

Supervisor == CheckDeadPokemon \/ ExportParty

Game ==
    \/ \E k \in Kind, r \in Routes, f \in Order : BattleBegins(k, r, f)
    \/ BattleEnds \/ Heals \/ GetsCandies \/ GainsExperience
    \/ \E s \in Slot : UsesMove(s) \/ Faints(s)
    \/ \E id \in Balls \cup Goods : Gains(id)
    \/ \E k \in DOMAIN pocket : Uses(k) \/ \E caught \in BOOLEAN : Throws(k, caught)

Next == Supervisor \/ Game \/ Restarts

Spec == Init /\ [][Next]_vars

\* No rule tells one route from another.
RouteSymmetry == Permutations(Routes)

-------------------------------------------------------------------------------
(* Properties                                                              *)

\* Taking the balls for a battle and returning them after it neither loses nor
\* makes items nor opens a second stack of one, whatever the player finds and uses
\* meanwhile ("Devuelve las PokeBalls", poke_capture.cpp 438), as long as the
\* process lives.
ItemsConserved ==
    \A id \in Balls \cup Goods :
        /\ \A k, l \in Index(id) : k = l
        /\ Quantity(id) + Away(id) = owned[id]

\* A route gives at most one ordinary capture ("Capture limit per route", README
\* 6) and never a legendary or an already owned pokemon, across restarts of the
\* emulator, when the samples keep up with the game.
OneCapturePerRoute == \A r \in Routes : captures[r] \in {<<>>, <<"wild">>}

\* Only a pokemon that was without HP in the battle that ended is turned into a
\* dead one (poke_export.cpp 971): marks and battle data never carry over to
\* another battle or another pokemon.
OnlyFaintedDie == [][dead' \ dead \subseteq fainted]_vars
===============================================================================
