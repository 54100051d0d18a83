------------------------------ MODULE Character ------------------------------
(***************************************************************************)
(* One player's day on one node: the character row and the turn_state row  *)
(* (engine/store.go turn economy), the sessions that play the character    *)
(* from a copy they loaded at login (game/module.go Run, theLow, explore,  *)
(* fight, rest, bonesetter), and raids on the sleeping character, which    *)
(* load the row, fight, and write the whole row back.                      *)
(*                                                                         *)
(* A step is one statement or one key press.  Days are counted twice: by   *)
(* the calendar (today), and by turn_state.day_index, which grows with     *)
(* every reset.                                                            *)
(***************************************************************************)
EXTENDS Integers, FiniteSets

CONSTANTS
    Session,
    MaxHP,
    MainActions,    \* expeditions per day (15)
    Attacks,        \* attacks on rivals per day (3)
    RestsPerDay,    \* 3
    Bestiary,       \* Bestiary[b]: strengths of the creatures of band b
    Defense,        \* the character's defense with its armor
    MaxDepth,       \* bound: bands explored
    MaxDay,         \* bound: calendar days
    MaxIndex,       \* bound: resets of the daily budget
    MaxMoves,       \* bound: logins and choices at a menu
    MaxFaults       \* bound: crashes and raids

ASSUME CharacterAssumption ==
    /\ MaxHP \in Nat \ {0} /\ Defense \in Nat
    /\ MainActions \in Nat /\ Attacks \in Nat /\ RestsPerDay \in Nat
    /\ 1 \in DOMAIN Bestiary
    /\ \A b \in DOMAIN Bestiary : b \in Nat /\ Bestiary[b] \subseteq Nat /\ Bestiary[b] # {}
    /\ MaxDepth \in Nat /\ MaxDay \in Nat /\ MaxIndex \in Nat /\ MaxMoves \in Nat /\ MaxFaults \in Nat
    /\ "raid" \notin Session

VARIABLES
    today,      \* the calendar day
    row,        \* the char_state row, or NoChar
    turn,       \* the turn_state row
    pc,         \* pc[s]: where session s stands
    copy,       \* copy[s]: its charState
    held,       \* held[s]: the clock it read at login, the band of its expedition, or
                \* the actions left at its death
    raid,       \* the copy a raid loaded, or NoChar
    stale,      \* history: holders of a copy that somebody else has overwritten
    clobbered,  \* history: a stale copy was saved
    overlap,    \* history: two sessions were in the game at once
    raced,      \* history: two logins were between reading and writing turn_state
    outings, sorties, rests, \* history: expeditions, attacks and rests since the last reset
    grants,     \* history: daily budgets granted that are dated like the last one
    died,       \* history: the day_index of the last death
    moves,      \* bounded by MaxMoves
    faults

historyVars == <<outings, sorties, rests, grants, died>>
bounds      == <<moves, faults>>
ghostVars   == <<stale, clobbered, overlap, raced>>
vars == <<today, row, turn, pc, copy, held, raid, stale, clobbered, overlap, raced,
          outings, sorties, rests, grants, died, moves, faults>>

\* NewCharacter.
NewChar == [hp |-> MaxHP, depth |-> 0, blooded |-> FALSE, tutorial |-> FALSE,
            rests |-> 0, restDay |-> -1, deadDay |-> -1]

NoChar == [NewChar EXCEPT !.hp = 0]

\* InsertPlayer gives a new player a full budget of day 0.
Init ==
    /\ today = 0
    /\ row = NoChar
    /\ turn = [actions |-> MainActions, attacks |-> Attacks, last |-> 0, index |-> 0]
    /\ pc = [s \in Session |-> "out"]
    /\ copy = [s \in Session |-> NoChar]
    /\ held = [s \in Session |-> 0]
    /\ raid = NoChar
    /\ stale = {} /\ clobbered = FALSE /\ overlap = FALSE /\ raced = FALSE
    /\ outings = 0 /\ sorties = 0 /\ rests = 0 /\ grants = 1 /\ died = -1
    /\ moves = 0 /\ faults = 0

Move == moves < MaxMoves /\ moves' = moves + 1

GotoHolding(s, where, value) ==
    /\ pc' = [pc EXCEPT ![s] = where]
    /\ held' = [held EXCEPT ![s] = value]

Goto(s, where) == GotoHolding(s, where, 0)

Holders == {s \in Session : pc[s] \notin {"out", "create"}} \cup {x \in {"raid"} : raid # NoChar}

\* saveChar(r) by holder w.
Save(w, r) ==
    /\ row' = r
    /\ stale' = stale \cup (Holders \ {w})
    /\ clobbered' = (clobbered \/ w \in stale)

\* A session step that changes its copy to c and saves it.
SaveCopy(s, c, where) ==
    /\ copy' = [copy EXCEPT ![s] = c]
    /\ Save(s, c)
    /\ Goto(s, where)

NextDay ==
    /\ today < MaxDay
    /\ today' = today + 1
    /\ UNCHANGED <<row, turn, pc, copy, held, raid, ghostVars, historyVars, bounds>>

-----------------------------------------------------------------------------
(* Run: entering the game. *)

\* loadChar.
Enter(s) ==
    /\ pc[s] = "out"
    /\ Move
    /\ overlap' = (overlap \/ \E t \in Session : pc[t] # "out")
    /\ IF row = NoChar
       THEN Goto(s, "create") /\ UNCHANGED copy
       ELSE Goto(s, "login") /\ copy' = [copy EXCEPT ![s] = row]
    /\ UNCHANGED <<today, row, turn, raid, stale, clobbered, raced, historyVars, faults>>

\* NewCharacter: the INSERT fails when another session was faster.
Create(s) ==
    /\ pc[s] = "create"
    /\ IF row = NoChar
       THEN /\ row' = NewChar
            /\ copy' = [copy EXCEPT ![s] = NewChar]
            /\ Goto(s, "login")
       ELSE Goto(s, "out") /\ UNCHANGED <<row, copy>>
    /\ UNCHANGED <<today, turn, raid, ghostVars, historyVars, bounds>>

\* ResetIfNewDay reads turn_state and the clock.
LoginRead(s) ==
    /\ pc[s] = "login"
    /\ IF turn.last = today
       THEN Goto(s, "greet") /\ UNCHANGED raced
       ELSE GotoHolding(s, "reset", today) /\ raced' = (raced \/ \E t \in Session : pc[t] = "reset")
    /\ UNCHANGED <<today, row, turn, copy, raid, stale, clobbered, overlap,
                   historyVars, bounds>>

\* What the UPDATE of ResetIfNewDay does, dated day.
ResetWith(s, day) ==
    /\ pc[s] = "reset"
    /\ turn.index < MaxIndex
    /\ turn' = [actions |-> MainActions, attacks |-> Attacks, last |-> day, index |-> turn.index + 1]
    /\ outings' = 0 /\ sorties' = 0 /\ rests' = 0
    /\ grants' = IF day = turn.last THEN grants + 1 ELSE 1
    /\ Goto(s, "heal")
    /\ UNCHANGED <<today, row, copy, raid, ghostVars, died, bounds>>

\* The UPDATE, dated with the clock that was read.
LoginReset(s) == ResetWith(s, held[s])

\* A new day mends the character.
Heal(s) ==
    /\ pc[s] = "heal"
    /\ SaveCopy(s, [copy[s] EXCEPT !.hp = MaxHP], "greet")
    /\ UNCHANGED <<today, turn, raid, overlap, raced, historyVars, bounds>>

\* The arrival text is shown once, then the menus.
Greet(s) ==
    /\ pc[s] = "greet"
    /\ IF copy[s].tutorial
       THEN Goto(s, "menu") /\ UNCHANGED <<row, copy, stale, clobbered>>
       ELSE SaveCopy(s, [copy[s] EXCEPT !.tutorial = TRUE], "menu")
    /\ UNCHANGED <<today, turn, raid, overlap, raced, historyVars, bounds>>

\* The player leaves, or the connection is lost at a menu.
Leave(s) ==
    /\ pc[s] = "menu"
    /\ Goto(s, "out")
    /\ copy' = [copy EXCEPT ![s] = NoChar]
    /\ stale' = stale \ {s}
    /\ UNCHANGED <<today, row, turn, raid, clobbered, overlap, raced, historyVars, bounds>>

-----------------------------------------------------------------------------
(* Expeditions. *)

\* isDeadToday, against the day_index of this moment.
DeadToday(s) == copy[s].deadDay = turn.index

\* Mutant: MAX(0, actions - n).
SpentFloored(n) == turn' = [turn EXCEPT !.actions = IF @ >= n THEN @ - n ELSE 0]

\* SpendActions(n): one guarded UPDATE.
Spent(n) == turn.actions >= n /\ turn' = [turn EXCEPT !.actions = @ - n]

\* explore: the dead stay at home, an expedition is spent, and a creature
\* waits in the band.
Explore(s, deep) ==
    /\ pc[s] = "menu"
    /\ Move
    /\ ~DeadToday(s)
    /\ Spent(1)
    /\ LET b == IF ~deep THEN 1 ELSE IF copy[s].depth + 1 < 2 THEN 2 ELSE copy[s].depth + 1
       IN  b <= MaxDepth /\ GotoHolding(s, "fight", b)
    /\ outings' = outings + 1
    /\ UNCHANGED <<today, row, copy, raid, ghostVars, sorties, rests, grants, died, faults>>

\* creatureForBand: the deepest band at or above this one that has creatures.
Creatures(b) ==
    UNION {Bestiary[k] : k \in {i \in DOMAIN Bestiary :
                                  /\ i <= b
                                  /\ \A j \in DOMAIN Bestiary : j <= b => j <= i}}

\* Damage without crits (a creature has no luck): raw power within a fifth up
\* or down, rounded, and at least 1.
Damage(power, defense) ==
    LET raw == IF power - (defense \div 2) < 1 THEN 1 ELSE power - (defense \div 2)
        low == (8 * raw + 5) \div 10
        high == (12 * raw + 4) \div 10
    IN  (IF low < 1 THEN 1 ELSE low) .. (IF high < 1 THEN 1 ELSE high)

\* Mutant: the band of the last expedition is the record.
FightWonLast(s) ==
    /\ pc[s] = "fight"
    /\ SaveCopy(s, [copy[s] EXCEPT !.blooded = TRUE, !.depth = held[s]], "menu")
    /\ UNCHANGED <<today, turn, raid, overlap, raced, historyVars, bounds>>

\* The creature falls: goods, and a deeper record after a deep expedition.
FightWon(s) ==
    /\ pc[s] = "fight"
    /\ LET c == copy[s]
           deepest == IF held[s] > 1 /\ held[s] > c.depth THEN held[s] ELSE c.depth
       IN  SaveCopy(s, [c EXCEPT !.blooded = TRUE, !.depth = deepest], "menu")
    /\ UNCHANGED <<today, turn, raid, overlap, raced, historyVars, bounds>>

\* Mutant: the blow that kills is stored as it fell.
FightHitRaw(s) ==
    /\ pc[s] = "fight"
    /\ \E power \in Creatures(held[s]) : \E d \in Damage(power, Defense) :
         /\ copy' = [copy EXCEPT ![s].hp = @ - d]
         /\ GotoHolding(s, IF copy[s].hp - d <= 0 THEN "dying" ELSE "fight", held[s])
    /\ UNCHANGED <<today, row, turn, raid, ghostVars, historyVars, bounds>>

\* The creature hits back, after a strike or a failed flight; who falls is
\* left with 1 HP (die emits player.died).
FightHit(s) ==
    /\ pc[s] = "fight"
    /\ \E power \in Creatures(held[s]) : \E d \in Damage(power, Defense) :
         IF copy[s].hp - d <= 0
         THEN copy' = [copy EXCEPT ![s].hp = 1] /\ Goto(s, "dying")
         ELSE copy' = [copy EXCEPT ![s].hp = @ - d] /\ GotoHolding(s, "fight", held[s])
    /\ UNCHANGED <<today, row, turn, raid, ghostVars, historyVars, bounds>>

\* Mutant: a lost connection ends the fight without the save.
FightFledUnsaved(s) ==
    /\ pc[s] = "fight"
    /\ copy' = [copy EXCEPT ![s].blooded = TRUE]
    /\ Goto(s, "menu")
    /\ UNCHANGED <<today, row, turn, raid, ghostVars, historyVars, bounds>>

\* The flight succeeds, or the connection is lost: fightFled either way.
FightFled(s) ==
    /\ pc[s] = "fight"
    /\ SaveCopy(s, [copy[s] EXCEPT !.blooded = TRUE], "menu")
    /\ UNCHANGED <<today, turn, raid, overlap, raced, historyVars, bounds>>

\* Mutant: the day is drained and not marked.
DieUnmarked(s) ==
    /\ pc[s] = "dying"
    /\ LET c == [copy[s] EXCEPT !.blooded = TRUE]
       IN  copy' = [copy EXCEPT ![s] = c] /\ Save(s, c)
    /\ GotoHolding(s, "drain", turn.actions)
    /\ died' = turn.index
    /\ UNCHANGED <<today, turn, raid, overlap, raced, outings, sorties, rests, grants, bounds>>

\* Death: the turn is read, and the day marked as lost ...
Die(s) ==
    /\ pc[s] = "dying"
    /\ LET c == [copy[s] EXCEPT !.blooded = TRUE, !.deadDay = turn.index]
       IN  copy' = [copy EXCEPT ![s] = c] /\ Save(s, c)
    /\ GotoHolding(s, "drain", turn.actions)
    /\ died' = turn.index
    /\ UNCHANGED <<today, turn, raid, overlap, raced, outings, sorties, rests, grants, bounds>>

\* ... and what was left of it is spent, if it is still all there.
Drain(s) ==
    /\ pc[s] = "drain"
    /\ Goto(s, "menu")
    /\ turn' = [turn EXCEPT !.actions = IF @ >= held[s] THEN @ - held[s] ELSE @]
    /\ UNCHANGED <<today, row, copy, raid, ghostVars, historyVars, bounds>>

-----------------------------------------------------------------------------
(* Mending, and attacks on others. *)

\* Mutant: every login starts with no rests used.
RestsUsedNone(s) == 0

\* The rests of the current day_index.
RestsUsed(s) == IF copy[s].restDay = turn.index THEN copy[s].rests ELSE 0

\* rest.
Rest(s) ==
    /\ pc[s] = "menu"
    /\ Move
    /\ copy[s].hp < MaxHP
    /\ RestsUsed(s) < RestsPerDay
    /\ LET mended == copy[s].hp + (MaxHP * 30) \div 100
       IN  SaveCopy(s, [copy[s] EXCEPT !.restDay = turn.index, !.rests = RestsUsed(s) + 1,
                                       !.hp = IF mended > MaxHP THEN MaxHP ELSE mended], "menu")
    /\ rests' = rests + 1
    /\ UNCHANGED <<today, turn, raid, overlap, raced, outings, sorties, grants,
                   died, faults>>

\* A rest refused, whole or too often, has already turned the copy's page.
RestRefused(s) ==
    /\ pc[s] = "menu"
    /\ copy[s].hp >= MaxHP \/ RestsUsed(s) >= RestsPerDay
    /\ copy[s].restDay # turn.index
    /\ copy' = [copy EXCEPT ![s].restDay = turn.index, ![s].rests = 0]
    /\ UNCHANGED <<today, row, turn, pc, held, raid, ghostVars, historyVars, bounds>>

\* bonesetter; the fee is in Obligations.
Mend(s) ==
    /\ pc[s] = "menu"
    /\ Move
    /\ copy[s].hp < MaxHP
    /\ SaveCopy(s, [copy[s] EXCEPT !.hp = MaxHP], "menu")
    /\ UNCHANGED <<today, turn, raid, overlap, raced, historyVars, faults>>

\* attackMenu: an attack is spent.  Against a rival of this node the wounds of
\* the bout are saved; against one elsewhere nothing is.  PvP has the rest.
AttackRival(s) ==
    /\ pc[s] = "menu"
    /\ Move
    /\ ~DeadToday(s)
    /\ turn.attacks >= 1
    /\ turn' = [turn EXCEPT !.attacks = @ - 1]
    /\ \/ \E hp \in 1..copy[s].hp : SaveCopy(s, [copy[s] EXCEPT !.hp = hp], "menu")
       \/ UNCHANGED <<row, pc, copy, held, stale, clobbered>>
    /\ sorties' = sorties + 1
    /\ UNCHANGED <<today, raid, overlap, raced, outings, rests, grants, died, faults>>

-----------------------------------------------------------------------------
(* A raid: resolvePvP or IncomingPvP with this character as the victim. *)

RaidLoads ==
    /\ raid = NoChar /\ row # NoChar
    /\ faults < MaxFaults
    /\ faults' = faults + 1
    /\ raid' = row
    /\ stale' = stale \ {"raid"}
    /\ UNCHANGED <<today, row, turn, pc, copy, held, clobbered, overlap, raced, historyVars, moves>>

RaidSaves ==
    /\ raid # NoChar
    /\ \E hp \in 1..raid.hp : Save("raid", [raid EXCEPT !.hp = hp])
    /\ raid' = NoChar
    /\ UNCHANGED <<today, turn, pc, copy, held, overlap, raced, historyVars, bounds>>

\* The node stops and starts again.
Crash ==
    /\ faults < MaxFaults
    /\ faults' = faults + 1
    /\ pc' = [s \in Session |-> "out"]
    /\ copy' = [s \in Session |-> NoChar]
    /\ held' = [s \in Session |-> 0]
    /\ raid' = NoChar
    /\ stale' = {}
    /\ UNCHANGED <<today, row, turn, clobbered, overlap, raced, historyVars, moves>>

SessionStep(s) ==
    \/ Enter(s) \/ Create(s) \/ LoginRead(s) \/ LoginReset(s) \/ Heal(s) \/ Greet(s) \/ Leave(s)
    \/ \E deep \in BOOLEAN : Explore(s, deep)
    \/ FightWon(s) \/ FightHit(s) \/ FightFled(s) \/ Die(s) \/ Drain(s)
    \/ Rest(s) \/ RestRefused(s) \/ Mend(s) \/ AttackRival(s)

Next ==
    \/ \E s \in Session : SessionStep(s)
    \/ NextDay \/ RaidLoads \/ RaidSaves \/ Crash

Spec == Init /\ [][Next]_vars

-----------------------------------------------------------------------------
(* Properties. *)

Char == [hp : Int, depth : 0..MaxDepth, blooded : BOOLEAN, tutorial : BOOLEAN,
         rests : 0..RestsPerDay, restDay : -1..MaxIndex, deadDay : -1..MaxIndex]

\* The type of every variable.
TypeOK ==
    /\ today \in 0..MaxDay
    /\ row \in Char /\ raid \in Char
    /\ turn \in [actions : 0..MainActions, attacks : 0..Attacks, last : 0..MaxDay, index : 0..MaxIndex]
    /\ pc \in [Session -> {"out", "create", "login", "reset", "heal", "greet", "menu",
                           "fight", "dying", "drain"}]
    /\ copy \in [Session -> Char]
    /\ held \in [Session -> Nat]
    /\ stale \subseteq Session \cup {"raid"}
    /\ clobbered \in BOOLEAN /\ overlap \in BOOLEAN /\ raced \in BOOLEAN
    /\ outings \in Nat /\ sorties \in Nat /\ rests \in Nat /\ grants \in Nat
    /\ died \in -1..MaxIndex
    /\ moves \in 0..MaxMoves /\ faults \in 0..MaxFaults

\* No interleaving of sessions, raids and crashes stores a character without
\* life, or with more than it can have.
NeverStoredDead == row # NoChar => row.hp \in 1..MaxHP

\* Between two resets there are at most MainActions expeditions and Attacks
\* attacks, with any number of sessions: SpendActions and SpendAttack test and
\* write in one statement.
BudgetHolds == outings + turn.actions <= MainActions /\ sorties + turn.attacks <= Attacks

\* "should not reset twice the same day" (turn_test.go): the budget of one
\* calendar day is granted once, midnight between the read and the UPDATE of
\* ResetIfNewDay included, unless two logins of the player are between them.
SingleReset == grants <= 1 \/ raced

\* A day's budget is granted once by ResetIfNewDay and spent at most once by
\* SpendActions and SpendAttack, however the player's sessions interleave.
TurnInv == TypeOK /\ BudgetHolds /\ SingleReset

\* One session at a time, and no copy overwritten by an older one.
Undisturbed == ~overlap /\ ~clobbered

\* Who died does not go out again on that day, by leaving and coming back, by
\* staying past midnight, or by resting first: the mark is in the row, and it
\* is compared with the day_index of the moment.
DeathEndsTheDay ==
    [][(Undisturbed /\ (outings' > outings \/ sorties' > sorties)) => died # turn.index]_vars

\* At most RestsPerDay rests per day, whatever the player does in between and in
\* however many sessions, as long as no stale copy is saved.
RestsHold == ~clobbered => rests <= RestsPerDay

\* No way back to the menu forgets to save what the session changed: the row
\* equals the copy, except when somebody else has written the row since.
MenuIsSaved ==
    \A s \in Session :
        (pc[s] = "menu" /\ s \notin stale) =>
            /\ copy[s].hp = row.hp /\ copy[s].depth = row.depth
            /\ copy[s].blooded = row.blooded /\ copy[s].deadDay = row.deadDay

\* The depth record is never lost, unless a stale copy is saved over it.
DepthIsKept == [][row'.depth >= row.depth \/ clobbered']_vars

-----------------------------------------------------------------------------
(* The inductive invariant behind the safety properties. *)

\* s has loaded the character.
InGame(s) == pc[s] \notin {"out", "create"}

\* Nothing is loaded, counted or marked before the character exists.
NobodyBeforeCreation ==
    row = NoChar => /\ \A s \in Session : ~InGame(s)
                    /\ raid = NoChar
                    /\ rests = 0 /\ died = -1

\* What is loaded is alive, in a fight too.
CopiesAlive ==
    /\ \A s \in Session : InGame(s) => copy[s].hp \in 1..MaxHP
    /\ raid # NoChar => raid.hp \in 1..MaxHP

\* What a session holds is a band or a day.
HeldInBounds ==
    \A s \in Session : /\ pc[s] = "fight" => held[s] \in 1..MaxDepth
                       /\ pc[s] = "reset" => held[s] \in 0..MaxDay

\* Without a race one login at a time is about to reset, for a day that has not
\* been granted.
LoneReset ==
    ~raced => \A s \in Session : pc[s] = "reset" =>
        /\ held[s] # turn.last
        /\ \A t \in Session : pc[t] = "reset" => t = s

\* Days in the character's fields are never ahead of turn_state.
DaysBehind ==
    /\ died <= turn.index
    /\ \A c \in {row, raid} \cup {copy[s] : s \in Session} :
         c.restDay <= turn.index /\ c.deadDay <= turn.index

\* A copy that nobody has overwritten agrees with the row, but for the wounds of
\* a fight and the page that a refused rest has turned.
FreshCopies ==
    /\ \A s \in Session : InGame(s) /\ s \notin stale =>
         /\ copy[s].depth = row.depth
         /\ copy[s].blooded = row.blooded
         /\ copy[s].deadDay = row.deadDay
         /\ pc[s] \notin {"fight", "dying"} => copy[s].hp = row.hp
    /\ raid # NoChar /\ "raid" \notin stale =>
         raid.depth = row.depth /\ raid.deadDay = row.deadDay

\* The rests that c shows for the current day_index.
RestsOf(c) == IF c.restDay = turn.index THEN c.rests ELSE 0

\* The row and every copy that nobody has overwritten show the rests of the day.
RestsCounted ==
    ~clobbered =>
        /\ row # NoChar => RestsOf(row) = rests
        /\ \A s \in Session : InGame(s) /\ s \notin stale => RestsOf(copy[s]) = rests
        /\ raid # NoChar /\ "raid" \notin stale => RestsOf(raid) = rests

\* Unless sessions overlap there is one.
OneSession ==
    ~overlap => \A s, t \in Session : pc[s] # "out" /\ pc[t] # "out" => s = t

\* A death of the current day is marked in the row and in the session's copy.
DeathIsMarked ==
    Undisturbed /\ died = turn.index =>
        /\ row.deadDay = died
        /\ \A s \in Session : InGame(s) => copy[s].deadDay = died

CharInv ==
    /\ TurnInv /\ HeldInBounds /\ LoneReset
    /\ NeverStoredDead /\ CopiesAlive /\ NobodyBeforeCreation
    /\ DaysBehind /\ FreshCopies /\ RestsCounted /\ OneSession /\ DeathIsMarked

=============================================================================
