--------------------------- MODULE CharacterProof ---------------------------
(***************************************************************************)
(* The player's day, for any number of sessions, calendar days, resets and *)
(* raids, and any rules: budget, life, rests, depth record and death mark. *)
(***************************************************************************)
EXTENDS Character, TLAPS

\* The numbers among the constants.
LEMMA Numbers ==
    /\ MaxHP \in Nat \ {0} /\ Defense \in Nat
    /\ MainActions \in Nat /\ Attacks \in Nat /\ RestsPerDay \in Nat
    /\ MaxDepth \in Nat /\ MaxDay \in Nat /\ MaxIndex \in Nat
    /\ MaxMoves \in Nat /\ MaxFaults \in Nat /\ "raid" \notin Session
  BY CharacterAssumption

USE Numbers

Places == {"out", "create", "login", "reset", "heal", "greet", "menu",
           "fight", "dying", "drain"}

LEMMA NewCharType ==
    /\ NewChar \in Char /\ NoChar \in Char
    /\ NewChar.hp = MaxHP /\ NoChar.hp = 0 /\ NewChar # NoChar
    /\ NewChar.restDay = -1 /\ NewChar.deadDay = -1 /\ NewChar.rests = 0
    /\ NoChar.restDay = -1 /\ NoChar.deadDay = -1 /\ NoChar.rests = 0
<1>1. NewChar \in Char
  BY DEF NewChar, Char
<1>2. NoChar \in Char
  BY <1>1 DEF NoChar, Char
<1>. QED
  BY <1>1, <1>2 DEF NewChar, NoChar

LEMMA InitChar == Init => CharInv
<1>. SUFFICES ASSUME Init PROVE CharInv
  OBVIOUS
<1>1. TypeOK
  <2>1. pc \in [Session -> Places] /\ copy \in [Session -> Char] /\ held \in [Session -> Nat]
    BY NewCharType DEF Init, Places
  <2>2. turn \in [actions : 0..MainActions, attacks : 0..Attacks, last : 0..MaxDay,
                  index : 0..MaxIndex]
    BY DEF Init
  <2>3. clobbered \in BOOLEAN /\ overlap \in BOOLEAN /\ raced \in BOOLEAN
    BY Zenon DEF Init
  <2>4. /\ today \in 0..MaxDay /\ row \in Char /\ raid \in Char
        /\ stale \subseteq Session \cup {"raid"}
        /\ outings \in Nat /\ sorties \in Nat /\ rests \in Nat /\ grants \in Nat
        /\ died \in -1..MaxIndex /\ moves \in 0..MaxMoves /\ faults \in 0..MaxFaults
    BY NewCharType DEF Init
  <2>. QED
    BY <2>1, <2>2, <2>3, <2>4 DEF TypeOK, Places
<1>2. TurnInv
  BY <1>1 DEF Init, TurnInv, BudgetHolds, SingleReset
<1>3. /\ HeldInBounds /\ LoneReset /\ NeverStoredDead /\ CopiesAlive
      /\ NobodyBeforeCreation /\ OneSession
  BY DEF Init, HeldInBounds, LoneReset, NeverStoredDead, CopiesAlive, NobodyBeforeCreation,
         OneSession, InGame
<1>4. FreshCopies /\ RestsCounted /\ DeathIsMarked
  BY DEF Init, FreshCopies, RestsCounted, DeathIsMarked, InGame
<1>5. DaysBehind
  BY NewCharType DEF Init, DaysBehind
<1>. QED
  BY <1>2, <1>3, <1>4, <1>5 DEF CharInv

-----------------------------------------------------------------------------
(* Two kinds of session steps. *)

\* s changes its copy to c and saves it.
Saves(s, c) ==
    /\ InGame(s)
    /\ c \in Char /\ c.hp \in 1..MaxHP /\ c.depth >= copy[s].depth
    /\ c.restDay <= turn.index
    /\ rests' \in Nat /\ RestsOf(c) = RestsOf(copy[s]) + (rests' - rests)
    /\ \/ c.deadDay = copy[s].deadDay /\ died' = died
       \/ c.deadDay = turn.index /\ died' = turn.index
    /\ copy' = [copy EXCEPT ![s] = c]
    /\ Save(s, c)
    /\ \E where \in {"greet", "menu", "drain"} : pc' = [pc EXCEPT ![s] = where]
    /\ turn'.index = turn.index
    /\ UNCHANGED <<raid, overlap>>

\* s does not write the row: it comes, goes, or goes on with a copy that still
\* shows what the row does, but for the wounds of a fight.
Wanders(s) ==
    /\ \E where \in Places, c \in Char :
         /\ pc' = [pc EXCEPT ![s] = where] /\ copy' = [copy EXCEPT ![s] = c]
         /\ c.restDay <= turn.index /\ c.deadDay <= turn.index
         /\ \/ where \in {"out", "create"}
            \/ where = "login" /\ row # NoChar /\ c = row
            \/ /\ InGame(s) /\ where \notin {"out", "create"}
               /\ c.depth = copy[s].depth /\ c.blooded = copy[s].blooded
               /\ c.deadDay = copy[s].deadDay /\ RestsOf(c) = RestsOf(copy[s])
               /\ c.hp \in 1..MaxHP
               /\ where \notin {"fight", "dying"} =>
                    c.hp = copy[s].hp /\ pc[s] \notin {"fight", "dying"}
         /\ where # "out" /\ pc[s] = "out" =>
              overlap' = (overlap \/ \E t \in Session : pc[t] # "out")
         /\ ~(where # "out" /\ pc[s] = "out") => overlap' = overlap
         /\ stale' = stale \/ (where = "out" /\ stale' = stale \ {s})
    /\ turn'.index = turn.index
    /\ UNCHANGED <<row, raid, clobbered, rests, died>>

LEMMA DamageAtLeastOne ==
    ASSUME NEW power \in Nat, NEW d \in Damage(power, Defense)
    PROVE  d \in Nat \ {0}
  BY DEF Damage

LEMMA CreaturesAreNats ==
    ASSUME NEW b \in Nat, NEW power \in Creatures(b)
    PROVE  power \in Nat
  BY CharacterAssumption DEF Creatures

\* The fields of a character.
LEMMA CharFields ==
    ASSUME NEW c \in Char
    PROVE  /\ c.hp \in Int /\ c.depth \in 0..MaxDepth /\ c.blooded \in BOOLEAN
           /\ c.tutorial \in BOOLEAN /\ c.rests \in 0..RestsPerDay
           /\ c.restDay \in -1..MaxIndex /\ c.deadDay \in -1..MaxIndex
  BY DEF Char

\* What CharInv says about the session that moves.
LEMMA SessionFacts ==
    ASSUME CharInv, NEW s \in Session
    PROVE  /\ copy[s] \in Char /\ pc[s] \in Places /\ held[s] \in Nat
           /\ copy[s].restDay <= turn.index /\ copy[s].deadDay <= turn.index
           /\ InGame(s) => copy[s].hp \in 1..MaxHP
           /\ row \in Char /\ row.restDay <= turn.index /\ row.deadDay <= turn.index
           /\ turn \in [actions : 0..MainActions, attacks : 0..Attacks, last : 0..MaxDay,
                         index : 0..MaxIndex]
           /\ turn.index \in 0..MaxIndex /\ rests \in Nat
  BY DEF CharInv, TurnInv, TypeOK, Places, DaysBehind, CopiesAlive

LEMMA SavingStep ==
    ASSUME CharInv, NEW s \in Session, InGame(s), NEW c \in Char,
           c.hp \in 1..MaxHP, c.depth >= copy[s].depth, c.deadDay = copy[s].deadDay,
           c.rests = copy[s].rests, c.restDay = copy[s].restDay,
           NEW where \in {"greet", "menu"}, SaveCopy(s, c, where),
           UNCHANGED <<raid, overlap, rests, died>>, turn'.index = turn.index
    PROVE  Saves(s, c)
<1>1. RestsOf(c) = RestsOf(copy[s]) /\ RestsOf(c) \in Nat /\ rests \in Nat
  BY SessionFacts, CharFields DEF RestsOf
<1>2. c.restDay <= turn.index
  BY SessionFacts
<1>3. copy' = [copy EXCEPT ![s] = c] /\ Save(s, c) /\ pc' = [pc EXCEPT ![s] = where]
  BY DEF SaveCopy, Goto, GotoHolding
<1>4. rests' \in Nat /\ RestsOf(c) = RestsOf(copy[s]) + (rests' - rests)
  BY <1>1
<1>5. \/ c.deadDay = copy[s].deadDay /\ died' = died
      \/ c.deadDay = turn.index /\ died' = turn.index
  OBVIOUS
<1>6. \E w \in {"greet", "menu", "drain"} : pc' = [pc EXCEPT ![s] = w]
  BY <1>3
<1>7. turn'.index = turn.index /\ UNCHANGED <<raid, overlap>>
  OBVIOUS
<1>. QED
  BY <1>2, <1>3, <1>4, <1>5, <1>6, <1>7, Zenon DEF Saves

\* A copy with other hit points.
LEMMA Wounded ==
    ASSUME NEW c \in Char, NEW hp \in Int
    PROVE  LET d == [c EXCEPT !.hp = hp]
           IN  /\ d \in Char /\ d.hp = hp /\ d.depth = c.depth /\ d.deadDay = c.deadDay
               /\ d.blooded = c.blooded /\ d.rests = c.rests /\ d.restDay = c.restDay
  BY DEF Char

\* A copy after a fight, and one whose reader has arrived.
LEMMA Blooded ==
    ASSUME NEW c \in Char
    PROVE  LET d == [c EXCEPT !.blooded = TRUE]
               e == [c EXCEPT !.tutorial = TRUE]
           IN  /\ d \in Char /\ d.hp = c.hp /\ d.depth = c.depth /\ d.deadDay = c.deadDay
               /\ d.rests = c.rests /\ d.restDay = c.restDay
               /\ e \in Char /\ e.hp = c.hp /\ e.depth = c.depth /\ e.deadDay = c.deadDay
               /\ e.rests = c.rests /\ e.restDay = c.restDay
  BY DEF Char

\* A copy with a depth record.
LEMMA Deeper ==
    ASSUME NEW c \in Char, NEW deepest \in 0..MaxDepth
    PROVE  LET d == [c EXCEPT !.blooded = TRUE, !.depth = deepest]
           IN  /\ d \in Char /\ d.hp = c.hp /\ d.depth = deepest /\ d.deadDay = c.deadDay
               /\ d.rests = c.rests /\ d.restDay = c.restDay
  BY DEF Char

\* A copy with the mark of a death.
LEMMA Marked ==
    ASSUME NEW c \in Char, NEW day \in -1..MaxIndex
    PROVE  LET d == [c EXCEPT !.blooded = TRUE, !.deadDay = day]
           IN  /\ d \in Char /\ d.hp = c.hp /\ d.depth = c.depth /\ d.deadDay = day
               /\ d.rests = c.rests /\ d.restDay = c.restDay
  BY DEF Char

LEMMA MendingSaves ==
    ASSUME CharInv, NEW s \in Session,
           Heal(s) \/ Mend(s) \/ \E hp \in 1..copy[s].hp :
             /\ InGame(s) /\ turn'.index = turn.index
             /\ SaveCopy(s, [copy[s] EXCEPT !.hp = hp], "menu")
             /\ UNCHANGED <<raid, overlap, rests, died>>
    PROVE  \E c \in Char : Saves(s, c)
<1>0. /\ copy[s] \in Char /\ copy[s].depth \in 0..MaxDepth
      /\ InGame(s) => copy[s].hp \in 1..MaxHP
  BY SessionFacts, CharFields
<1>1. InGame(s) /\ turn'.index = turn.index /\ UNCHANGED <<raid, overlap, rests, died>>
  BY DEF Heal, Mend, historyVars, InGame
<1>2. PICK where \in {"greet", "menu"}, hp \in 1..MaxHP :
        SaveCopy(s, [copy[s] EXCEPT !.hp = hp], where)
  <2>1. CASE Heal(s)
    BY <2>1 DEF Heal
  <2>2. CASE Mend(s)
    BY <2>2 DEF Mend
  <2>3. ASSUME NEW hp \in 1..copy[s].hp, SaveCopy(s, [copy[s] EXCEPT !.hp = hp], "menu")
        PROVE  \E h \in 1..MaxHP : SaveCopy(s, [copy[s] EXCEPT !.hp = h], "menu")
    <3>1. hp \in 1..MaxHP
      BY <1>0, <1>1
    <3>. QED
      BY <2>3, <3>1
  <2>. QED
    BY <2>1, <2>2, <2>3
<1>. DEFINE d == [copy[s] EXCEPT !.hp = hp]
<1>3. /\ d \in Char /\ d.hp = hp /\ d.depth = copy[s].depth /\ d.deadDay = copy[s].deadDay
      /\ d.rests = copy[s].rests /\ d.restDay = copy[s].restDay
  BY <1>0, <1>2, Wounded
<1>4. SaveCopy(s, d, where)
  BY <1>2
<1>. HIDE DEF d
<1>5. d.hp \in 1..MaxHP /\ d.depth >= copy[s].depth
  BY <1>0, <1>2, <1>3
<1>. QED
  BY <1>1, <1>3, <1>4, <1>5, SavingStep

LEMMA FightSaves ==
    ASSUME CharInv, NEW s \in Session,
           (Greet(s) /\ ~copy[s].tutorial) \/ FightWon(s) \/ FightFled(s)
    PROVE  \E c \in Char : Saves(s, c)
<1>. DEFINE c == copy[s]
            deepest == IF held[s] > 1 /\ held[s] > c.depth THEN held[s] ELSE c.depth
<1>0. /\ c \in Char /\ c.depth \in 0..MaxDepth /\ c.deadDay \in -1..MaxIndex
      /\ InGame(s) => c.hp \in 1..MaxHP
  BY SessionFacts, CharFields
<1>1. InGame(s) /\ turn'.index = turn.index /\ UNCHANGED <<raid, overlap, rests, died>>
  BY DEF Greet, FightWon, FightFled, historyVars, InGame
<1>2. FightWon(s) => deepest \in 0..MaxDepth /\ deepest >= c.depth
  BY <1>0 DEF CharInv, HeldInBounds, FightWon
<1>3. PICK d \in Char : /\ d.hp = c.hp /\ d.depth >= c.depth /\ d.deadDay = c.deadDay
                        /\ d.rests = c.rests /\ d.restDay = c.restDay
                        /\ SaveCopy(s, d, "menu")
  <2>1. CASE Greet(s) /\ ~c.tutorial
    <3>. DEFINE d == [c EXCEPT !.tutorial = TRUE]
    <3>1. SaveCopy(s, d, "menu")
      BY <2>1 DEF Greet
    <3>2. /\ d \in Char /\ d.hp = c.hp /\ d.depth = c.depth /\ d.deadDay = c.deadDay
          /\ d.rests = c.rests /\ d.restDay = c.restDay
      BY <1>0, Blooded
    <3>. HIDE DEF d
    <3>3. d.depth >= c.depth
      BY <1>0, <3>2
    <3>. QED
      BY <3>1, <3>2, <3>3
  <2>2. CASE FightWon(s)
    <3>. DEFINE d == [c EXCEPT !.blooded = TRUE, !.depth = deepest]
    <3>1. SaveCopy(s, d, "menu")
      BY <2>2 DEF FightWon
    <3>2. deepest \in 0..MaxDepth /\ deepest >= c.depth
      BY <1>2, <2>2
    <3>. HIDE DEF deepest
    <3>3. /\ d \in Char /\ d.hp = c.hp /\ d.depth >= c.depth /\ d.deadDay = c.deadDay
          /\ d.rests = c.rests /\ d.restDay = c.restDay
      BY <1>0, <3>2, Deeper
    <3>. HIDE DEF d
    <3>. QED
      BY <3>1, <3>3
  <2>3. CASE FightFled(s)
    <3>. DEFINE d == [c EXCEPT !.blooded = TRUE]
    <3>1. SaveCopy(s, d, "menu")
      BY <2>3 DEF FightFled
    <3>2. /\ d \in Char /\ d.hp = c.hp /\ d.depth = c.depth /\ d.deadDay = c.deadDay
          /\ d.rests = c.rests /\ d.restDay = c.restDay
      BY <1>0, Blooded
    <3>. HIDE DEF d
    <3>3. d.depth >= c.depth
      BY <1>0, <3>2
    <3>. QED
      BY <3>1, <3>2, <3>3
  <2>. QED
    BY <2>1, <2>2, <2>3
<1>. QED
  BY <1>0, <1>1, <1>3, SavingStep

LEMMA DieSaves ==
    ASSUME CharInv, NEW s \in Session, Die(s)
    PROVE  \E c \in Char : Saves(s, c)
<1>. DEFINE c == copy[s]
            d == [c EXCEPT !.blooded = TRUE, !.deadDay = turn.index]
<1>0. /\ c \in Char /\ c.depth \in 0..MaxDepth /\ c.hp \in 1..MaxHP
      /\ c.restDay <= turn.index /\ turn.index \in -1..MaxIndex
      /\ rests \in Nat /\ c.rests \in Nat
  BY SessionFacts, CharFields DEF Die, InGame
<1>1. /\ d \in Char /\ d.hp = c.hp /\ d.depth = c.depth /\ d.deadDay = turn.index
      /\ d.rests = c.rests /\ d.restDay = c.restDay
  BY <1>0, Marked
<1>2. /\ copy' = [copy EXCEPT ![s] = d] /\ Save(s, d)
  BY DEF Die
<1>3. pc' = [pc EXCEPT ![s] = "drain"] /\ died' = turn.index /\ UNCHANGED <<raid, overlap, rests, turn>>
  BY DEF Die, GotoHolding
<1>4. InGame(s)
  BY DEF Die, InGame
<1>. HIDE DEF d
<1>5. /\ d.hp \in 1..MaxHP /\ d.depth >= c.depth /\ d.restDay <= turn.index
      /\ rests' \in Nat /\ RestsOf(d) = RestsOf(c) + (rests' - rests)
  BY <1>0, <1>1, <1>3 DEF RestsOf
<1>6. \E where \in {"greet", "menu", "drain"} : pc' = [pc EXCEPT ![s] = where]
  BY <1>3
<1>7. turn'.index = turn.index /\ UNCHANGED <<raid, overlap>>
  BY <1>3
<1>. QED
  BY <1>1, <1>2, <1>3, <1>4, <1>5, <1>6, <1>7, Zenon DEF Saves

LEMMA RestSaves ==
    ASSUME CharInv, NEW s \in Session, Rest(s)
    PROVE  \E c \in Char : Saves(s, c)
<1>. DEFINE c == copy[s]
            mended == c.hp + (MaxHP * 30) \div 100
            hp == IF mended > MaxHP THEN MaxHP ELSE mended
            n == RestsUsed(s) + 1
            d == [c EXCEPT !.restDay = turn.index, !.rests = n, !.hp = hp]
<1>0. /\ c \in Char /\ c.depth \in 0..MaxDepth /\ c.hp \in 1..MaxHP
      /\ c.restDay <= turn.index /\ turn.index \in -1..MaxIndex
      /\ rests \in Nat /\ c.rests \in Nat
  BY SessionFacts, CharFields DEF Rest, InGame
<1>1. hp \in 1..MaxHP
  BY <1>0
<1>2. n \in 0..RestsPerDay /\ n = RestsOf(c) + 1
  <2>1. RestsUsed(s) = RestsOf(c) /\ RestsOf(c) \in Nat
    BY <1>0 DEF RestsUsed, RestsOf
  <2>2. RestsUsed(s) < RestsPerDay
    BY DEF Rest
  <2>. QED
    BY <2>1, <2>2
<1>3. SaveCopy(s, d, "menu")
  BY DEF Rest
<1>4. /\ pc' = [pc EXCEPT ![s] = "menu"] /\ rests' = rests + 1
      /\ copy' = [copy EXCEPT ![s] = d] /\ Save(s, d)
  BY <1>3 DEF Rest, SaveCopy, Goto, GotoHolding
<1>5. InGame(s) /\ died' = died /\ UNCHANGED <<raid, overlap, turn>>
  BY DEF Rest, InGame
<1>. HIDE DEF n, hp
<1>6. /\ d \in Char /\ d.hp = hp /\ d.depth = c.depth /\ d.deadDay = c.deadDay
      /\ d.rests = n /\ d.restDay = turn.index
  <2>1. hp \in Int
    BY <1>1
  <2>2. c \in Char /\ turn.index \in -1..MaxIndex /\ n \in 0..RestsPerDay
    BY <1>0, <1>2
  <2>. HIDE DEF c
  <2>. QED
    BY <2>1, <2>2 DEF Char
<1>. HIDE DEF d
<1>7. /\ d.hp \in 1..MaxHP /\ d.depth >= c.depth /\ d.restDay <= turn.index
      /\ rests' \in Nat /\ RestsOf(d) = RestsOf(c) + (rests' - rests)
  <2>1. RestsOf(d) = n
    BY <1>6 DEF RestsOf
  <2>2. RestsOf(c) \in Int
    BY <1>0 DEF RestsOf
  <2>. QED
    BY <1>0, <1>1, <1>2, <1>4, <1>6, <2>1, <2>2
<1>8. \E where \in {"greet", "menu", "drain"} : pc' = [pc EXCEPT ![s] = where]
  BY <1>4
<1>9. turn'.index = turn.index /\ UNCHANGED <<raid, overlap>>
  BY <1>5
<1>. QED
  BY <1>4, <1>5, <1>6, <1>7, <1>8, <1>9, Zenon DEF Saves

-----------------------------------------------------------------------------
(* The steps that do not save. *)

\* The shape of Wanders, for a session that stays in the game.
LEMMA StayingStep ==
    ASSUME CharInv, NEW s \in Session, InGame(s),
           NEW where \in Places \ {"out", "create"}, NEW c \in Char,
           pc' = [pc EXCEPT ![s] = where], copy' = [copy EXCEPT ![s] = c],
           c.restDay <= turn.index, c.depth = copy[s].depth, c.blooded = copy[s].blooded,
           c.deadDay = copy[s].deadDay, RestsOf(c) = RestsOf(copy[s]), c.hp \in 1..MaxHP,
           where \notin {"fight", "dying"} =>
             c.hp = copy[s].hp /\ pc[s] \notin {"fight", "dying"},
           turn'.index = turn.index,
           UNCHANGED <<row, raid, stale, clobbered, overlap, rests, died>>
    PROVE  Wanders(s)
<1>1. c.deadDay <= turn.index
  BY SessionFacts
<1>2. pc[s] # "out" /\ where \notin {"out", "create"} /\ where \in Places
  BY DEF InGame
<1>3. UNCHANGED <<row, raid, clobbered, rests, died>> /\ stale' = stale /\ overlap' = overlap
  OBVIOUS
<1>. QED
  BY <1>1, <1>2, <1>3, Zenon DEF Wanders

\* A session that only goes to another place.
LEMMA WalkingStep ==
    ASSUME CharInv, NEW s \in Session, InGame(s),
           NEW where \in Places \ {"out", "create"}, pc' = [pc EXCEPT ![s] = where],
           where \notin {"fight", "dying"} => pc[s] \notin {"fight", "dying"},
           turn'.index = turn.index,
           UNCHANGED <<copy, row, raid, stale, clobbered, overlap, rests, died>>
    PROVE  Wanders(s)
<1>1. copy \in [Session -> Char] /\ copy[s] \in Char
  BY DEF CharInv, TurnInv, TypeOK
<1>2. copy' = [copy EXCEPT ![s] = copy[s]]
  BY <1>1
<1>3. copy[s].restDay <= turn.index /\ copy[s].hp \in 1..MaxHP
  BY SessionFacts
<1>4. UNCHANGED <<row, raid, stale, clobbered, overlap, rests, died>>
  OBVIOUS
<1>. QED
  BY <1>1, <1>2, <1>3, <1>4, StayingStep

LEMMA WalkingSteps ==
    ASSUME CharInv, NEW s \in Session,
           \/ LoginRead(s) \/ (Greet(s) /\ copy[s].tutorial)
           \/ \E deep \in BOOLEAN : Explore(s, deep)
           \/ Drain(s)
    PROVE  Wanders(s)
<1>1. InGame(s) /\ UNCHANGED <<copy, row, raid, stale, clobbered, overlap, rests, died>>
  BY DEF LoginRead, Greet, Explore, Drain, InGame, ghostVars, historyVars
<1>2. turn'.index = turn.index
  BY SessionFacts DEF LoginRead, Greet, Explore, Drain, Spent
<1>3. PICK where \in Places \ {"out", "create"} :
        /\ pc' = [pc EXCEPT ![s] = where]
        /\ where \notin {"fight", "dying"} => pc[s] \notin {"fight", "dying"}
  BY DEF LoginRead, Greet, Explore, Drain, Goto, GotoHolding, Places
<1>. QED
  BY <1>1, <1>2, <1>3, WalkingStep

LEMMA FightHitWanders ==
    ASSUME CharInv, NEW s \in Session, FightHit(s)
    PROVE  Wanders(s)
<1>0. /\ copy[s] \in Char /\ copy[s].hp \in 1..MaxHP /\ copy[s].restDay <= turn.index
      /\ pc[s] = "fight" /\ InGame(s) /\ held[s] \in Nat
  BY SessionFacts DEF FightHit, InGame
<1>a. PICK power \in Creatures(held[s]) : \E d \in Damage(power, Defense) :
        IF copy[s].hp - d <= 0
        THEN copy' = [copy EXCEPT ![s].hp = 1] /\ Goto(s, "dying")
        ELSE copy' = [copy EXCEPT ![s].hp = @ - d] /\ GotoHolding(s, "fight", held[s])
  BY DEF FightHit
<1>1. PICK d \in Damage(power, Defense) :
        IF copy[s].hp - d <= 0
        THEN copy' = [copy EXCEPT ![s].hp = 1] /\ Goto(s, "dying")
        ELSE copy' = [copy EXCEPT ![s].hp = @ - d] /\ GotoHolding(s, "fight", held[s])
  BY <1>a
<1>2. d \in Nat \ {0}
  BY <1>0, CreaturesAreNats, DamageAtLeastOne
<1>3. PICK hp \in 1..MaxHP, where \in {"fight", "dying"} :
        copy' = [copy EXCEPT ![s].hp = hp] /\ pc' = [pc EXCEPT ![s] = where]
  <2>1. CASE copy[s].hp - d <= 0
    BY <1>1, <2>1 DEF Goto, GotoHolding
  <2>2. CASE ~(copy[s].hp - d <= 0)
    <3>1. copy[s].hp - d \in 1..MaxHP
      BY <1>0, <1>2, <2>2
    <3>. QED
      BY <1>1, <2>2, <3>1 DEF GotoHolding
  <2>. QED
    BY <2>1, <2>2
<1>. DEFINE c == [copy[s] EXCEPT !.hp = hp]
<1>4. copy' = [copy EXCEPT ![s] = c]
  BY <1>3
<1>5. /\ c \in Char /\ c.hp = hp /\ c.depth = copy[s].depth /\ c.deadDay = copy[s].deadDay
      /\ c.blooded = copy[s].blooded /\ c.rests = copy[s].rests /\ c.restDay = copy[s].restDay
  BY <1>0, <1>3, Wounded
<1>. HIDE DEF c
<1>6. RestsOf(c) = RestsOf(copy[s])
  BY <1>5 DEF RestsOf
<1>7. turn'.index = turn.index /\ UNCHANGED <<row, raid, stale, clobbered, overlap, rests, died>>
  BY DEF FightHit, ghostVars, historyVars
<1>8. where \in Places \ {"out", "create"} /\ where \in {"fight", "dying"} /\ c.hp \in 1..MaxHP
  BY <1>3, <1>5 DEF Places
<1>. QED
  BY <1>0, <1>3, <1>4, <1>5, <1>6, <1>7, <1>8, StayingStep

LEMMA RestRefusedWanders ==
    ASSUME CharInv, NEW s \in Session, RestRefused(s)
    PROVE  Wanders(s)
<1>. DEFINE c == [copy[s] EXCEPT !.restDay = turn.index, !.rests = 0]
<1>0. /\ copy[s] \in Char /\ copy[s].hp \in 1..MaxHP /\ turn.index \in -1..MaxIndex
      /\ pc[s] = "menu" /\ InGame(s) /\ copy[s].restDay # turn.index
  BY SessionFacts DEF RestRefused, InGame
<1>1. copy' = [copy EXCEPT ![s] = c]
  BY DEF RestRefused
<1>2. 0 \in 0..RestsPerDay
  OBVIOUS
<1>3. /\ c \in Char /\ c.hp = copy[s].hp /\ c.depth = copy[s].depth
      /\ c.deadDay = copy[s].deadDay /\ c.blooded = copy[s].blooded
      /\ c.rests = 0 /\ c.restDay = turn.index
  BY <1>0, <1>2 DEF Char
<1>. HIDE DEF c
<1>4. RestsOf(c) = RestsOf(copy[s]) /\ c.restDay <= turn.index
  BY <1>0, <1>3 DEF RestsOf
<1>5. turn'.index = turn.index /\ UNCHANGED <<row, raid, stale, clobbered, overlap, rests, died>>
  BY DEF RestRefused, ghostVars, historyVars
<1>6. pc' = [pc EXCEPT ![s] = "menu"] /\ "menu" \in Places \ {"out", "create"}
  <2>1. pc \in [Session -> Places] /\ pc' = pc
    BY DEF RestRefused, Places, CharInv, TurnInv, TypeOK
  <2>. QED
    BY <1>0, <2>1 DEF Places
<1>. QED
  BY <1>0, <1>1, <1>3, <1>4, <1>5, <1>6, StayingStep

LEMMA ComingAndGoing ==
    ASSUME CharInv, NEW s \in Session,
           Enter(s) \/ Leave(s) \/ (Create(s) /\ row # NoChar)
    PROVE  Wanders(s)
<1>0. /\ copy \in [Session -> Char] /\ row \in Char /\ copy[s] \in Char
      /\ copy[s].restDay <= turn.index /\ copy[s].deadDay <= turn.index
      /\ row.restDay <= turn.index /\ row.deadDay <= turn.index /\ turn.index \in Nat
  BY SessionFacts DEF CharInv, TurnInv, TypeOK
<1>1. /\ turn'.index = turn.index
      /\ UNCHANGED <<row, raid, clobbered, rests, died>>
  BY DEF Enter, Leave, Create, ghostVars, historyVars
<1>2. CASE Enter(s) /\ row = NoChar
  <2>1. copy' = [copy EXCEPT ![s] = copy[s]] /\ pc' = [pc EXCEPT ![s] = "create"]
    BY <1>0, <1>2 DEF Enter, Goto, GotoHolding
  <2>2. stale' = stale /\ overlap' = (overlap \/ \E t \in Session : pc[t] # "out") /\ pc[s] = "out"
    BY <1>2 DEF Enter
  <2>3. "create" \in Places /\ "create" # "out"
    BY DEF Places
  <2>. QED
    BY <1>0, <1>1, <2>1, <2>2, <2>3, Zenon DEF Wanders
<1>3. CASE Enter(s) /\ row # NoChar
  <2>1. copy' = [copy EXCEPT ![s] = row] /\ pc' = [pc EXCEPT ![s] = "login"]
    BY <1>3 DEF Enter, Goto, GotoHolding
  <2>2. stale' = stale /\ overlap' = (overlap \/ \E t \in Session : pc[t] # "out") /\ pc[s] = "out"
    BY <1>3 DEF Enter
  <2>3. "login" \in Places /\ "login" # "out"
    BY DEF Places
  <2>. QED
    BY <1>0, <1>1, <1>3, <2>1, <2>2, <2>3, Zenon DEF Wanders
<1>4. CASE Leave(s)
  <2>1. copy' = [copy EXCEPT ![s] = NoChar] /\ pc' = [pc EXCEPT ![s] = "out"]
    BY <1>4 DEF Leave, Goto, GotoHolding
  <2>2. stale' = stale \ {s} /\ overlap' = overlap
    BY <1>4 DEF Leave
  <2>3. "out" \in Places /\ NoChar \in Char /\ NoChar.restDay <= turn.index
        /\ NoChar.deadDay <= turn.index
    BY <1>0, NewCharType DEF Places
  <2>. QED
    BY <1>1, <2>1, <2>2, <2>3, Zenon DEF Wanders
<1>5. CASE Create(s) /\ row # NoChar
  <2>1. copy' = [copy EXCEPT ![s] = copy[s]] /\ pc' = [pc EXCEPT ![s] = "out"]
    BY <1>0, <1>5 DEF Create, Goto, GotoHolding
  <2>2. stale' = stale /\ overlap' = overlap
    BY <1>5 DEF Create, ghostVars
  <2>3. "out" \in Places
    BY DEF Places
  <2>. QED
    BY <1>0, <1>1, <2>1, <2>2, <2>3, Zenon DEF Wanders
<1>. QED
  BY <1>2, <1>3, <1>4, <1>5

LEMMA AttackRivalKind ==
    ASSUME CharInv, NEW s \in Session, AttackRival(s)
    PROVE  Wanders(s) \/ \E c \in Char : Saves(s, c)
<1>0. InGame(s) /\ pc[s] = "menu" /\ turn'.index = turn.index
  BY SessionFacts DEF AttackRival, InGame
<1>1. UNCHANGED <<raid, overlap, rests, died>>
  BY DEF AttackRival
<1>2. ASSUME NEW hp \in 1..copy[s].hp, SaveCopy(s, [copy[s] EXCEPT !.hp = hp], "menu")
      PROVE  \E c \in Char : Saves(s, c)
  BY <1>0, <1>1, <1>2, MendingSaves
<1>3. ASSUME UNCHANGED <<row, pc, copy, held, stale, clobbered>>
      PROVE  Wanders(s)
  <2>1. pc' = [pc EXCEPT ![s] = "menu"] /\ "menu" \in Places \ {"out", "create"}
    BY <1>0, <1>3 DEF Places, CharInv, TurnInv, TypeOK
  <2>2. UNCHANGED <<copy, row, raid, stale, clobbered, overlap, rests, died>>
    BY <1>1, <1>3
  <2>. QED
    BY <1>0, <2>1, <2>2, WalkingStep
<1>. QED
  BY <1>2, <1>3 DEF AttackRival

LEMMA SessionKinds ==
    ASSUME CharInv, NEW s \in Session, SessionStep(s)
    PROVE  \/ Wanders(s) \/ \E c \in Char : Saves(s, c)
           \/ (Create(s) /\ row = NoChar) \/ LoginReset(s)
<1>1. CASE Enter(s) \/ Leave(s)
  BY <1>1, ComingAndGoing
<1>8. CASE Create(s)
  BY <1>8, ComingAndGoing
<1>2. CASE LoginRead(s) \/ Drain(s)
  BY <1>2, WalkingSteps
<1>9. ASSUME NEW deep \in BOOLEAN, Explore(s, deep)
      PROVE  Wanders(s)
  BY <1>9, WalkingSteps
<1>3. CASE Greet(s)
  <2>1. CASE copy[s].tutorial
    BY <1>3, <2>1, WalkingSteps
  <2>2. CASE ~copy[s].tutorial
    BY <1>3, <2>2, FightSaves
  <2>. QED
    BY <2>1, <2>2
<1>4. CASE Heal(s) \/ Mend(s)
  BY <1>4, MendingSaves
<1>5. CASE FightWon(s) \/ FightFled(s)
  BY <1>5, FightSaves
<1>6. CASE FightHit(s) \/ RestRefused(s)
  BY <1>6, FightHitWanders, RestRefusedWanders
<1>7. CASE Die(s) \/ Rest(s) \/ AttackRival(s)
  BY <1>7, DieSaves, RestSaves, AttackRivalKind
<1>. QED
  BY <1>1, <1>2, <1>3, <1>4, <1>5, <1>6, <1>7, <1>8, <1>9 DEF SessionStep

-----------------------------------------------------------------------------
(* The part of the invariant about the row and its copies. *)

CopyTypes ==
    /\ row \in Char /\ raid \in Char /\ copy \in [Session -> Char]
    /\ stale \subseteq Session \cup {"raid"}
    /\ rests \in Nat /\ died \in -1..MaxIndex

CopyInv ==
    /\ CopyTypes
    /\ NeverStoredDead /\ CopiesAlive /\ NobodyBeforeCreation
    /\ DaysBehind /\ FreshCopies /\ RestsCounted /\ OneSession /\ DeathIsMarked

LEMMA SavesKeeps ==
    ASSUME CharInv, NEW s \in Session, NEW c \in Char, Saves(s, c)
    PROVE  CopyInv'
<1>0. /\ copy \in [Session -> Char] /\ pc \in [Session -> Places] /\ raid \in Char
      /\ stale \subseteq Session \cup {"raid"} /\ rests \in Nat /\ died \in -1..MaxIndex
      /\ turn.index \in 0..MaxIndex
  BY DEF CharInv, TurnInv, TypeOK, Places
<1>1. /\ row' = c /\ copy'[s] = c /\ copy' \in [Session -> Char]
      /\ InGame(s) /\ InGame(s)' /\ pc[s] # "out"
      /\ pc'[s] \in {"greet", "menu", "drain"}
      /\ \A t \in Session \ {s} : copy'[t] = copy[t] /\ pc'[t] = pc[t]
  BY <1>0 DEF Saves, Save, InGame
<1>2. /\ raid' = raid /\ turn'.index = turn.index /\ overlap' = overlap
  BY DEF Saves
<1>3. /\ c.hp \in 1..MaxHP /\ c.depth >= copy[s].depth /\ c.restDay <= turn.index
      /\ rests' \in Nat /\ RestsOf(c) = RestsOf(copy[s]) + (rests' - rests)
      /\ \/ c.deadDay = copy[s].deadDay /\ died' = died
         \/ c.deadDay = turn.index /\ died' = turn.index
  BY DEF Saves
<1>4. /\ stale' = stale \cup (Holders \ {s})
      /\ ~clobbered' => ~clobbered /\ s \notin stale
  BY DEF Saves, Save
<1>5. /\ \A t \in Session \ {s} : InGame(t)' => InGame(t) /\ t \in stale'
      /\ raid # NoChar => "raid" \in stale'
      /\ stale' \subseteq Session \cup {"raid"}
  BY <1>0, <1>1, <1>4 DEF Holders, InGame
<1>6. c # NoChar
  BY <1>3, NewCharType
<1>7. CopyTypes'
  BY <1>0, <1>1, <1>2, <1>3, <1>5 DEF CopyTypes
<1>8. NeverStoredDead' /\ NobodyBeforeCreation'
  BY <1>1, <1>3, <1>6 DEF NeverStoredDead, NobodyBeforeCreation
<1>9. CopiesAlive'
  BY <1>1, <1>2, <1>3, <1>5 DEF CopiesAlive, CharInv
<1>10. DaysBehind'
  <2>1. c.deadDay <= turn.index /\ died' <= turn.index
    BY <1>0, <1>3, SessionFacts DEF CharInv, DaysBehind
  <2>2. \A t \in Session : copy'[t].restDay <= turn.index /\ copy'[t].deadDay <= turn.index
    BY <1>1, <1>3, <2>1, SessionFacts
  <2>3. raid.restDay <= turn.index /\ raid.deadDay <= turn.index
    BY DEF CharInv, DaysBehind
  <2>. QED
    BY <1>1, <1>2, <1>3, <2>1, <2>2, <2>3 DEF DaysBehind
<1>11. FreshCopies'
  BY <1>1, <1>2, <1>5 DEF FreshCopies
<1>12. RestsCounted'
  <2>1. \A x : RestsOf(x)' = RestsOf(x)
    BY <1>2 DEF RestsOf
  <2>2. ~clobbered' => RestsOf(copy[s]) = rests
    BY <1>1, <1>4 DEF CharInv, RestsCounted
  <2>3. RestsOf(copy[s]) = rests => RestsOf(c) = rests'
    <3>1. \A a, b \in Int : a + (b - a) = b
      OBVIOUS
    <3>2. rests \in Int /\ rests' \in Int
      BY <1>0, <1>3
    <3>. QED
      BY <1>3, <3>1, <3>2
  <2>. QED
    BY <1>1, <1>2, <1>5, <2>1, <2>2, <2>3 DEF RestsCounted
<1>13. OneSession'
  BY <1>0, <1>1, <1>2 DEF OneSession, CharInv
<1>14. DeathIsMarked'
  <2>. SUFFICES ASSUME Undisturbed', died' = turn'.index
                PROVE  c.deadDay = died' /\ \A t \in Session : InGame(t)' => t = s
    BY <1>1 DEF DeathIsMarked
  <2>1. ~overlap /\ ~clobbered
    BY <1>2, <1>4 DEF Undisturbed
  <2>2. \A t \in Session : InGame(t)' => t = s
    BY <1>1, <1>5, <2>1 DEF CharInv, OneSession, InGame
  <2>3. died = turn.index => copy[s].deadDay = died
    BY <1>1, <2>1 DEF CharInv, DeathIsMarked, Undisturbed
  <2>. QED
    BY <1>2, <1>3, <2>2, <2>3
<1>. QED
  BY <1>7, <1>8, <1>9, <1>10, <1>11, <1>12, <1>13, <1>14 DEF CopyInv

LEMMA WandersKeeps ==
    ASSUME CharInv, NEW s \in Session, Wanders(s)
    PROVE  CopyInv'
<1>0. /\ copy \in [Session -> Char] /\ pc \in [Session -> Places] /\ raid \in Char /\ row \in Char
      /\ stale \subseteq Session \cup {"raid"} /\ rests \in Nat /\ died \in -1..MaxIndex
      /\ turn.index \in 0..MaxIndex
  BY DEF CharInv, TurnInv, TypeOK, Places
<1>a. PICK where \in Places, c \in Char :
         /\ pc' = [pc EXCEPT ![s] = where] /\ copy' = [copy EXCEPT ![s] = c]
         /\ c.restDay <= turn.index /\ c.deadDay <= turn.index
         /\ \/ where \in {"out", "create"}
            \/ where = "login" /\ row # NoChar /\ c = row
            \/ /\ InGame(s) /\ where \notin {"out", "create"}
               /\ c.depth = copy[s].depth /\ c.blooded = copy[s].blooded
               /\ c.deadDay = copy[s].deadDay /\ RestsOf(c) = RestsOf(copy[s])
               /\ c.hp \in 1..MaxHP
               /\ where \notin {"fight", "dying"} =>
                    c.hp = copy[s].hp /\ pc[s] \notin {"fight", "dying"}
         /\ where # "out" /\ pc[s] = "out" =>
              overlap' = (overlap \/ \E t \in Session : pc[t] # "out")
         /\ ~(where # "out" /\ pc[s] = "out") => overlap' = overlap
         /\ stale' = stale \/ (where = "out" /\ stale' = stale \ {s})
  BY DEF Wanders
<1>1. /\ copy'[s] = c /\ copy' \in [Session -> Char] /\ pc'[s] = where
      /\ \A t \in Session \ {s} : copy'[t] = copy[t] /\ pc'[t] = pc[t]
  BY <1>0, <1>a
<1>2. /\ raid' = raid /\ row' = row /\ turn'.index = turn.index /\ rests' = rests /\ died' = died
  BY DEF Wanders
<1>3. clobbered' = clobbered
  BY DEF Wanders
<1>4. \A x : x # s => (x \in stale' <=> x \in stale)
  BY <1>a
<1>5. InGame(s)' => s \in stale' \/ s \notin stale
  BY <1>1, <1>a DEF InGame
<1>6. \A t \in Session \ {s} : InGame(t)' <=> InGame(t)
  BY <1>1 DEF InGame
<1>7. CopyTypes'
  BY <1>0, <1>1, <1>2, <1>a DEF CopyTypes
<1>8. NeverStoredDead' /\ NobodyBeforeCreation'
  BY <1>1, <1>2, <1>6, <1>a DEF NeverStoredDead, NobodyBeforeCreation, CharInv, InGame
<1>9. CopiesAlive'
  BY <1>1, <1>2, <1>6, <1>a DEF CopiesAlive, CharInv, InGame, NeverStoredDead
<1>10. DaysBehind'
  <2>1. \A t \in Session : copy'[t].restDay <= turn.index /\ copy'[t].deadDay <= turn.index
    BY <1>1, <1>a, SessionFacts
  <2>2. /\ raid.restDay <= turn.index /\ raid.deadDay <= turn.index
        /\ row.restDay <= turn.index /\ row.deadDay <= turn.index /\ died <= turn.index
    BY DEF CharInv, DaysBehind
  <2>. QED
    BY <1>2, <2>1, <2>2 DEF DaysBehind
<1>11. FreshCopies'
  BY <1>1, <1>2, <1>4, <1>5, <1>6, <1>a DEF FreshCopies, CharInv, InGame
<1>12. RestsCounted'
  <2>1. \A x : RestsOf(x)' = RestsOf(x)
    BY <1>2 DEF RestsOf
  <2>. QED
    BY <1>1, <1>2, <1>3, <1>4, <1>5, <1>6, <1>a, <2>1 DEF RestsCounted, CharInv, InGame
<1>13. OneSession'
  <2>. SUFFICES ASSUME ~overlap', NEW t \in Session, NEW u \in Session,
                       pc'[t] # "out", pc'[u] # "out"
                PROVE  t = u
    BY DEF OneSession
  <2>1. ~overlap
    BY <1>a
  <2>2. CASE pc[s] = "out" /\ where # "out"
    BY <1>1, <1>a, <2>2
  <2>3. CASE ~(pc[s] = "out" /\ where # "out")
    BY <1>1, <2>1, <2>3 DEF CharInv, OneSession
  <2>. QED
    BY <2>2, <2>3
<1>14. DeathIsMarked'
  <2>1. Undisturbed' => Undisturbed
    BY <1>3, <1>a DEF Undisturbed
  <2>. QED
    BY <1>1, <1>2, <1>6, <1>a, <2>1 DEF DeathIsMarked, CharInv, InGame
<1>. QED
  BY <1>7, <1>8, <1>9, <1>10, <1>11, <1>12, <1>13, <1>14 DEF CopyInv

LEMMA CreateKeeps ==
    ASSUME CharInv, NEW s \in Session, Create(s), row = NoChar
    PROVE  CopyInv'
<1>0. /\ copy \in [Session -> Char] /\ pc \in [Session -> Places] /\ raid \in Char /\ row \in Char
      /\ stale \subseteq Session \cup {"raid"} /\ rests \in Nat /\ died \in -1..MaxIndex
      /\ turn.index \in 0..MaxIndex
  BY DEF CharInv, TurnInv, TypeOK, Places
<1>1. /\ row' = NewChar /\ copy'[s] = NewChar /\ copy' \in [Session -> Char]
      /\ pc'[s] = "login" /\ \A t \in Session \ {s} : copy'[t] = copy[t] /\ pc'[t] = pc[t]
  BY <1>0, NewCharType DEF Create, Goto, GotoHolding
<1>2. /\ raid' = raid /\ turn' = turn /\ rests' = rests /\ died' = died /\ stale' = stale
  BY DEF Create, ghostVars, historyVars
<1>3. overlap' = overlap /\ clobbered' = clobbered
  BY DEF Create, ghostVars
<1>4. rests = 0 /\ died = -1 /\ raid = NoChar /\ \A t \in Session \ {s} : ~InGame(t)'
  BY <1>1 DEF CharInv, NobodyBeforeCreation, InGame
<1>5. CopyTypes'
  BY <1>0, <1>1, <1>2, NewCharType DEF CopyTypes
<1>6. NeverStoredDead' /\ NobodyBeforeCreation' /\ CopiesAlive'
  BY <1>1, <1>2, <1>4, NewCharType DEF NeverStoredDead, NobodyBeforeCreation, CopiesAlive
<1>7. DaysBehind'
  <2>1. \A t \in Session : copy'[t].restDay <= turn.index /\ copy'[t].deadDay <= turn.index
    BY <1>0, <1>1, SessionFacts, NewCharType
  <2>. QED
    BY <1>0, <1>1, <1>2, <1>4, <2>1, NewCharType DEF DaysBehind
<1>8. FreshCopies'
  BY <1>1, <1>2, <1>4 DEF FreshCopies
<1>9. RestsCounted'
  <2>1. RestsOf(NewChar)' = 0
    BY NewCharType DEF RestsOf
  <2>. QED
    BY <1>1, <1>2, <1>4, <2>1 DEF RestsCounted
<1>10. OneSession'
  BY <1>1, <1>3 DEF OneSession, CharInv, Create
<1>11. DeathIsMarked'
  BY <1>0, <1>2, <1>4 DEF DeathIsMarked
<1>. QED
  BY <1>5, <1>6, <1>7, <1>8, <1>9, <1>10, <1>11 DEF CopyInv

\* The day_index grows, so that no rest and no death is of the new day.
LEMMA ResetKeeps ==
    ASSUME CharInv, NEW s \in Session, LoginReset(s)
    PROVE  CopyInv'
<1>0. /\ copy \in [Session -> Char] /\ pc \in [Session -> Places] /\ raid \in Char /\ row \in Char
      /\ stale \subseteq Session \cup {"raid"} /\ rests \in Nat /\ died \in -1..MaxIndex
      /\ turn.index \in 0..MaxIndex
  BY DEF CharInv, TurnInv, TypeOK, Places
<1>1. /\ pc'[s] = "heal" /\ pc[s] = "reset" /\ \A t \in Session \ {s} : pc'[t] = pc[t]
      /\ turn'.index = turn.index + 1 /\ rests' = 0
  BY <1>0 DEF LoginReset, ResetWith, Goto, GotoHolding
<1>2. row' = row /\ copy' = copy /\ raid' = raid /\ stale' = stale /\ died' = died
  BY DEF LoginReset, ResetWith, ghostVars
<1>3. overlap' = overlap /\ clobbered' = clobbered
  BY DEF LoginReset, ResetWith, ghostVars
<1>4. /\ \A t \in Session : copy[t].restDay <= turn.index /\ copy[t].deadDay <= turn.index
      /\ raid.restDay <= turn.index /\ raid.deadDay <= turn.index
      /\ row.restDay <= turn.index /\ row.deadDay <= turn.index /\ died <= turn.index
  BY DEF CharInv, DaysBehind
<1>5. /\ \A t \in Session : copy[t].restDay \in Int /\ copy[t].deadDay \in Int
      /\ raid.restDay \in Int /\ raid.deadDay \in Int /\ row.restDay \in Int /\ row.deadDay \in Int
  BY <1>0, CharFields
<1>6. \A t \in Session : (InGame(t)' <=> InGame(t))
  BY <1>1 DEF InGame
<1>7. CopyTypes'
  BY <1>0, <1>1, <1>2 DEF CopyTypes
<1>8. NeverStoredDead' /\ NobodyBeforeCreation' /\ CopiesAlive'
  BY <1>1, <1>2, <1>6 DEF CharInv, NeverStoredDead, NobodyBeforeCreation, CopiesAlive
<1>9. DaysBehind'
  BY <1>0, <1>1, <1>2, <1>4, <1>5 DEF DaysBehind
<1>10. FreshCopies'
  BY <1>1, <1>2, <1>6 DEF CharInv, FreshCopies
<1>11. RestsCounted'
  <2>1. /\ RestsOf(row)' = 0 /\ RestsOf(raid)' = 0
        /\ \A t \in Session : RestsOf(copy[t])' = 0
    BY <1>0, <1>1, <1>2, <1>4, <1>5 DEF RestsOf
  <2>. QED
    BY <1>1, <2>1 DEF RestsCounted
<1>12. OneSession'
  BY <1>1, <1>3 DEF OneSession, CharInv
<1>13. DeathIsMarked'
  BY <1>0, <1>1, <1>2, <1>4 DEF DeathIsMarked
<1>. QED
  BY <1>7, <1>8, <1>9, <1>10, <1>11, <1>12, <1>13 DEF CopyInv

LEMMA RaidSavesKeeps ==
    ASSUME CharInv, RaidSaves
    PROVE  CopyInv'
<1>0. /\ copy \in [Session -> Char] /\ pc \in [Session -> Places] /\ raid \in Char /\ row \in Char
      /\ stale \subseteq Session \cup {"raid"} /\ rests \in Nat /\ died \in -1..MaxIndex
      /\ turn.index \in 0..MaxIndex
  BY DEF CharInv, TurnInv, TypeOK, Places
<1>1. PICK hp \in 1..raid.hp : Save("raid", [raid EXCEPT !.hp = hp])
  BY DEF RaidSaves
<1>. DEFINE c == [raid EXCEPT !.hp = hp]
<1>2. raid # NoChar /\ raid' = NoChar /\ pc' = pc /\ copy' = copy /\ turn' = turn
      /\ rests' = rests /\ died' = died /\ overlap' = overlap
  BY DEF RaidSaves, historyVars
<1>3. raid.hp \in 1..MaxHP /\ hp \in 1..MaxHP
  BY <1>1, <1>2 DEF CharInv, CopiesAlive
<1>4. /\ c \in Char /\ c.hp = hp /\ c.depth = raid.depth /\ c.deadDay = raid.deadDay
      /\ c.rests = raid.rests /\ c.restDay = raid.restDay
  BY <1>0, <1>3, Wounded
<1>5. row' = c /\ stale' = stale \cup (Holders \ {"raid"})
  BY <1>1 DEF Save
<1>6. ~clobbered' => ~clobbered /\ "raid" \notin stale
  BY <1>1 DEF Save
<1>. HIDE DEF c
<1>7. /\ \A t \in Session : InGame(t)' => InGame(t) /\ t \in stale'
      /\ stale' \subseteq Session \cup {"raid"}
  BY <1>0, <1>2, <1>5 DEF Holders, InGame
<1>8. c # NoChar
  BY <1>3, <1>4, NewCharType
<1>9. CopyTypes'
  BY <1>0, <1>2, <1>4, <1>5, <1>7, NewCharType DEF CopyTypes
<1>10. NeverStoredDead' /\ NobodyBeforeCreation' /\ CopiesAlive'
  BY <1>2, <1>3, <1>4, <1>5, <1>7, <1>8 DEF NeverStoredDead, NobodyBeforeCreation, CopiesAlive, CharInv
<1>11. DaysBehind'
  BY <1>0, <1>2, <1>4, <1>5, NewCharType DEF DaysBehind, CharInv
<1>12. FreshCopies'
  BY <1>2, <1>7 DEF FreshCopies
<1>13. RestsCounted'
  <2>1. \A x : RestsOf(x)' = RestsOf(x)
    BY <1>2 DEF RestsOf
  <2>2. RestsOf(c) = RestsOf(raid)
    BY <1>4 DEF RestsOf
  <2>. QED
    BY <1>2, <1>5, <1>6, <1>7, <2>1, <2>2 DEF RestsCounted, CharInv
<1>14. OneSession'
  BY <1>2 DEF OneSession, CharInv
<1>15. DeathIsMarked'
  <2>. SUFFICES ASSUME Undisturbed', died' = turn'.index
                PROVE  /\ c.deadDay = died
                       /\ \A t \in Session : InGame(t)' => copy[t].deadDay = died
    BY <1>2, <1>5 DEF DeathIsMarked
  <2>1. Undisturbed /\ "raid" \notin stale
    BY <1>2, <1>6 DEF Undisturbed
  <2>2. row.deadDay = died /\ \A t \in Session : InGame(t) => copy[t].deadDay = died
    BY <1>2, <2>1 DEF CharInv, DeathIsMarked
  <2>3. raid.deadDay = row.deadDay
    BY <1>2, <2>1 DEF CharInv, FreshCopies
  <2>. QED
    BY <1>4, <1>7, <2>2, <2>3
<1>. QED
  BY <1>9, <1>10, <1>11, <1>12, <1>13, <1>14, <1>15 DEF CopyInv

LEMMA OthersKeep ==
    ASSUME CharInv, NextDay \/ RaidLoads \/ Crash
    PROVE  CopyInv'
<1>0. /\ copy \in [Session -> Char] /\ pc \in [Session -> Places] /\ raid \in Char /\ row \in Char
      /\ stale \subseteq Session \cup {"raid"} /\ rests \in Nat /\ died \in -1..MaxIndex
      /\ turn.index \in 0..MaxIndex
  BY DEF CharInv, TurnInv, TypeOK, Places
<1>1. /\ row' = row /\ turn' = turn /\ rests' = rests /\ died' = died
  BY DEF NextDay, RaidLoads, Crash, historyVars
<1>2. overlap' = overlap /\ clobbered' = clobbered
  BY DEF NextDay, RaidLoads, Crash, ghostVars
<1>3. CASE NextDay
  <2>1. pc' = pc /\ copy' = copy /\ raid' = raid /\ stale' = stale
    BY <1>3 DEF NextDay, ghostVars
  <2>. QED
    BY <1>0, <1>1, <1>2, <2>1 DEF CharInv, CopyInv, CopyTypes, NeverStoredDead, CopiesAlive,
       NobodyBeforeCreation, DaysBehind, FreshCopies, RestsCounted, RestsOf, OneSession,
       DeathIsMarked, Undisturbed, InGame
<1>4. CASE RaidLoads
  <2>1. pc' = pc /\ copy' = copy /\ raid' = row /\ stale' = stale \ {"raid"} /\ row # NoChar
    BY <1>4 DEF RaidLoads
  <2>2. CopyTypes' /\ NeverStoredDead' /\ CopiesAlive' /\ NobodyBeforeCreation'
    BY <1>0, <1>1, <2>1 DEF CharInv, CopyTypes, NeverStoredDead, CopiesAlive,
       NobodyBeforeCreation, InGame
  <2>3. DaysBehind' /\ FreshCopies'
    BY <1>1, <2>1 DEF CharInv, DaysBehind, FreshCopies, InGame
  <2>4. RestsCounted'
    BY <1>1, <1>2, <2>1 DEF CharInv, RestsCounted, RestsOf, InGame
  <2>5. OneSession' /\ DeathIsMarked'
    BY <1>1, <1>2, <2>1 DEF CharInv, OneSession, DeathIsMarked, Undisturbed, InGame
  <2>. QED
    BY <2>2, <2>3, <2>4, <2>5 DEF CopyInv
<1>5. CASE Crash
  <2>1. /\ \A t \in Session : pc'[t] = "out" /\ copy'[t] = NoChar
        /\ copy' \in [Session -> Char] /\ raid' = NoChar /\ stale' = {}
    BY <1>5, NewCharType DEF Crash
  <2>2. CopyTypes' /\ NeverStoredDead' /\ CopiesAlive' /\ NobodyBeforeCreation'
    BY <1>0, <1>1, <2>1, NewCharType DEF CharInv, CopyTypes, NeverStoredDead, CopiesAlive,
       NobodyBeforeCreation, InGame
  <2>3. DaysBehind'
    BY <1>0, <1>1, <2>1, NewCharType DEF CharInv, DaysBehind
  <2>4. FreshCopies' /\ RestsCounted'
    BY <1>1, <1>2, <2>1 DEF CharInv, FreshCopies, RestsCounted, RestsOf, InGame
  <2>5. OneSession' /\ DeathIsMarked'
    BY <1>1, <1>2, <2>1 DEF CharInv, OneSession, DeathIsMarked, Undisturbed, InGame
  <2>. QED
    BY <2>2, <2>3, <2>4, <2>5 DEF CopyInv
<1>. QED
  BY <1>3, <1>4, <1>5

-----------------------------------------------------------------------------
(* The part of the invariant about the budget. *)

BudgetInv ==
    /\ today \in 0..MaxDay
    /\ turn \in [actions : 0..MainActions, attacks : 0..Attacks, last : 0..MaxDay, index : 0..MaxIndex]
    /\ pc \in [Session -> Places] /\ held \in [Session -> Nat]
    /\ outings \in Nat /\ sorties \in Nat /\ grants \in Nat
    /\ moves \in 0..MaxMoves /\ faults \in 0..MaxFaults
    /\ BudgetHolds /\ SingleReset /\ HeldInBounds /\ LoneReset

\* s goes to a place where it does not reset, and its day is as it was or poorer.
LEMMA PlainStep ==
    ASSUME BudgetInv, NEW s \in Session,
           NEW where \in Places \ {"reset"}, NEW v \in Nat,
           where = "fight" => v \in 1..MaxDepth,
           pc' = [pc EXCEPT ![s] = where], held' = [held EXCEPT ![s] = v],
           turn' \in [actions : 0..MainActions, attacks : 0..Attacks, last : 0..MaxDay,
                      index : 0..MaxIndex],
           turn'.last = turn.last,
           outings' \in Nat, sorties' \in Nat,
           outings' + turn'.actions <= MainActions, sorties' + turn'.attacks <= Attacks,
           moves' \in 0..MaxMoves,
           UNCHANGED <<today, raced, grants, faults>>
    PROVE  BudgetInv'
<1>1. /\ pc' \in [Session -> Places] /\ held' \in [Session -> Nat]
      /\ pc'[s] = where /\ held'[s] = v
      /\ \A t \in Session \ {s} : pc'[t] = pc[t] /\ held'[t] = held[t]
  BY DEF BudgetInv
<1>2. BudgetHolds' /\ SingleReset'
  BY DEF BudgetInv, BudgetHolds, SingleReset
<1>3. HeldInBounds'
  BY <1>1 DEF BudgetInv, HeldInBounds
<1>4. LoneReset'
  BY <1>1 DEF BudgetInv, LoneReset
<1>. QED
  BY <1>1, <1>2, <1>3, <1>4 DEF BudgetInv

LEMMA PlainSteps ==
    ASSUME BudgetInv, NEW s \in Session,
           \/ Enter(s) \/ Create(s) \/ Heal(s) \/ Greet(s) \/ Leave(s)
           \/ FightWon(s) \/ FightFled(s) \/ FightHit(s) \/ Die(s)
           \/ Rest(s) \/ RestRefused(s) \/ Mend(s)
    PROVE  BudgetInv'
<1>0. /\ pc \in [Session -> Places] /\ held \in [Session -> Nat] /\ turn.actions \in Nat
      /\ moves \in 0..MaxMoves /\ outings \in Nat /\ sorties \in Nat
      /\ turn \in [actions : 0..MainActions, attacks : 0..Attacks, last : 0..MaxDay,
                    index : 0..MaxIndex]
      /\ outings + turn.actions <= MainActions /\ sorties + turn.attacks <= Attacks
  BY DEF BudgetInv, BudgetHolds
<1>1. UNCHANGED <<turn, outings, sorties, today, raced, grants, faults>>
  BY DEF Enter, Create, Heal, Greet, Leave, FightWon, FightFled, FightHit, Die, Rest,
         RestRefused, Mend, ghostVars, historyVars, bounds
<1>2. moves' \in 0..MaxMoves
  BY <1>0 DEF Enter, Create, Heal, Greet, Leave, FightWon, FightFled, FightHit, Die, Rest,
         RestRefused, Mend, Move, bounds
<1>3. \E where \in Places \ {"reset"}, v \in Nat :
        /\ where = "fight" => v \in 1..MaxDepth
        /\ pc' = [pc EXCEPT ![s] = where] /\ held' = [held EXCEPT ![s] = v]
  <2>1. CASE Enter(s) \/ Create(s) \/ Greet(s) \/ Leave(s)
    BY <2>1 DEF Enter, Create, Greet, Leave, SaveCopy, Goto, GotoHolding, Places
  <2>2. CASE Heal(s) \/ FightWon(s) \/ FightFled(s) \/ Rest(s) \/ Mend(s)
    BY <2>2 DEF Heal, FightWon, FightFled, Rest, Mend, SaveCopy, Goto, GotoHolding, Places
  <2>3. CASE FightHit(s)
    <3>1. held[s] \in 1..MaxDepth
      BY <2>3 DEF FightHit, BudgetInv, HeldInBounds
    <3>. QED
      BY <2>3, <3>1 DEF FightHit, Goto, GotoHolding, Places
  <2>4. CASE Die(s)
    BY <1>0, <2>4 DEF Die, GotoHolding, Places
  <2>5. CASE RestRefused(s)
    <3>1. pc' = [pc EXCEPT ![s] = "menu"] /\ held' = [held EXCEPT ![s] = held[s]]
      BY <1>0, <2>5 DEF RestRefused
    <3>. QED
      BY <1>0, <3>1 DEF Places
  <2>. QED
    BY <2>1, <2>2, <2>3, <2>4, <2>5
<1>. QED
  BY <1>0, <1>1, <1>2, <1>3, PlainStep

LEMMA SpendingSteps ==
    ASSUME BudgetInv, NEW s \in Session,
           \/ \E deep \in BOOLEAN : Explore(s, deep)
           \/ Drain(s) \/ AttackRival(s),
           copy[s].depth \in 0..MaxDepth
    PROVE  BudgetInv'
<1>0. /\ pc \in [Session -> Places] /\ held \in [Session -> Nat] /\ held[s] \in Nat
      /\ turn.actions \in 0..MainActions /\ turn.attacks \in 0..Attacks
      /\ moves \in 0..MaxMoves /\ outings \in Nat /\ sorties \in Nat
      /\ turn \in [actions : 0..MainActions, attacks : 0..Attacks, last : 0..MaxDay,
                    index : 0..MaxIndex]
      /\ outings + turn.actions <= MainActions /\ sorties + turn.attacks <= Attacks
  BY DEF BudgetInv, BudgetHolds
<1>1. UNCHANGED <<today, raced, grants, faults>>
  BY DEF Explore, Drain, AttackRival, ghostVars, historyVars, bounds
<1>2. moves' \in 0..MaxMoves
  BY <1>0 DEF Explore, Drain, AttackRival, Move, bounds
<1>3. ASSUME NEW deep \in BOOLEAN, Explore(s, deep)
      PROVE  BudgetInv'
  <2>1. PICK b \in 1..MaxDepth : GotoHolding(s, "fight", b)
    BY <1>3 DEF Explore
  <2>2. turn' = [turn EXCEPT !.actions = turn.actions - 1] /\ turn.actions >= 1
        /\ outings' = outings + 1 /\ sorties' = sorties
    BY <1>3 DEF Explore, Spent
  <2>3. turn.actions - 1 \in 0..MainActions
    BY <1>0, <2>2
  <2>4. /\ turn' \in [actions : 0..MainActions, attacks : 0..Attacks, last : 0..MaxDay,
                       index : 0..MaxIndex]
        /\ turn'.actions = turn.actions - 1 /\ turn'.attacks = turn.attacks /\ turn'.last = turn.last
    BY <1>0, <2>2, <2>3
  <2>5. outings' + turn'.actions <= MainActions /\ sorties' + turn'.attacks <= Attacks
    BY <1>0, <2>2, <2>4
  <2>6. /\ pc' = [pc EXCEPT ![s] = "fight"] /\ held' = [held EXCEPT ![s] = b]
        /\ "fight" \in Places \ {"reset"} /\ b \in Nat
    BY <2>1 DEF GotoHolding, Places
  <2>7. outings' \in Nat /\ sorties' \in Nat
    BY <1>0, <2>2
  <2>. QED
    BY <1>1, <1>2, <2>4, <2>5, <2>6, <2>7, PlainStep
<1>4. CASE Drain(s)
  <2>. DEFINE left == IF turn.actions >= held[s] THEN turn.actions - held[s] ELSE turn.actions
  <2>1. left \in 0..MainActions /\ left <= turn.actions
    BY <1>0
  <2>2. turn' = [turn EXCEPT !.actions = left] /\ outings' = outings /\ sorties' = sorties
        /\ pc' = [pc EXCEPT ![s] = "menu"] /\ held' = [held EXCEPT ![s] = 0]
    BY <1>4 DEF Drain, historyVars, Goto, GotoHolding
  <2>. HIDE DEF left
  <2>3. /\ turn' \in [actions : 0..MainActions, attacks : 0..Attacks, last : 0..MaxDay,
                       index : 0..MaxIndex]
        /\ turn'.actions = left /\ turn'.attacks = turn.attacks /\ turn'.last = turn.last
    BY <1>0, <2>1, <2>2
  <2>4. outings' + turn'.actions <= MainActions /\ sorties' + turn'.attacks <= Attacks
    BY <1>0, <2>1, <2>2, <2>3
  <2>. QED
    BY <1>0, <1>1, <1>2, <2>2, <2>3, <2>4, PlainStep DEF Places
<1>5. CASE AttackRival(s)
  <2>1. PICK v \in Nat : pc' = [pc EXCEPT ![s] = "menu"] /\ held' = [held EXCEPT ![s] = v]
    <3>1. pc = [pc EXCEPT ![s] = "menu"] /\ held = [held EXCEPT ![s] = held[s]]
      BY <1>0, <1>5 DEF AttackRival
    <3>. QED
      BY <1>0, <1>5, <3>1 DEF AttackRival, SaveCopy, Goto, GotoHolding
  <2>2. turn' = [turn EXCEPT !.attacks = turn.attacks - 1] /\ turn.attacks >= 1
        /\ sorties' = sorties + 1 /\ outings' = outings
    BY <1>5 DEF AttackRival
  <2>3. turn.attacks - 1 \in 0..Attacks
    BY <1>0, <2>2
  <2>4. /\ turn' \in [actions : 0..MainActions, attacks : 0..Attacks, last : 0..MaxDay,
                       index : 0..MaxIndex]
        /\ turn'.attacks = turn.attacks - 1 /\ turn'.actions = turn.actions /\ turn'.last = turn.last
    BY <1>0, <2>2, <2>3
  <2>5. outings' + turn'.actions <= MainActions /\ sorties' + turn'.attacks <= Attacks
    BY <1>0, <2>2, <2>4
  <2>6. "menu" \in Places \ {"reset"} /\ outings' \in Nat /\ sorties' \in Nat
    BY <1>0, <2>2 DEF Places
  <2>. QED
    BY <1>1, <1>2, <2>1, <2>4, <2>5, <2>6, PlainStep
<1>. QED
  BY <1>3, <1>4, <1>5

LEMMA LoginKeepsBudget ==
    ASSUME BudgetInv, NEW s \in Session, LoginRead(s) \/ LoginReset(s)
    PROVE  BudgetInv'
<1>0. /\ pc \in [Session -> Places] /\ held \in [Session -> Nat] /\ today \in 0..MaxDay
      /\ turn \in [actions : 0..MainActions, attacks : 0..Attacks, last : 0..MaxDay,
                    index : 0..MaxIndex]
      /\ turn.index \in 0..MaxIndex /\ grants \in Nat /\ outings \in Nat /\ sorties \in Nat
      /\ moves \in 0..MaxMoves /\ faults \in 0..MaxFaults
  BY DEF BudgetInv
<1>1. CASE LoginRead(s) /\ turn.last = today
  <2>1. UNCHANGED <<turn, outings, sorties, moves, today, raced, grants, faults>>
    BY <1>1 DEF LoginRead, historyVars, bounds
  <2>2. pc' = [pc EXCEPT ![s] = "greet"] /\ held' = [held EXCEPT ![s] = 0]
    BY <1>1 DEF LoginRead, Goto, GotoHolding
  <2>3. "greet" \in Places \ {"reset"}
    BY DEF Places
  <2>4. outings + turn.actions <= MainActions /\ sorties + turn.attacks <= Attacks
    BY DEF BudgetInv, BudgetHolds
  <2>. QED
    BY <1>0, <2>1, <2>2, <2>3, <2>4, PlainStep
<1>2. CASE LoginRead(s) /\ turn.last # today
  <2>1. turn' = turn /\ outings' = outings /\ sorties' = sorties /\ moves' = moves
        /\ today' = today /\ grants' = grants /\ faults' = faults
    BY <1>2 DEF LoginRead, historyVars, bounds
  <2>2. pc' = [pc EXCEPT ![s] = "reset"] /\ held' = [held EXCEPT ![s] = today]
    BY <1>2 DEF LoginRead, GotoHolding
  <2>3. /\ pc' \in [Session -> Places] /\ held' \in [Session -> Nat]
        /\ pc'[s] = "reset" /\ held'[s] = today
        /\ \A t \in Session \ {s} : pc'[t] = pc[t] /\ held'[t] = held[t]
    BY <1>0, <2>2 DEF Places
  <2>4. ~raced' => ~raced /\ \A t \in Session : pc[t] # "reset"
    BY <1>2 DEF LoginRead
  <2>5. BudgetHolds' /\ SingleReset'
    BY <2>1, <2>4 DEF BudgetInv, BudgetHolds, SingleReset
  <2>6. HeldInBounds'
    BY <1>0, <2>3 DEF BudgetInv, HeldInBounds
  <2>7. LoneReset'
    BY <1>2, <2>1, <2>3, <2>4 DEF LoneReset
  <2>. QED
    BY <1>0, <2>1, <2>3, <2>5, <2>6, <2>7 DEF BudgetInv
<1>3. CASE LoginReset(s)
  <2>1. /\ pc[s] = "reset" /\ turn.index < MaxIndex
        /\ turn' = [actions |-> MainActions, attacks |-> Attacks, last |-> held[s],
                     index |-> turn.index + 1]
        /\ outings' = 0 /\ sorties' = 0
        /\ grants' = IF held[s] = turn.last THEN grants + 1 ELSE 1
        /\ pc' = [pc EXCEPT ![s] = "heal"] /\ held' = [held EXCEPT ![s] = 0]
        /\ today' = today /\ moves' = moves /\ faults' = faults
    BY <1>3 DEF LoginReset, ResetWith, Goto, GotoHolding, bounds
  <2>2. raced' = raced
    BY <1>3 DEF LoginReset, ResetWith, ghostVars
  <2>3. /\ pc' \in [Session -> Places] /\ held' \in [Session -> Nat]
        /\ pc'[s] = "heal" /\ held'[s] = 0
        /\ \A t \in Session \ {s} : pc'[t] = pc[t] /\ held'[t] = held[t]
    BY <1>0, <2>1 DEF Places
  <2>4. held[s] \in 0..MaxDay
    BY <2>1 DEF BudgetInv, HeldInBounds
  <2>5. /\ turn' \in [actions : 0..MainActions, attacks : 0..Attacks, last : 0..MaxDay,
                       index : 0..MaxIndex]
        /\ turn'.actions = MainActions /\ turn'.attacks = Attacks /\ turn'.last = held[s]
    <3>1. turn.index + 1 \in 0..MaxIndex
      BY <1>0, <2>1
    <3>. QED
      BY <2>1, <2>4, <3>1
  <2>6. BudgetHolds'
    BY <2>1, <2>5 DEF BudgetHolds
  <2>7. SingleReset'
    <3>1. ~raced => held[s] # turn.last
      BY <2>1 DEF BudgetInv, LoneReset
    <3>. QED
      BY <2>1, <2>2, <3>1 DEF SingleReset
  <2>8. HeldInBounds'
    BY <2>3 DEF BudgetInv, HeldInBounds
  <2>9. LoneReset'
    BY <2>1, <2>2, <2>3 DEF BudgetInv, LoneReset
  <2>10. grants' \in Nat
    BY <1>0, <2>1
  <2>. QED
    BY <1>0, <2>1, <2>3, <2>5, <2>6, <2>7, <2>8, <2>9, <2>10 DEF BudgetInv
<1>. QED
  BY <1>1, <1>2, <1>3

LEMMA OthersKeepBudget ==
    ASSUME BudgetInv, NextDay \/ RaidLoads \/ RaidSaves \/ Crash
    PROVE  BudgetInv'
<1>1. turn' = turn /\ outings' = outings /\ sorties' = sorties /\ grants' = grants /\ moves' = moves
  BY DEF NextDay, RaidLoads, RaidSaves, Crash, historyVars, bounds
<1>2. raced' = raced
  BY DEF NextDay, RaidLoads, RaidSaves, Crash, ghostVars
<1>3. today' \in 0..MaxDay /\ faults' \in 0..MaxFaults
  BY DEF BudgetInv, NextDay, RaidLoads, RaidSaves, Crash, bounds
<1>4. CASE Crash
  <2>1. /\ pc' \in [Session -> Places] /\ held' \in [Session -> Nat]
        /\ \A t \in Session : pc'[t] = "out"
    BY <1>4 DEF Crash, Places
  <2>2. HeldInBounds' /\ LoneReset'
    BY <2>1 DEF HeldInBounds, LoneReset
  <2>3. BudgetHolds' /\ SingleReset'
    BY <1>1, <1>2 DEF BudgetInv, BudgetHolds, SingleReset
  <2>. QED
    BY <1>1, <1>3, <2>1, <2>2, <2>3 DEF BudgetInv
<1>5. CASE NextDay \/ RaidLoads \/ RaidSaves
  <2>1. pc' = pc /\ held' = held
    BY <1>5 DEF NextDay, RaidLoads, RaidSaves
  <2>2. HeldInBounds' /\ LoneReset'
    BY <1>1, <1>2, <2>1 DEF BudgetInv, HeldInBounds, LoneReset
  <2>3. BudgetHolds' /\ SingleReset'
    BY <1>1, <1>2 DEF BudgetInv, BudgetHolds, SingleReset
  <2>. QED
    BY <1>1, <1>3, <2>1, <2>2, <2>3 DEF BudgetInv
<1>. QED
  BY <1>4, <1>5

LEMMA FlagsKeep ==
    ASSUME CharInv, Next
    PROVE  clobbered' \in BOOLEAN /\ overlap' \in BOOLEAN /\ raced' \in BOOLEAN
<1>0. clobbered \in BOOLEAN /\ overlap \in BOOLEAN /\ raced \in BOOLEAN
  BY DEF CharInv, TurnInv, TypeOK
<1>1. \A a, b : (a \/ b) \in BOOLEAN
  OBVIOUS
<1>2. ASSUME NEW s \in Session, SessionStep(s)
      PROVE  clobbered' \in BOOLEAN /\ overlap' \in BOOLEAN /\ raced' \in BOOLEAN
  <2>1. clobbered' = clobbered \/ \E c : Save(s, c)
    BY <1>2 DEF SessionStep, Enter, Create, LoginRead, LoginReset, ResetWith, Heal, Greet, Leave,
       Explore, FightWon, FightHit, FightFled, Die, Drain, Rest, RestRefused, Mend,
       AttackRival, SaveCopy, ghostVars
  <2>2. overlap' = overlap \/ Enter(s)
    BY <1>2 DEF SessionStep, Create, LoginRead, LoginReset, ResetWith, Heal, Greet, Leave,
       Explore, FightWon, FightHit, FightFled, Die, Drain, Rest, RestRefused, Mend,
       AttackRival, ghostVars
  <2>3. raced' = raced \/ LoginRead(s)
    BY <1>2 DEF SessionStep, Enter, Create, LoginReset, ResetWith, Heal, Greet, Leave,
       Explore, FightWon, FightHit, FightFled, Die, Drain, Rest, RestRefused, Mend,
       AttackRival, ghostVars
  <2>4. clobbered' \in BOOLEAN
    BY <1>0, <1>1, <2>1 DEF Save
  <2>5. overlap' \in BOOLEAN
    BY <1>0, <1>1, <2>2 DEF Enter
  <2>6. raced' \in BOOLEAN
    BY <1>0, <1>1, <2>3 DEF LoginRead
  <2>. QED
    BY <2>4, <2>5, <2>6
<1>3. CASE NextDay \/ RaidLoads \/ RaidSaves \/ Crash
  <2>1. UNCHANGED <<overlap, raced>> /\ (clobbered' = clobbered \/ \E c : Save("raid", c))
    BY <1>3 DEF NextDay, RaidLoads, RaidSaves, Crash, ghostVars
  <2>2. clobbered' \in BOOLEAN
    BY <1>0, <1>1, <2>1 DEF Save
  <2>. QED
    BY <1>0, <2>1, <2>2
<1>. QED
  BY <1>2, <1>3 DEF Next

LEMMA CharParts ==
    CharInv => /\ CopyInv /\ BudgetInv
               /\ clobbered \in BOOLEAN /\ overlap \in BOOLEAN /\ raced \in BOOLEAN
  BY DEF CharInv, TurnInv, TypeOK, CopyInv, CopyTypes, BudgetInv, Places

LEMMA NextChar ==
    ASSUME CharInv, [Next]_vars
    PROVE  CopyInv' /\ BudgetInv' /\ clobbered' \in BOOLEAN /\ overlap' \in BOOLEAN /\ raced' \in BOOLEAN
<1>0. BudgetInv /\ CopyInv
  BY CharParts
<1>1. ASSUME NEW s \in Session, SessionStep(s)
      PROVE  CopyInv'
  BY <1>1, SessionKinds, SavesKeeps, WandersKeeps, CreateKeeps, ResetKeeps
<1>2. ASSUME NEW s \in Session, SessionStep(s)
      PROVE  BudgetInv'
  <2>1. copy[s].depth \in 0..MaxDepth
    BY SessionFacts, CharFields
  <2>2. CASE LoginRead(s) \/ LoginReset(s)
    BY <1>0, <2>2, LoginKeepsBudget
  <2>3. CASE \/ \E deep \in BOOLEAN : Explore(s, deep)
             \/ Drain(s) \/ AttackRival(s)
    BY <1>0, <2>1, <2>3, SpendingSteps
  <2>4. CASE \/ Enter(s) \/ Create(s) \/ Heal(s) \/ Greet(s) \/ Leave(s)
             \/ FightWon(s) \/ FightFled(s) \/ FightHit(s) \/ Die(s)
             \/ Rest(s) \/ RestRefused(s) \/ Mend(s)
    BY <1>0, <2>4, PlainSteps
  <2>. QED
    BY <1>2, <2>2, <2>3, <2>4 DEF SessionStep
<1>3. ASSUME NextDay \/ RaidLoads \/ RaidSaves \/ Crash
      PROVE  CopyInv' /\ BudgetInv'
  BY <1>0, <1>3, OthersKeep, RaidSavesKeeps, OthersKeepBudget
<1>4. CASE Next
  BY <1>1, <1>2, <1>3, <1>4, FlagsKeep DEF Next
<1>5. CASE UNCHANGED vars
  <2>1. UNCHANGED <<today, row, turn, pc, copy, held, raid, stale, outings, sorties, rests,
                    grants, died, moves, faults>>
    BY <1>5 DEF vars
  <2>2. UNCHANGED <<clobbered, overlap, raced>>
    BY <1>5 DEF vars
  <2>3. clobbered' \in BOOLEAN /\ overlap' \in BOOLEAN /\ raced' \in BOOLEAN
    BY <2>2, CharParts
  <2>4. BudgetInv'
    BY <1>0, <2>1, <2>2 DEF BudgetInv, BudgetHolds, SingleReset, HeldInBounds, LoneReset
  <2>5. CopyInv'
    BY <1>0, <2>1, <2>2 DEF CopyInv, CopyTypes, NeverStoredDead, CopiesAlive,
       NobodyBeforeCreation, DaysBehind, FreshCopies, RestsCounted, RestsOf, OneSession,
       DeathIsMarked, Undisturbed, InGame
  <2>. QED
    BY <2>3, <2>4, <2>5
<1>. QED
  BY <1>4, <1>5

LEMMA Invariance == Spec => []CharInv
<1>1. CharInv /\ [Next]_vars => CharInv'
  <2>. SUFFICES ASSUME CharInv, [Next]_vars PROVE CharInv'
    OBVIOUS
  <2>1. CopyInv' /\ BudgetInv' /\ clobbered' \in BOOLEAN /\ overlap' \in BOOLEAN /\ raced' \in BOOLEAN
    BY NextChar
  <2>. QED
    BY <2>1 DEF CharInv, TurnInv, TypeOK, CopyInv, CopyTypes, BudgetInv, Places
<1>. QED
  BY InitChar, <1>1, PTL DEF Spec

-----------------------------------------------------------------------------
(* The theorems. *)

\* The daily budget, however sessions interleave (ResetIfNewDay, SpendActions,
\* SpendAttack): granted once a day unless two logins race, and never overspent.
THEOREM BudgetIsKept == Spec => []TurnInv
<1>1. CharInv => TurnInv
  BY DEF CharInv
<1>. QED
  BY <1>1, Invariance, PTL

\* Whoever saves the character last, a session, a raid or a healed death, the
\* row has between 1 and MaxHP hit points (saveChar).
THEOREM StoredAlive == Spec => []NeverStoredDead
<1>1. CharInv => NeverStoredDead
  BY DEF CharInv
<1>. QED
  BY <1>1, Invariance, PTL

\* rest: never more than RestsPerDay in one day_index, unless a stale copy is saved.
THEOREM RestsAreBounded == Spec => []RestsHold
<1>1. CharInv => RestsHold
  <2>. SUFFICES ASSUME CharInv, ~clobbered PROVE rests <= RestsPerDay
    BY DEF RestsHold
  <2>1. row \in Char /\ row.rests \in 0..RestsPerDay
    BY CharFields DEF CharInv, TurnInv, TypeOK
  <2>2. CASE row = NoChar
    BY <2>2 DEF CharInv, NobodyBeforeCreation
  <2>3. CASE row # NoChar
    BY <2>1, <2>3 DEF CharInv, RestsCounted, RestsOf
  <2>. QED
    BY <2>2, <2>3
<1>. QED
  BY <1>1, Invariance, PTL

\* Every path back to the menus saves: at a menu the row shows what the session does.
THEOREM MenusAreSaved == Spec => []MenuIsSaved
<1>1. CharInv => MenuIsSaved
  BY DEF CharInv, FreshCopies, MenuIsSaved, InGame
<1>. QED
  BY <1>1, Invariance, PTL

\* saveChar never lowers the depth record, unless the copy it writes is stale.
THEOREM DepthOnlyGrows == Spec => DepthIsKept
<1>1. CharInv /\ [Next]_vars => [row'.depth >= row.depth \/ clobbered']_vars
  <2>. SUFFICES ASSUME CharInv, Next PROVE row'.depth >= row.depth \/ clobbered'
    OBVIOUS
  <2>0. row.depth \in Nat /\ row \in Char /\ raid \in Char
    BY CharFields DEF CharInv, TurnInv, TypeOK
  <2>1. ASSUME NEW s \in Session, NEW c \in Char, Saves(s, c)
        PROVE  row'.depth >= row.depth \/ clobbered'
    <3>1. row' = c /\ c.depth >= copy[s].depth /\ InGame(s)
      BY <2>1 DEF Saves, Save
    <3>2. s \notin stale \/ clobbered'
      BY <2>1 DEF Saves, Save
    <3>. QED
      BY <3>1, <3>2 DEF CharInv, FreshCopies
  <2>2. ASSUME NEW s \in Session, Create(s), row = NoChar
        PROVE  row'.depth >= row.depth
    BY <2>2 DEF Create, NoChar, NewChar
  <2>3. ASSUME row' = row
        PROVE  row'.depth >= row.depth
    BY <2>0, <2>3
  <2>4. CASE RaidSaves
    <3>1. PICK hp \in 1..raid.hp : Save("raid", [raid EXCEPT !.hp = hp])
      BY <2>4 DEF RaidSaves
    <3>2. row' = [raid EXCEPT !.hp = hp] /\ ("raid" \notin stale \/ clobbered')
      BY <3>1 DEF Save
    <3>3. hp \in Int
      OBVIOUS
    <3>4. row'.depth = raid.depth
      BY <2>0, <3>2, <3>3, Wounded
    <3>. QED
      BY <2>0, <2>4, <3>2, <3>4 DEF RaidSaves, CharInv, FreshCopies
  <2>5. CASE NextDay \/ RaidLoads \/ Crash
    BY <2>3, <2>5 DEF NextDay, RaidLoads, Crash
  <2>6. ASSUME NEW s \in Session, SessionStep(s)
        PROVE  row'.depth >= row.depth \/ clobbered'
    <3>1. Wanders(s) => row' = row
      BY DEF Wanders
    <3>2. LoginReset(s) => row' = row
      BY DEF LoginReset, ResetWith
    <3>. QED
      BY <2>1, <2>2, <2>3, <2>6, <3>1, <3>2, SessionKinds
  <2>. QED
    BY <2>4, <2>5, <2>6 DEF Next
<1>. QED
  BY <1>1, Invariance, PTL DEF Spec, DepthIsKept

\* Only explore counts an expedition and only attackMenu an attack.
LEMMA GoingOut ==
    ASSUME CharInv, Next, outings' > outings \/ sorties' > sorties
    PROVE  \E s \in Session : AttackRival(s) \/ \E deep \in BOOLEAN : Explore(s, deep)
<1>1. outings \in Nat /\ sorties \in Nat
  BY DEF CharInv, TurnInv, TypeOK
<1>2. ~(UNCHANGED <<outings, sorties>>) /\ ~(outings' = 0 /\ sorties' = 0)
  BY <1>1
<1>3. ~(NextDay \/ RaidLoads \/ RaidSaves \/ Crash)
  BY <1>2 DEF NextDay, RaidLoads, RaidSaves, Crash, historyVars
<1>4. ASSUME NEW s \in Session PROVE ~(Enter(s) \/ Create(s) \/ LoginRead(s) \/ LoginReset(s))
  BY <1>2 DEF Enter, Create, LoginRead, LoginReset, ResetWith, historyVars
<1>5. ASSUME NEW s \in Session PROVE ~(Heal(s) \/ Greet(s) \/ Leave(s) \/ FightWon(s) \/ FightHit(s))
  BY <1>2 DEF Heal, Greet, Leave, FightWon, FightHit, historyVars
<1>6. ASSUME NEW s \in Session
      PROVE  ~(FightFled(s) \/ Die(s) \/ Drain(s) \/ Rest(s) \/ RestRefused(s) \/ Mend(s))
  BY <1>2 DEF FightFled, Die, Drain, Rest, RestRefused, Mend, historyVars
<1>. QED
  BY <1>3, <1>4, <1>5, <1>6 DEF Next, SessionStep

\* explore and attackMenu: who died on this day_index does not go out again on it.
THEOREM DeadStayHome == Spec => DeathEndsTheDay
<1>1. CharInv /\ [Next]_vars =>
        [(Undisturbed /\ (outings' > outings \/ sorties' > sorties)) => died # turn.index]_vars
  <2>. SUFFICES ASSUME CharInv, Next, Undisturbed, outings' > outings \/ sorties' > sorties,
                       died = turn.index
                PROVE  FALSE
    OBVIOUS
  <2>1. PICK s \in Session : AttackRival(s) \/ \E deep \in BOOLEAN : Explore(s, deep)
    BY GoingOut
  <2>2. InGame(s) /\ ~DeadToday(s)
    BY <2>1 DEF AttackRival, Explore, InGame
  <2>. QED
    BY <2>2 DEF CharInv, DeathIsMarked, DeadToday
<1>. QED
  BY <1>1, Invariance, PTL DEF Spec, DeathEndsTheDay
=============================================================================
