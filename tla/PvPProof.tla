------------------------------ MODULE PvPProof ------------------------------
(***************************************************************************)
(* The queue at the hub, the drains and the logs agree, an attack is       *)
(* credited once and once more per failure, the cooldown holds, and loot   *)
(* is neither made nor lost, for any nodes, players, attacks and failures. *)
(***************************************************************************)
EXTENDS PvP, FiniteSetTheorems, WellFoundedInduction, TLAPS

Drained == [at : {"idle", "drain", "fought", "took", "report"},
            todo : SUBSET Attack, cur : 0..MaxAttacks]

Result == [attack : Attack, local : BOOLEAN, loot : Nat]

LEMMA Numbers ==
    MaxAttacks \in Nat /\ MaxFaults \in Nat /\ Carried \in Nat /\ Home \in [Player -> Node]
  BY PlayersAssumption, BoundsAssumption

-----------------------------------------------------------------------------
(* Types. *)

LEMMA LootIsNat ==
    ASSUME NEW q \in Nat
    PROVE  LootOf(q) \subseteq Nat /\ \A n \in Nat : Left(q, n) \in Nat
<1>1. (q + 2) \div 4 \in Nat /\ q \div 2 \in Nat
  OBVIOUS
<1>2. ASSUME NEW x \in LootOf(q) PROVE x \in Nat
  <2>1. CASE q = 0
    BY <1>2, <2>1 DEF LootOf
  <2>2. CASE q # 0
    <3>1. PICK a \in Nat, b \in Nat : LootOf(q) = a..b
      BY <1>1, <2>2 DEF LootOf
    <3>. QED
      BY <1>2, <3>1
  <2>. QED
    BY <2>1, <2>2
<1>3. \A n \in Nat : Left(q, n) \in Nat
  BY DEF Left
<1>. QED
  BY <1>2, <1>3

LEMMA TypeInit == Init => TypeOK
<1>. SUFFICES ASSUME Init PROVE TypeOK
  OBVIOUS
<1>1. who \in [Attack -> Player \X Player]
  <2>1. \A i \in Attack : (CHOOSE w \in Quarry[i] : TRUE) \in Player \X Player
    BY PlayersAssumption
  <2>. QED
    BY <2>1 DEF Init
<1>2. sync \in [Node -> Drained]
  BY Numbers DEF Init, Idle, Drained
<1>3. results \in [Node -> Seq(Result)]
  BY DEF Init
<1>4. /\ stage \in [Attack -> Stages] /\ bag \in [Player -> Nat]
      /\ row \in [Attack -> {"none", "pending", "settled"}] /\ age \in [Attack -> 0..2]
      /\ hits \in [Player -> Nat] /\ spoil \in [Attack -> Nat] /\ credits \in [Attack -> Nat]
  BY Numbers DEF Init, Stages
<1>5. /\ req \in [Attack -> {"none", "posted", "refused", "pending", "resolved", "blocked"}]
      /\ late \in SUBSET Attack /\ malformed \in SUBSET Legacy
      /\ got \in [Node -> [Node -> Nat]] /\ unpaid \in SUBSET Attack
      /\ raced \in SUBSET (Attack \cup Player) /\ faults \in 0..MaxFaults
  BY Numbers, PlayersAssumption DEF Init
<1>6. ran \in [Node -> [Node -> BOOLEAN]]
  BY DEF Init
<1>. QED
  BY <1>1, <1>2, <1>3, <1>4, <1>5, <1>6 DEF TypeOK, Drained, Result

LEMMA InWorkTyped ==
    ASSUME TypeOK, NEW n \in Node, NEW i \in Attack, NEW where \in {"fought", "took", "report"}
    PROVE  /\ InWork(n, i, where) \in [Node -> Drained]
           /\ InWork(n, i, where)[n].at = where /\ InWork(n, i, where)[n].cur = i
           /\ InWork(n, i, where)[n].todo = sync[n].todo
           /\ \A m \in Node \ {n} : InWork(n, i, where)[m] = sync[m]
<1>. DEFINE u == sync[n]
            v == [u EXCEPT !.at = where, !.cur = i]
<1>1. sync \in [Node -> Drained] /\ u \in Drained
  BY DEF TypeOK, Drained
<1>2. i \in 0..MaxAttacks
  BY Numbers DEF Attack
<1>3. InWork(n, i, where) = [sync EXCEPT ![n] = v]
  BY DEF InWork
<1>. HIDE DEF u
<1>4. v \in Drained /\ v.at = where /\ v.cur = i /\ v.todo = u.todo
  BY <1>1, <1>2 DEF Drained
<1>. HIDE DEF v
<1>. QED
  BY <1>1, <1>3, <1>4 DEF u

LEMMA RestTyped ==
    ASSUME TypeOK, NEW n \in Node, NEW i
    PROVE  /\ Rest(n, i) \in Drained
           /\ Rest(n, i).todo \subseteq sync[n].todo \ {i}
           /\ Rest(n, i).at \in {"idle", "drain"}
           /\ sync[n].todo \ {i} \subseteq Rest(n, i).todo
<1>1. sync[n].todo \in SUBSET Attack
  BY DEF TypeOK
<1>. QED
  BY <1>1, Numbers DEF Rest, Idle, Drained

LEMMA LogAppended ==
    ASSUME TypeOK, NEW n \in Node, NEW e \in Result,
           results' = [results EXCEPT ![n] = Append(results[n], e)]
    PROVE  /\ results' \in [Node -> Seq(Result)]
           /\ Len(results'[n]) = Len(results[n]) + 1 /\ results'[n][Len(results[n]) + 1] = e
           /\ \A k \in 1..Len(results[n]) : results'[n][k] = results[n][k]
           /\ \A m \in Node \ {n} : results'[m] = results[m]
<1>1. results \in [Node -> Seq(Result)] /\ results[n] \in Seq(Result)
  BY DEF TypeOK, Result
<1>2. results'[n] = Append(results[n], e) /\ \A m \in Node \ {n} : results'[m] = results[m]
  BY <1>1
<1>. QED
  BY <1>1, <1>2

LEMMA PairsTyped ==
    ASSUME TypeOK, NEW i \in Attack
    PROVE  Attacker(i) \in Player /\ Victim(i) \in Player
           /\ Home[Attacker(i)] \in Node /\ Home[Victim(i)] \in Node
  BY Numbers DEF TypeOK, Attacker, Victim

LEMMA RacedTyped ==
    ASSUME TypeOK, NEW v \in Player
    PROVE  RacedAt(v) \in SUBSET (Attack \cup Player) /\ raced \subseteq RacedAt(v)
  BY DEF TypeOK, RacedAt

LEMMA FaultTyped == TypeOK /\ Fault => faults' \in 0..MaxFaults /\ faults' = faults + 1
  BY Numbers DEF TypeOK, Fault

LEMMA Inventories ==
    ASSUME TypeOK, NEW i \in Attack
    PROVE  /\ bag \in [Player -> Nat] /\ hits \in [Player -> Nat] /\ spoil \in [Attack -> Nat]
           /\ Victim(i) \in Player /\ Attacker(i) \in Player
           /\ spoil[i] \in Nat /\ LootOf(bag[Victim(i)]) \subseteq Nat
           /\ Left(bag[Victim(i)], spoil[i]) \in Nat
<1>1. bag \in [Player -> Nat] /\ hits \in [Player -> Nat] /\ spoil \in [Attack -> Nat]
  BY DEF TypeOK
<1>2. Victim(i) \in Player /\ Attacker(i) \in Player
  BY PairsTyped
<1>. QED
  BY <1>1, <1>2, LootIsNat

LEMMA TypeSession ==
    ASSUME TypeOK, NEW i \in Attack,
           \/ \E a, v \in Player : Pick(i, a, v)
           \/ SpendAttack(i) \/ PostAttack(i) \/ PostAnswered(i) \/ PostGivesUp(i)
           \/ LocalWin(i) \/ LocalTake(i)
    PROVE  TypeOK'
<1>1. \A s \in Stages : [stage EXCEPT ![i] = s] \in [Attack -> Stages]
  BY DEF TypeOK
<1>2. ASSUME NEW a \in Player, NEW v \in Player, Pick(i, a, v) PROVE TypeOK'
  <2>1. stage' \in [Attack -> Stages]
    BY <1>1, <1>2 DEF Pick, Stages
  <2>2. who' \in [Attack -> Player \X Player]
    BY <1>2 DEF Pick, TypeOK
  <2>3. raced' \in SUBSET (Attack \cup Player)
    BY <1>2 DEF Pick, TypeOK, UnderWay
  <2>. QED
    BY <1>2, <2>1, <2>2, <2>3 DEF Pick, TypeOK, hubVars, feedVars
<1>3. CASE SpendAttack(i)
  <2>1. stage' \in [Attack -> Stages]
    BY <1>1, <1>3 DEF SpendAttack, Stages
  <2>. QED
    BY <1>3, <2>1 DEF SpendAttack, TypeOK, hubVars, feedVars
<1>4. CASE PostAttack(i)
  <2>1. stage' \in [Attack -> Stages]
    BY <1>1, <1>4 DEF PostAttack, Stages
  <2>. QED
    BY <1>4, <2>1 DEF PostAttack, TypeOK, feedVars
<1>5. CASE PostAnswered(i)
  <2>1. stage' \in [Attack -> Stages]
    BY <1>1, <1>5 DEF PostAnswered, Stages
  <2>2. row' \in [Attack -> {"none", "pending", "settled"}] /\ age' \in [Attack -> 0..2]
    <3>1. row \in [Attack -> {"none", "pending", "settled"}] /\ age \in [Attack -> 0..2]
      BY DEF TypeOK
    <3>. QED
      BY <1>5, <3>1 DEF PostAnswered
  <2>. QED
    BY <1>5, <2>1, <2>2 DEF PostAnswered, TypeOK, hubVars, feedVars
<1>6. CASE PostGivesUp(i)
  <2>1. stage' \in [Attack -> Stages]
    BY <1>1, <1>6 DEF PostGivesUp, Stages
  <2>. QED
    BY <1>6, <2>1, FaultTyped DEF PostGivesUp, TypeOK, hubVars, feedVars
<1>7. CASE LocalWin(i)
  <2>1. stage' \in [Attack -> Stages]
    BY <1>1, <1>7 DEF LocalWin, Stages
  <2>2. spoil' \in [Attack -> Nat]
    BY <1>7, Inventories DEF LocalWin
  <2>3. raced' \in SUBSET (Attack \cup Player)
    BY <1>7, RacedTyped, PairsTyped DEF LocalWin
  <2>. QED
    BY <1>7, <2>1, <2>2, <2>3 DEF LocalWin, TypeOK, hubVars, feedVars
<1>8. CASE LocalTake(i)
  <2>1. stage' \in [Attack -> Stages]
    BY <1>1, <1>8 DEF LocalTake, Stages
  <2>2. bag' \in [Player -> Nat]
    BY <1>8, Inventories DEF LocalTake
  <2>. QED
    BY <1>8, <2>1, <2>2 DEF LocalTake, TypeOK, hubVars, feedVars
<1>. QED
  BY <1>2, <1>3, <1>4, <1>5, <1>6, <1>7, <1>8

\* The end of a fight next door.
LEMMA LocalRecorded ==
    ASSUME TypeOK, NEW i \in Attack, LocalRecord(i)
    PROVE  /\ stage' \in [Attack -> Stages] /\ row' \in [Attack -> {"none", "pending", "settled"}]
           /\ age' \in [Attack -> 0..2] /\ hits' \in [Player -> Nat]
           /\ spoil' \in [Attack -> Nat] /\ results' \in [Node -> Seq(Result)]
           /\ \A n \in Node :
                /\ Len(results[n]) <= Len(results'[n])
                /\ \A k \in 1..Len(results[n]) : results'[n][k] = results[n][k]
                /\ \A k \in 1..Len(results'[n]) : k <= Len(results[n]) \/ results'[n][k].local
<1>. DEFINE e == [attack |-> i, local |-> TRUE, loot |-> spoil[i]]
            n == Home[Victim(i)]
<1>1. e \in Result /\ e.local /\ n \in Node
  BY PairsTyped DEF TypeOK, Result
<1>2. results' = [results EXCEPT ![n] = Append(results[n], e)]
  BY DEF LocalRecord
<1>3. stage' \in [Attack -> Stages]
  BY DEF LocalRecord, TypeOK, Stages
<1>4. row' \in [Attack -> {"none", "pending", "settled"}] /\ age' \in [Attack -> 0..2]
      /\ hits' \in [Player -> Nat] /\ spoil' \in [Attack -> Nat]
  <2>1. row \in [Attack -> {"none", "pending", "settled"}] /\ age \in [Attack -> 0..2]
    BY DEF TypeOK
  <2>. QED
    BY <2>1, Inventories DEF LocalRecord
<1>. HIDE DEF e, n
<1>5. /\ results' \in [Node -> Seq(Result)]
      /\ Len(results'[n]) = Len(results[n]) + 1 /\ results'[n][Len(results[n]) + 1] = e
      /\ \A k \in 1..Len(results[n]) : results'[n][k] = results[n][k]
      /\ \A m \in Node \ {n} : results'[m] = results[m]
  BY <1>1, <1>2, LogAppended
<1>6. \A m \in Node : Len(results[m]) \in Nat
  BY DEF TypeOK
<1>7. \A m \in Node :
                /\ Len(results[m]) <= Len(results'[m])
                /\ \A k \in 1..Len(results[m]) : results'[m][k] = results[m][k]
                /\ \A k \in 1..Len(results'[m]) : k <= Len(results[m]) \/ results'[m][k].local
  <2>1. ASSUME NEW k \in 1..Len(results'[n]) PROVE k <= Len(results[n]) \/ results'[n][k].local
    <3>1. k <= Len(results[n]) \/ k = Len(results[n]) + 1
      BY <1>1, <1>5, <1>6
    <3>. QED
      BY <1>1, <1>5, <3>1
  <2>2. Len(results[n]) <= Len(results'[n])
    BY <1>1, <1>5, <1>6
  <2>3. \A m \in Node \ {n} : Len(results[m]) <= Len(results[m])
    BY <1>6
  <2>. QED
    BY <1>5, <2>1, <2>2, <2>3
<1>. QED
  BY <1>3, <1>4, <1>5, <1>7

LEMMA TypeLocal ==
    ASSUME TypeOK, NEW i \in Attack, LocalLose(i) \/ LocalGive(i)
    PROVE  TypeOK'
<1>1. LocalRecord(i)
  BY DEF LocalLose, LocalGive
<1>2. bag' \in [Player -> Nat]
  BY Inventories DEF LocalLose, LocalGive
<1>3. UNCHANGED <<who, hubVars, sync, got, ran, credits, unpaid, raced, faults>>
  BY DEF LocalLose, LocalGive
<1>. QED
  BY <1>1, <1>2, <1>3, LocalRecorded DEF TypeOK, hubVars, Result

LEMMA TypeHub ==
    ASSUME TypeOK, NEW i \in Attack,
           HubQueues(i) \/ HubRefuses(i) \/ HubCompletesLate(i) \/ QueueRetry(i)
    PROVE  TypeOK'
<1>1. req' \in [Attack -> {"none", "posted", "refused", "pending", "resolved", "blocked"}]
      /\ late' \in SUBSET Attack
  <2>1. req \in [Attack -> {"none", "posted", "refused", "pending", "resolved", "blocked"}]
        /\ late \in SUBSET Attack
    BY DEF TypeOK
  <2>2. CASE HubQueues(i) \/ HubRefuses(i)
    BY <2>1, <2>2 DEF HubQueues, HubRefuses
  <2>3. CASE HubCompletesLate(i)
    BY <2>1, <2>3 DEF HubCompletesLate, Settled
  <2>4. CASE QueueRetry(i)
    BY <2>1, <2>4 DEF QueueRetry
  <2>. QED
    BY <2>2, <2>3, <2>4
<1>2. UNCHANGED <<stage, who, bag, row, age, hits, malformed, sync, spoil, results, got, ran, credits,
                  unpaid, raced, faults>>
  BY DEF HubQueues, HubRefuses, HubCompletesLate, QueueRetry, sessionVars, feedVars
<1>. QED
  BY <1>1, <1>2 DEF TypeOK

LEMMA TypeNextDay == TypeOK /\ NextDay => TypeOK'
<1>. SUFFICES ASSUME TypeOK, NextDay PROVE TypeOK'
  OBVIOUS
<1>1. age' \in [Attack -> 0..2] /\ hits' \in [Player -> Nat]
  <2>1. age \in [Attack -> 0..2]
    BY DEF TypeOK
  <2>. QED
    BY <2>1 DEF NextDay
<1>. QED
  BY <1>1 DEF NextDay, TypeOK, sessionVars, hubVars, feedVars

\* Requests in work are attacks.
LEMMA CurTyped ==
    ASSUME QueueInv, NEW n \in Node, sync[n].at \notin {"idle", "drain"}
    PROVE  /\ sync[n].cur \in Attack /\ sync[n].cur \in sync[n].todo /\ sync[n].cur \notin malformed
           /\ Home[Victim(sync[n].cur)] = n
           /\ req[sync[n].cur] \in {"pending", "resolved"}
<1>1. sync[n].todo \subseteq Attack
  BY DEF QueueInv, TypeOK
<1>. QED
  BY <1>1 DEF QueueInv, DrainsAreOwn, RequestsArePosted

LEMMA TypeDrain ==
    ASSUME QueueInv, NEW n \in Node,
           \/ Fetch(n) \/ Take(n) \/ EmitFails(n) \/ Complete(n) \/ CompleteFails(n)
           \/ \E i \in Attack : BlockMalformed(n, i) \/ Fight(n, i)
    PROVE  TypeOK'
<1>. USE DEF QueueInv
<1>1. sync \in [Node -> Drained] /\ \A v \in Drained : [sync EXCEPT ![n] = v] \in [Node -> Drained]
  BY DEF TypeOK, Drained
<1>2. CASE Fetch(n)
  <2>. DEFINE pending == {i \in Attack : req[i] = "pending" /\ Home[Victim(i)] = n}
  <2>1. [at |-> "drain", todo |-> pending, cur |-> 0] \in Drained
    BY Numbers DEF Drained
  <2>2. sync' \in [Node -> Drained]
    BY <1>1, <1>2, <2>1 DEF Fetch
  <2>. QED
    BY <1>2, <2>2 DEF Fetch, TypeOK, Drained, sessionVars, hubVars, feedVars
<1>3. CASE Take(n)
  <2>1. sync[n].cur \in Attack
    BY <1>3, CurTyped DEF Take
  <2>2. sync' \in [Node -> Drained]
    BY <1>3, <2>1, InWorkTyped DEF Take
  <2>3. bag' \in [Player -> Nat] /\ hits' \in [Player -> Nat]
    BY <1>3, <2>1, Inventories DEF Take
  <2>. QED
    BY <1>3, <2>2, <2>3 DEF Take, TypeOK, Drained, sessionVars, hubVars, feedVars
<1>4. CASE EmitFails(n)
  <2>1. sync' \in [Node -> Drained]
    BY <1>1, <1>4, RestTyped DEF EmitFails
  <2>. QED
    BY <1>4, <2>1, FaultTyped DEF EmitFails, TypeOK, Drained, sessionVars, hubVars, feedVars
<1>5. CASE Complete(n)
  <2>1. sync' \in [Node -> Drained]
    BY <1>1, <1>5, RestTyped DEF Complete
  <2>2. req' \in [Attack -> {"none", "posted", "refused", "pending", "resolved", "blocked"}]
    BY <1>5 DEF Complete, Settled, TypeOK
  <2>. QED
    BY <1>5, <2>1, <2>2 DEF Complete, TypeOK, Drained, sessionVars, feedVars
<1>6. CASE CompleteFails(n)
  <2>1. sync' \in [Node -> Drained]
    BY <1>1, <1>6, RestTyped DEF CompleteFails
  <2>2. late' \in SUBSET Attack
    <3>1. late \in SUBSET Attack /\ sync[n].cur \in Attack
      BY <1>6, CurTyped DEF CompleteFails, TypeOK
    <3>. QED
      BY <1>6, <3>1 DEF CompleteFails
  <2>. QED
    BY <1>6, <2>1, <2>2, FaultTyped DEF CompleteFails, TypeOK, Drained, sessionVars, feedVars
<1>7. ASSUME NEW i \in Attack, BlockMalformed(n, i) PROVE TypeOK'
  <2>1. sync' \in [Node -> Drained]
    BY <1>1, <1>7, RestTyped DEF BlockMalformed
  <2>2. req' \in [Attack -> {"none", "posted", "refused", "pending", "resolved", "blocked"}]
    BY <1>7 DEF BlockMalformed, Settled, TypeOK
  <2>. QED
    BY <1>7, <2>1, <2>2 DEF BlockMalformed, TypeOK, Drained, sessionVars, feedVars
<1>8. ASSUME NEW i \in Attack, Fight(n, i) PROVE TypeOK'
  <2>1. sync' \in [Node -> Drained]
    BY <1>8, InWorkTyped DEF Fight
  <2>2. spoil' \in [Attack -> Nat]
    BY <1>8, Inventories DEF Fight
  <2>3. raced' \in SUBSET (Attack \cup Player)
    <3>1. raced \in SUBSET (Attack \cup Player) /\ RacedAt(Victim(i)) \in SUBSET (Attack \cup Player)
      BY RacedTyped, PairsTyped DEF TypeOK
    <3>. QED
      BY <1>8, <3>1 DEF Fight
  <2>. QED
    BY <1>8, <2>1, <2>2, <2>3 DEF Fight, TypeOK, Drained, sessionVars, hubVars, feedVars
<1>. QED
  BY <1>2, <1>3, <1>4, <1>5, <1>6, <1>7, <1>8

LEMMA TypeEmit ==
    ASSUME QueueInv, NEW n \in Node, EmitResult(n)
    PROVE  /\ TypeOK'
           /\ \A m \in Node :
                /\ Len(results[m]) <= Len(results'[m])
                /\ \A k \in 1..Len(results[m]) : results'[m][k] = results[m][k]
                /\ \A k \in 1..Len(results'[m]) : k <= Len(results[m]) \/ m = n
           /\ Len(results'[n]) = Len(results[n]) + 1
           /\ results'[n][Len(results[n]) + 1].attack = sync[n].cur
           /\ ~results'[n][Len(results[n]) + 1].local
<1>. USE DEF QueueInv
<1>. DEFINE i == sync[n].cur
            e == [attack |-> i, local |-> FALSE, loot |-> spoil[i]]
<1>1. i \in Attack
  BY CurTyped DEF EmitResult
<1>2. e \in Result /\ e.attack = i /\ e.local = FALSE
  BY <1>1 DEF TypeOK, Result
<1>3. results' = [results EXCEPT ![n] = Append(results[n], e)]
  BY DEF EmitResult
<1>4. sync' \in [Node -> Drained]
  BY <1>1, InWorkTyped DEF EmitResult
<1>5. spoil' \in [Attack -> Nat]
  BY <1>1 DEF EmitResult, TypeOK
<1>. HIDE DEF e
<1>6. /\ results' \in [Node -> Seq(Result)]
      /\ Len(results'[n]) = Len(results[n]) + 1 /\ results'[n][Len(results[n]) + 1] = e
      /\ \A k \in 1..Len(results[n]) : results'[n][k] = results[n][k]
      /\ \A m \in Node \ {n} : results'[m] = results[m]
  BY <1>2, <1>3, LogAppended
<1>7. TypeOK'
  BY <1>4, <1>5, <1>6 DEF EmitResult, TypeOK, Result, Drained, sessionVars, hubVars
<1>8. \A m \in Node : Len(results[m]) \in Nat
  BY DEF TypeOK
<1>9. \A m \in Node :
                /\ Len(results[m]) <= Len(results'[m])
                /\ \A k \in 1..Len(results[m]) : results'[m][k] = results[m][k]
                /\ \A k \in 1..Len(results'[m]) : k <= Len(results[m]) \/ m = n
  BY <1>6, <1>8
<1>. QED
  BY <1>2, <1>6, <1>7, <1>9

LEMMA CreditTyped ==
    ASSUME TypeOK, NEW i \in Attack, NEW loot \in Nat, Credit(i, loot)
    PROVE  bag' \in [Player -> Nat] /\ credits' \in [Attack -> Nat]
<1>1. bag' = [bag EXCEPT ![Attacker(i)] = bag[Attacker(i)] + loot]
  BY DEF Credit
<1>2. credits' = [credits EXCEPT ![i] = credits[i] + 1] /\ credits \in [Attack -> Nat]
  BY DEF Credit, TypeOK
<1>. QED
  BY <1>1, <1>2, Inventories

LEMMA RowsTyped ==
    ASSUME TypeOK, NEW i \in Attack
    PROVE  RowsSettled(i) \in [Attack -> {"none", "pending", "settled"}]
<1>1. row \in [Attack -> {"none", "pending", "settled"}]
  BY DEF TypeOK
<1>. QED
  BY <1>1 DEF RowsSettled

\* The handler at m: the inventory, the row and the marks.
LEMMA TypeHandler ==
    ASSUME TypeOK, NEW m \in Node, NEW n \in Node, HandlerRuns(m, n) \/ HandlerMarked(m, n)
    PROVE  TypeOK'
<1>1. got \in [Node -> [Node -> Nat]] /\ ran \in [Node -> [Node -> BOOLEAN]]
      /\ results[n] \in Seq(Result) /\ got[m][n] \in Nat
  BY DEF TypeOK, Result
<1>2. CASE HandlerMarked(m, n)
  <2>1. got' \in [Node -> [Node -> Nat]]
    BY <1>1, <1>2 DEF HandlerMarked
  <2>2. ran' \in [Node -> [Node -> BOOLEAN]]
    BY <1>1, <1>2 DEF HandlerMarked
  <2>. QED
    BY <1>2, <2>1, <2>2 DEF HandlerMarked, TypeOK, sessionVars, hubVars
<1>3. CASE HandlerRuns(m, n)
  <2>. DEFINE e == results[n][got[m][n] + 1]
  <2>1. e \in Result
    <3>1. got[m][n] < Len(results[n])
      BY <1>3 DEF HandlerRuns, HandlerDue
    <3>. QED
      BY <1>1, <3>1
  <2>2. e.attack \in Attack /\ e.loot \in Nat
    BY <2>1 DEF Result
  <2>3. UNCHANGED <<stage, who, age, hits, req, late, malformed, sync, spoil, results, unpaid, raced, faults>>
    BY <1>3 DEF HandlerRuns, sessionVars, hubVars
  <2>4. CASE Mine(m, e)
    <3>1. /\ ran' = [ran EXCEPT ![m][n] = TRUE] /\ got' = got
          /\ Credit(e.attack, e.loot) /\ row' = RowsSettled(e.attack)
      BY <1>3, <2>4 DEF HandlerRuns
    <3>2. ran' \in [Node -> [Node -> BOOLEAN]]
      BY <1>1, <3>1
    <3>3. bag' \in [Player -> Nat] /\ credits' \in [Attack -> Nat]
      BY <2>2, <3>1, CreditTyped
    <3>4. row' \in [Attack -> {"none", "pending", "settled"}]
      <4>1. RowsSettled(e.attack) \in [Attack -> {"none", "pending", "settled"}]
        BY <2>2, RowsTyped
      <4>. QED
        BY <3>1, <4>1
    <3>. QED
      BY <2>3, <3>1, <3>2, <3>3, <3>4 DEF TypeOK
  <2>5. CASE ~Mine(m, e)
    <3>1. got' = [got EXCEPT ![m][n] = got[m][n] + 1] /\ UNCHANGED <<ran, bag, credits, row>>
      BY <1>3, <2>5 DEF HandlerRuns
    <3>2. got' \in [Node -> [Node -> Nat]]
      BY <1>1, <3>1
    <3>. QED
      BY <2>3, <3>1, <3>2 DEF TypeOK
  <2>. QED
    BY <2>4, <2>5
<1>. QED
  BY <1>2, <1>3

\* A handler that fails adds nothing, or leaves the rows; it is marked all the same.
LEMMA HandlerFailed ==
    ASSUME TypeOK, NEW m \in Node, NEW n \in Node, HandlerFails(m, n)
    PROVE  /\ m # n /\ faults' = faults + 1 /\ faults' \in 0..MaxFaults
           /\ ran' = [ran EXCEPT ![m][n] = TRUE]
           /\ UNCHANGED <<stage, who, age, hits, req, late, malformed, sync, spoil, results, got,
                          raced>>
           /\ \E i \in Attack, loot \in Nat :
                  /\ unpaid' \in {unpaid, unpaid \cup {i}}
                  /\ row' \in {row, RowsSettled(i)}
                  /\ Credit(i, loot) \/ UNCHANGED <<bag, credits>>
<1>. DEFINE e == results[n][got[m][n] + 1]
<1>1. HandlerDue(m, n) /\ Fault
  BY DEF HandlerFails
<1>2. e.attack \in Attack /\ e.loot \in Nat
  <2>1. got \in [Node -> [Node -> Nat]] /\ results[n] \in Seq(Result)
    BY DEF TypeOK, Result
  <2>2. got[m][n] \in Nat /\ got[m][n] < Len(results[n])
    BY <1>1, <2>1 DEF HandlerDue
  <2>3. e \in Result
    BY <2>1, <2>2
  <2>. QED
    BY <2>3 DEF Result
<1>3. /\ unpaid' \in {unpaid, unpaid \cup {e.attack}}
      /\ row' \in {row, RowsSettled(e.attack)}
      /\ Credit(e.attack, e.loot) \/ UNCHANGED <<bag, credits>>
  BY DEF HandlerFails
<1>4. /\ ran' = [ran EXCEPT ![m][n] = TRUE]
      /\ UNCHANGED <<stage, who, age, hits, req, late, malformed, sync, spoil, results, got, raced>>
  BY DEF HandlerFails, sessionVars, hubVars
<1>5. m # n /\ faults' = faults + 1 /\ faults' \in 0..MaxFaults
  BY <1>1, FaultTyped DEF HandlerDue, Fault
<1>. HIDE DEF e
<1>. QED
  BY <1>2, <1>3, <1>4, <1>5

LEMMA TypeHandlerFails ==
    ASSUME TypeOK, NEW m \in Node, NEW n \in Node, HandlerFails(m, n)
    PROVE  TypeOK'
<1>1. PICK i \in Attack, loot \in Nat :
           /\ unpaid' \in {unpaid, unpaid \cup {i}}
           /\ row' \in {row, RowsSettled(i)}
           /\ Credit(i, loot) \/ UNCHANGED <<bag, credits>>
  BY HandlerFailed
<1>2. bag' \in [Player -> Nat] /\ credits' \in [Attack -> Nat]
  BY <1>1, CreditTyped DEF TypeOK
<1>3. row' \in [Attack -> {"none", "pending", "settled"}]
  BY <1>1, RowsTyped DEF TypeOK
<1>4. unpaid' \in SUBSET Attack
  BY <1>1 DEF TypeOK
<1>5. ran' \in [Node -> [Node -> BOOLEAN]]
  <2>1. ran \in [Node -> [Node -> BOOLEAN]] /\ ran' = [ran EXCEPT ![m][n] = TRUE]
    BY HandlerFailed DEF TypeOK
  <2>. QED
    BY <2>1
<1>6. /\ faults' \in 0..MaxFaults
      /\ UNCHANGED <<stage, who, age, hits, req, late, malformed, sync, spoil, results, got, raced>>
  BY HandlerFailed
<1>. QED
  BY <1>2, <1>3, <1>4, <1>5, <1>6 DEF TypeOK

LEMMA TypeCrash ==
    ASSUME QueueInv, NEW n \in Node, Crash(n)
    PROVE  TypeOK'
<1>. USE DEF QueueInv
<1>1. stage' \in [Attack -> Stages]
  <2>1. stage \in [Attack -> Stages]
    BY DEF TypeOK
  <2>. QED
    BY <2>1 DEF Crash, Stages
<1>2. sync' \in [Node -> Drained]
  <2>1. sync \in [Node -> Drained] /\ Idle \in Drained
    BY Numbers DEF TypeOK, Drained, Idle
  <2>. QED
    BY <2>1 DEF Crash
<1>3. ran' \in [Node -> [Node -> BOOLEAN]]
  <2>1. ran \in [Node -> [Node -> BOOLEAN]]
    BY DEF TypeOK
  <2>. QED
    BY <2>1 DEF Crash
<1>4. late' \in SUBSET Attack
  <2>1. late \in SUBSET Attack /\ (sync[n].at = "report" => sync[n].cur \in Attack)
    BY CurTyped DEF TypeOK
  <2>. QED
    BY <2>1 DEF Crash
<1>5. faults' \in 0..MaxFaults
  BY FaultTyped DEF Crash
<1>. QED
  BY <1>1, <1>2, <1>3, <1>4, <1>5 DEF Crash, TypeOK, Drained

LEMMA TypeNext == QueueInv /\ [Next]_vars => TypeOK'
<1>. SUFFICES ASSUME QueueInv, [Next]_vars PROVE TypeOK'
  OBVIOUS
<1>1. CASE UNCHANGED vars
  BY <1>1 DEF QueueInv, TypeOK, vars
<1>2. TypeOK
  BY DEF QueueInv
<1>. QED
  BY <1>1, <1>2, TypeSession, TypeLocal, TypeHub, TypeNextDay, TypeDrain, TypeEmit, TypeHandler,
     TypeHandlerFails, TypeCrash
  DEF Next, Settle, Drain, SessionStep

-----------------------------------------------------------------------------
(* The queue and the logs.  A step is described by what it does to the hub's   *)
(* rows, to late reports, to the drains and to the logs, in terms of the state *)
(* before it.                                                                  *)

Accepted == {"pending", "resolved", "blocked"}

\* A request's row never leaves the queue, it is resolved when the result is
\* announced, and whose attack it is stays.
RequestStep ==
    \A i \in Attack :
        /\ req'[i] = "resolved" => Announced(i)
        /\ req[i] \in Accepted => req'[i] \in Accepted
        /\ req'[i] = "blocked" => i \in malformed
        /\ stage'[i] \in {"none", "checked", "spent", "read", "took"} => req'[i] = "none"
        /\ req[i] # "none" => who'[i] = who[i]

\* The log of a node grows by results of accepted requests on its players.
LogStep ==
    \A n \in Node :
        /\ Len(results[n]) <= Len(results'[n])
        /\ \A k \in 1..Len(results[n]) : results'[n][k] = results[n][k]
        /\ \A k \in 1..Len(results'[n]) :
             \/ k <= Len(results[n])
             \/ results'[n][k].local
             \/ LET i == results'[n][k].attack
                IN  /\ Home[Victim(i)] = n /\ i \notin malformed
                    /\ req[i] \in {"pending", "resolved"}

\* A drain takes on accepted requests on its players, and reports what it has
\* announced, now or before.
DrainStep ==
    \A n \in Node :
        /\ \A i \in sync'[n].todo : Home[Victim(i)] = n /\ req[i] \in Accepted
        /\ sync'[n].at \notin {"idle", "drain"} => sync'[n].cur \in sync'[n].todo \ malformed
        /\ sync'[n].at = "report" =>
             \/ Announced(sync'[n].cur)
             \/ \E k \in 1..Len(results'[n]) :
                  results'[n][k].attack = sync'[n].cur /\ ~results'[n][k].local

LEMMA AnnouncedIsAccepted ==
    ASSUME QueueInv, NEW i, Announced(i), i \in Attack
    PROVE  req[i] \in {"pending", "resolved"}
<1>1. Home[Victim(i)] \in Node
  BY PairsTyped DEF QueueInv
<1>. QED
  BY <1>1 DEF QueueInv, Announced, FoughtFor, RequestsArePosted

LEMMA AnnouncedStays ==
    ASSUME QueueInv, RequestStep, LogStep, NEW i \in Attack, Announced(i)
    PROVE  \E k \in 1..Len(results'[Home[who'[i][2]]]) :
              /\ results'[Home[who'[i][2]]][k].attack = i
              /\ ~results'[Home[who'[i][2]]][k].local
<1>1. req[i] # "none"
  BY AnnouncedIsAccepted
<1>2. who'[i] = who[i]
  BY <1>1 DEF RequestStep
<1>. DEFINE n == Home[Victim(i)]
<1>3. n \in Node /\ n = Home[who'[i][2]]
  BY <1>2, PairsTyped DEF QueueInv, Victim
<1>4. PICK k \in 1..Len(results[n]) : results[n][k].attack = i /\ ~results[n][k].local
  BY DEF Announced, FoughtFor
<1>5. Len(results[n]) \in Nat /\ Len(results'[n]) \in Int
  <2>1. results[n] \in Seq(Result)
    BY <1>3 DEF QueueInv, TypeOK, Result
  <2>. QED
    BY <2>1, <1>3 DEF LogStep
<1>. HIDE DEF n
<1>6. k \in 1..Len(results'[n]) /\ results'[n][k] = results[n][k]
  BY <1>3, <1>4, <1>5 DEF LogStep
<1>. QED
  BY <1>3, <1>4, <1>6

LEMMA QueueKept ==
    ASSUME QueueInv, TypeOK', RequestStep, LogStep, DrainStep, malformed' = malformed,
           \A i \in late' : Announced(i)
    PROVE  QueueInv'
<1>1. ResolvedIsAnnounced'
  BY AnnouncedStays DEF RequestStep, ResolvedIsAnnounced, Announced, FoughtFor, Victim
<1>2. ReportsAreAnnounced'
  <2>1. late' \subseteq Attack
    BY DEF TypeOK
  <2>2. \A i \in late' : Announced(i)'
    BY <2>1, AnnouncedStays DEF Announced, FoughtFor, Victim
  <2>3. ASSUME NEW n \in Node, sync'[n].at = "report" PROVE Announced(sync[n].cur)'
    <3>. DEFINE i == sync'[n].cur
    <3>1. sync'[n].todo \subseteq Attack
      BY DEF TypeOK
    <3>2. i \in Attack /\ Home[Victim(i)] = n /\ req[i] \in Accepted
      BY <2>3, <3>1 DEF DrainStep
    <3>3. who'[i] = who[i]
      BY <3>2 DEF RequestStep, Accepted
    <3>4. Home[who'[i][2]] = n
      BY <3>2, <3>3 DEF Victim
    <3>5. CASE Announced(i)
      BY <3>2, <3>5, AnnouncedStays DEF Announced, FoughtFor, Victim
    <3>6. CASE \E k \in 1..Len(results'[n]) : results'[n][k].attack = i /\ ~results'[n][k].local
      BY <3>4, <3>6 DEF Announced, FoughtFor, Victim
    <3>. QED
      BY <2>3, <3>5, <3>6 DEF DrainStep
  <2>. QED
    BY <2>2, <2>3 DEF ReportsAreAnnounced
<1>3. DrainsAreOwn'
  <2>1. ASSUME NEW n \in Node, NEW i \in sync'[n].todo
        PROVE  Home[who'[i][2]] = n /\ req'[i] \in Accepted
    <3>1. i \in Attack
      BY DEF TypeOK
    <3>2. Home[Victim(i)] = n /\ req[i] \in Accepted
      BY DEF DrainStep
    <3>. QED
      BY <3>1, <3>2 DEF RequestStep, Accepted, Victim
  <2>. QED
    BY <2>1 DEF DrainsAreOwn, DrainStep, Accepted, Victim
<1>4. RequestsArePosted'
  <2>1. \A i \in Attack :
          /\ stage'[i] \in {"none", "checked", "spent", "read", "took"} => req'[i] = "none"
          /\ req'[i] = "blocked" => i \in malformed
    BY DEF RequestStep
  <2>2. ASSUME NEW n \in Node, NEW k \in 1..Len(results'[n]), ~results'[n][k].local
        PROVE  LET i == results'[n][k].attack
               IN  /\ Home[who'[i][2]] = n /\ i \notin malformed
                   /\ req'[i] \in {"pending", "resolved"}
    <3>. DEFINE i == results'[n][k].attack
    <3>1. i \in Attack
      <4>1. results'[n] \in Seq(Result)
        BY DEF TypeOK, Result
      <4>2. results'[n][k] \in Result
        BY <4>1
      <4>. QED
        BY <4>2 DEF Result
    <3>2. Home[Victim(i)] = n /\ i \notin malformed /\ req[i] \in {"pending", "resolved"}
      <4>1. CASE k <= Len(results[n])
        <5>1. results[n] \in Seq(Result)
          BY DEF QueueInv, TypeOK, Result
        <5>2. k \in 1..Len(results[n])
          BY <4>1, <5>1
        <5>3. results'[n][k] = results[n][k]
          BY <5>2 DEF LogStep
        <5>. QED
          BY <2>2, <5>2, <5>3 DEF QueueInv, RequestsArePosted
      <4>. QED
        BY <2>2, <4>1 DEF LogStep
    <3>3. who'[i] = who[i] /\ req'[i] \in Accepted /\ (req'[i] = "blocked" => i \in malformed)
      BY <3>1, <3>2 DEF RequestStep, Accepted
    <3>. QED
      BY <3>2, <3>3 DEF Accepted, Victim
  <2>. QED
    BY <2>1, <2>2 DEF RequestsArePosted, Victim
<1>. QED
  BY <1>1, <1>2, <1>3, <1>4 DEF QueueInv

LEMMA RequestsSame ==
    ASSUME QueueInv, req' = req, who' = who,
           \A i \in Attack : stage'[i] \in {"none", "checked", "spent", "read", "took"} =>
                             stage[i] \in {"none", "checked", "spent", "read", "took"}
    PROVE  RequestStep
  BY DEF RequestStep, QueueInv, ResolvedIsAnnounced, RequestsArePosted

LEMMA LogsSame ==
    ASSUME QueueInv, results' = results
    PROVE  LogStep
<1>1. \A n \in Node : Len(results[n]) \in Nat
  BY DEF QueueInv, TypeOK
<1>. QED
  BY <1>1 DEF LogStep

LEMMA DrainsSame ==
    ASSUME QueueInv, sync' = sync
    PROVE  DrainStep
  BY DEF DrainStep, Accepted, QueueInv, DrainsAreOwn, ReportsAreAnnounced

\* Sessions, but for the post of an attack.
LEMMA QueueSession ==
    ASSUME QueueInv, TypeOK', NEW i \in Attack,
           \/ SpendAttack(i) \/ PostAnswered(i) \/ PostGivesUp(i)
           \/ LocalWin(i) \/ LocalTake(i)
    PROVE  QueueInv'
<1>1. UNCHANGED <<who, req, late, malformed, sync, results>>
  BY DEF SpendAttack, PostAnswered, PostGivesUp, LocalWin, LocalTake, hubVars, feedVars
<1>2. stage \in [Attack -> Stages]
  BY DEF QueueInv, TypeOK
<1>3. \A j \in Attack : stage'[j] \in {"none", "checked", "spent", "read", "took"} =>
                        stage[j] \in {"none", "checked", "spent", "read", "took"}
  BY <1>2 DEF SpendAttack, PostAnswered, PostGivesUp, LocalWin, LocalTake
<1>4. \A j \in late' : Announced(j)
  BY <1>1 DEF QueueInv, ReportsAreAnnounced
<1>. QED
  BY <1>1, <1>3, <1>4, RequestsSame, LogsSame, DrainsSame, QueueKept

LEMMA QueuePick ==
    ASSUME QueueInv, TypeOK', NEW i \in Attack, NEW a \in Player, NEW v \in Player, Pick(i, a, v)
    PROVE  QueueInv'
<1>1. UNCHANGED <<req, late, malformed, sync, results>>
  BY DEF Pick, hubVars, feedVars
<1>2. stage \in [Attack -> Stages] /\ who \in [Attack -> Player \X Player]
  BY DEF QueueInv, TypeOK
<1>3. req[i] = "none"
  BY DEF Pick, QueueInv, RequestsArePosted
<1>4. \A j \in Attack \ {i} : stage'[j] = stage[j] /\ who'[j] = who[j]
  BY <1>2 DEF Pick
<1>5. RequestStep
  BY <1>1, <1>3, <1>4 DEF RequestStep, QueueInv, ResolvedIsAnnounced, RequestsArePosted
<1>6. \A j \in late' : Announced(j)
  BY <1>1 DEF QueueInv, ReportsAreAnnounced
<1>. QED
  BY <1>1, <1>5, <1>6, LogsSame, DrainsSame, QueueKept

LEMMA QueueLocal ==
    ASSUME QueueInv, TypeOK', NEW i \in Attack, LocalLose(i) \/ LocalGive(i)
    PROVE  QueueInv'
<1>1. UNCHANGED <<who, req, late, malformed, sync>> /\ LocalRecord(i)
  BY DEF LocalLose, LocalGive, hubVars
<1>2. stage \in [Attack -> Stages] /\ TypeOK
  BY DEF QueueInv, TypeOK
<1>3. \A j \in Attack : stage'[j] \in {"none", "checked", "spent", "read", "took"} =>
                        stage[j] \in {"none", "checked", "spent", "read", "took"}
  BY <1>1, <1>2 DEF LocalRecord
<1>4. \A j \in late' : Announced(j)
  BY <1>1 DEF QueueInv, ReportsAreAnnounced
<1>5. LogStep
  BY <1>1, <1>2, LocalRecorded DEF LogStep
<1>. QED
  BY <1>1, <1>3, <1>4, <1>5, RequestsSame, DrainsSame, QueueKept

\* The hub's handlers and the operator.
LEMMA QueueHub ==
    ASSUME QueueInv, TypeOK', NEW i \in Attack,
           \/ PostAttack(i) \/ HubQueues(i) \/ HubRefuses(i)
           \/ HubCompletesLate(i) \/ QueueRetry(i)
    PROVE  QueueInv'
<1>1. UNCHANGED <<who, malformed, sync, results>> /\ late' \subseteq late
  BY DEF PostAttack, HubQueues, HubRefuses, HubCompletesLate, QueueRetry, sessionVars, feedVars
<1>2. stage \in [Attack -> Stages]
      /\ req \in [Attack -> {"none", "posted", "refused", "pending", "resolved", "blocked"}]
  BY DEF QueueInv, TypeOK
<1>3. /\ \A j \in Attack \ {i} : stage'[j] = stage[j] /\ req'[j] = req[j]
      /\ stage'[i] # stage[i] => stage'[i] = "sent"
  BY <1>2 DEF PostAttack, HubQueues, HubRefuses, HubCompletesLate, QueueRetry, Settled, sessionVars
<1>4. /\ req'[i] = "resolved" => req[i] = "resolved" \/ i \in late
      /\ req[i] \in Accepted => req'[i] \in Accepted
      /\ req'[i] = "blocked" => req[i] = "blocked"
      /\ stage'[i] = stage[i] => (req[i] = "none" => req'[i] = "none")
  <2>1. CASE PostAttack(i)
    <3>1. req[i] = "none"
      BY <2>1 DEF PostAttack, QueueInv, RequestsArePosted
    <3>. QED
      BY <1>2, <2>1, <3>1 DEF PostAttack, Accepted
  <2>2. CASE HubQueues(i) \/ HubRefuses(i) \/ QueueRetry(i)
    BY <1>2, <2>2 DEF HubQueues, HubRefuses, QueueRetry, Accepted
  <2>3. CASE HubCompletesLate(i)
    BY <1>2, <2>3 DEF HubCompletesLate, Settled, Accepted
  <2>. QED
    BY <2>1, <2>2, <2>3
<1>5. RequestStep
  <2>1. \A j \in Attack : j \in late \/ req[j] = "resolved" => Announced(j)
    BY DEF QueueInv, ResolvedIsAnnounced, ReportsAreAnnounced
  <2>2. \A j \in Attack :
          /\ stage[j] \in {"none", "checked", "spent", "read", "took"} => req[j] = "none"
          /\ req[j] = "blocked" => j \in malformed
    BY DEF QueueInv, RequestsArePosted
  <2>. QED
    BY <1>1, <1>3, <1>4, <2>1, <2>2 DEF RequestStep
<1>6. \A j \in late' : Announced(j)
  BY <1>1 DEF QueueInv, ReportsAreAnnounced
<1>. QED
  BY <1>1, <1>5, <1>6, LogsSame, DrainsSame, QueueKept

\* Steps that write neither rows of the hub nor the log, and move one drain.
LEMMA QueueDrain ==
    ASSUME QueueInv, TypeOK', NEW n \in Node, UNCHANGED <<stage, who, malformed, results>>,
           RequestStep, NEW v, v = sync'[n], \A m \in Node \ {n} : sync'[m] = sync[m],
           \A i \in v.todo : Home[Victim(i)] = n /\ req[i] \in Accepted,
           v.at \notin {"idle", "drain"} => v.cur \in v.todo \ malformed,
           v.at # "report", \A i \in late' : Announced(i)
    PROVE  QueueInv'
<1>1. DrainStep
  BY DEF DrainStep, Accepted, QueueInv, DrainsAreOwn, ReportsAreAnnounced
<1>. QED
  BY <1>1, LogsSame, QueueKept

LEMMA QueueFetches ==
    ASSUME QueueInv, TypeOK', NEW n \in Node, Fetch(n)
    PROVE  QueueInv'
<1>. DEFINE pending == {i \in Attack : req[i] = "pending" /\ Home[Victim(i)] = n}
            v == [at |-> "drain", todo |-> pending, cur |-> 0]
<1>1. v.todo = pending /\ v.at = "drain"
  OBVIOUS
<1>2. sync' = [sync EXCEPT ![n] = v] /\ UNCHANGED <<stage, who, req, late, malformed, results>>
  BY DEF Fetch, sessionVars, hubVars, feedVars
<1>3. \A i \in pending : Home[Victim(i)] = n /\ req[i] \in Accepted
  BY DEF Accepted
<1>. HIDE DEF v, pending
<1>4. sync'[n] = v /\ \A m \in Node \ {n} : sync'[m] = sync[m]
  BY <1>2 DEF QueueInv, TypeOK
<1>5. \A j \in late' : Announced(j)
  BY <1>2 DEF QueueInv, ReportsAreAnnounced
<1>6. RequestStep
  BY <1>2, RequestsSame
<1>. QED
  BY <1>1, <1>2, <1>3, <1>4, <1>5, <1>6, QueueDrain

\* A drain goes on to its next request.
LEMMA QueueRests ==
    ASSUME QueueInv, TypeOK', NEW n \in Node, NEW i, UNCHANGED <<stage, who, malformed, results>>,
           RequestStep, sync' = [sync EXCEPT ![n] = Rest(n, i)], \A j \in late' : Announced(j)
    PROVE  QueueInv'
<1>. DEFINE v == Rest(n, i)
<1>1. v.todo \subseteq sync[n].todo /\ v.at \in {"idle", "drain"}
  BY RestTyped DEF QueueInv
<1>. HIDE DEF v
<1>2. sync'[n] = v /\ \A m \in Node \ {n} : sync'[m] = sync[m]
  BY DEF QueueInv, TypeOK, v
<1>3. \A j \in v.todo : Home[Victim(j)] = n /\ req[j] \in Accepted
  BY <1>1 DEF QueueInv, DrainsAreOwn, Accepted
<1>. QED
  BY <1>1, <1>2, <1>3, QueueDrain

LEMMA QueueFights ==
    ASSUME QueueInv, TypeOK', NEW n \in Node, Take(n) \/ \E i \in Attack : Fight(n, i)
    PROVE  QueueInv'
<1>1. PICK i \in Attack, where \in {"fought", "took"} :
        sync' = InWork(n, i, where) /\ i \in sync[n].todo \ malformed
  <2>1. CASE Take(n)
    BY <2>1, CurTyped DEF Take
  <2>2. CASE \E i \in Attack : Fight(n, i)
    BY <2>2 DEF Fight
  <2>. QED
    BY <2>1, <2>2
<1>2. UNCHANGED <<stage, who, req, late, malformed, results>>
  BY DEF Take, Fight, sessionVars, hubVars, feedVars
<1>3. /\ sync'[n].at = where /\ sync'[n].cur = i /\ sync'[n].todo = sync[n].todo
      /\ \A m \in Node \ {n} : sync'[m] = sync[m]
  BY <1>1, InWorkTyped DEF QueueInv
<1>4. \A j \in sync'[n].todo : Home[Victim(j)] = n /\ req[j] \in Accepted
  BY <1>3 DEF QueueInv, DrainsAreOwn, Accepted
<1>5. \A j \in late' : Announced(j)
  BY <1>2 DEF QueueInv, ReportsAreAnnounced
<1>6. RequestStep
  BY <1>2, RequestsSame
<1>. QED
  BY <1>1, <1>2, <1>3, <1>4, <1>5, <1>6, QueueDrain

LEMMA QueueReports ==
    ASSUME QueueInv, TypeOK', NEW n \in Node,
           \/ EmitFails(n) \/ Complete(n) \/ CompleteFails(n)
           \/ \E i \in Attack : BlockMalformed(n, i)
    PROVE  QueueInv'
<1>1. UNCHANGED <<stage, who, malformed, results>>
  BY DEF EmitFails, Complete, CompleteFails, BlockMalformed, sessionVars, hubVars, feedVars
<1>2. \E i : sync' = [sync EXCEPT ![n] = Rest(n, i)]
  BY DEF EmitFails, Complete, CompleteFails, BlockMalformed
<1>3. \A j \in late' : Announced(j)
  BY DEF EmitFails, Complete, CompleteFails, BlockMalformed, hubVars, QueueInv, ReportsAreAnnounced
<1>4. req \in [Attack -> {"none", "posted", "refused", "pending", "resolved", "blocked"}]
  BY DEF QueueInv, TypeOK
<1>5. \A j \in Attack :
        /\ req[j] = "resolved" => Announced(j)
        /\ stage[j] \in {"none", "checked", "spent", "read", "took"} => req[j] = "none"
        /\ req[j] = "blocked" => j \in malformed
  BY DEF QueueInv, ResolvedIsAnnounced, RequestsArePosted
<1>6. RequestStep
  <2>1. CASE EmitFails(n) \/ CompleteFails(n)
    <3>1. req' = req
      BY <2>1 DEF EmitFails, CompleteFails, hubVars
    <3>. QED
      BY <1>1, <3>1, RequestsSame
  <2>2. CASE Complete(n)
    <3>. DEFINE i == sync[n].cur
    <3>1. i \in Attack /\ Announced(i)
      BY <2>2, CurTyped DEF Complete, QueueInv, ReportsAreAnnounced
    <3>2. req' = [req EXCEPT ![i] = IF req[i] = "pending" THEN "resolved" ELSE req[i]]
      BY <2>2 DEF Complete, Settled
    <3>. HIDE DEF i
    <3>. QED
      BY <1>1, <1>4, <1>5, <3>1, <3>2 DEF RequestStep, Accepted
  <2>3. ASSUME NEW i \in Attack, BlockMalformed(n, i) PROVE RequestStep
    <3>1. i \in malformed
      BY <2>3 DEF BlockMalformed
    <3>2. req' = [req EXCEPT ![i] = IF req[i] = "pending" THEN "blocked" ELSE req[i]]
      BY <2>3 DEF BlockMalformed, Settled
    <3>. QED
      BY <1>1, <1>4, <1>5, <3>1, <3>2 DEF RequestStep, Accepted
  <2>. QED
    BY <2>1, <2>2, <2>3
<1>. QED
  BY <1>1, <1>2, <1>3, <1>6, QueueRests

LEMMA QueueEmits ==
    ASSUME QueueInv, TypeOK', NEW n \in Node, EmitResult(n)
    PROVE  QueueInv'
<1>. DEFINE i == sync[n].cur
<1>1. /\ i \in Attack /\ i \in sync[n].todo /\ i \notin malformed /\ Home[Victim(i)] = n
      /\ req[i] \in {"pending", "resolved"}
  BY CurTyped DEF EmitResult
<1>2. UNCHANGED <<stage, who, req, late, malformed>> /\ sync' = InWork(n, i, "report")
  BY DEF EmitResult, sessionVars, hubVars
<1>3. /\ sync'[n].at = "report" /\ sync'[n].cur = i /\ sync'[n].todo = sync[n].todo
      /\ \A m \in Node \ {n} : sync'[m] = sync[m]
  BY <1>1, <1>2, InWorkTyped DEF QueueInv
<1>4. /\ \A m \in Node :
                /\ Len(results[m]) <= Len(results'[m])
                /\ \A k \in 1..Len(results[m]) : results'[m][k] = results[m][k]
                /\ \A k \in 1..Len(results'[m]) : k <= Len(results[m]) \/ m = n
      /\ Len(results'[n]) = Len(results[n]) + 1
      /\ results'[n][Len(results[n]) + 1].attack = i
      /\ ~results'[n][Len(results[n]) + 1].local
  BY TypeEmit
<1>5. \A m \in Node : Len(results[m]) \in Nat
  BY DEF QueueInv, TypeOK
<1>6. \A k \in 1..Len(results'[n]) : k <= Len(results[n]) \/ k = Len(results[n]) + 1
  BY <1>4, <1>5
<1>. HIDE DEF i
<1>7. LogStep
  BY <1>1, <1>4, <1>6 DEF LogStep
<1>8. DrainStep
  <2>1. Len(results[n]) + 1 \in 1..Len(results'[n])
    BY <1>4, <1>5
  <2>. QED
    BY <1>1, <1>3, <1>4, <2>1 DEF DrainStep, Accepted, QueueInv, DrainsAreOwn, ReportsAreAnnounced
<1>9. \A j \in late' : Announced(j)
  BY <1>2 DEF QueueInv, ReportsAreAnnounced
<1>. QED
  BY <1>2, <1>7, <1>8, <1>9, RequestsSame, QueueKept

LEMMA QueueCrash ==
    ASSUME QueueInv, TypeOK', NEW n \in Node, Crash(n)
    PROVE  QueueInv'
<1>1. UNCHANGED <<who, req, malformed, results>> /\ sync' = [sync EXCEPT ![n] = Idle]
  BY DEF Crash
<1>2. Idle.todo = {} /\ Idle.at = "idle"
  BY DEF Idle
<1>3. sync'[n] = Idle /\ \A m \in Node \ {n} : sync'[m] = sync[m]
  BY <1>1 DEF QueueInv, TypeOK
<1>4. \A j \in late' : Announced(j)
  BY DEF Crash, QueueInv, ReportsAreAnnounced
<1>5. DrainStep
  BY <1>2, <1>3 DEF DrainStep, Accepted, QueueInv, DrainsAreOwn, ReportsAreAnnounced
<1>6. RequestStep
  <2>1. stage \in [Attack -> Stages]
    BY DEF QueueInv, TypeOK
  <2>2. \A i \in Attack : stage'[i] = "done" \/ stage'[i] = stage[i]
    BY <2>1 DEF Crash
  <2>. QED
    BY <1>1, <2>2, RequestsSame
<1>. QED
  BY <1>1, <1>4, <1>5, <1>6, LogsSame, QueueKept

LEMMA QueueOther ==
    ASSUME QueueInv, TypeOK', UNCHANGED <<stage, who, req, late, malformed, sync, results>>
    PROVE  QueueInv'
<1>1. \A j \in late' : Announced(j)
  BY DEF QueueInv, ReportsAreAnnounced
<1>. QED
  BY <1>1, RequestsSame, LogsSame, DrainsSame, QueueKept

LEMMA QueueInit == Init => QueueInv
<1>. SUFFICES ASSUME Init PROVE QueueInv
  OBVIOUS
<1>1. TypeOK
  BY TypeInit
<1>2. ResolvedIsAnnounced /\ ReportsAreAnnounced /\ DrainsAreOwn
  BY DEF Init, ResolvedIsAnnounced, ReportsAreAnnounced, DrainsAreOwn, Idle
<1>3. RequestsArePosted
  BY DEF Init, RequestsArePosted
<1>. QED
  BY <1>1, <1>2, <1>3 DEF QueueInv

LEMMA QueueNext == QueueInv /\ [Next]_vars => QueueInv'
<1>. SUFFICES ASSUME QueueInv, [Next]_vars PROVE QueueInv'
  OBVIOUS
<1>1. TypeOK'
  BY TypeNext
<1>2. CASE UNCHANGED vars
  BY <1>1, <1>2, QueueOther DEF vars
<1>3. CASE NextDay
  BY <1>1, <1>3, QueueOther DEF NextDay, sessionVars, hubVars, feedVars
<1>4. ASSUME NEW m \in Node, NEW n \in Node,
             HandlerRuns(m, n) \/ HandlerMarked(m, n) \/ HandlerFails(m, n)
      PROVE  UNCHANGED <<stage, who, req, late, malformed, sync, results>>
  BY <1>4 DEF HandlerRuns, HandlerMarked, HandlerFails, sessionVars, hubVars
<1>. QED
  BY <1>1, <1>2, <1>3, <1>4, QueueOther, QueueSession, QueuePick, QueueLocal, QueueHub, QueueFetches,
     QueueFights, QueueReports, QueueEmits, QueueCrash
  DEF Next, Settle, Drain, SessionStep

\* The queue at the hub and the logs of the nodes agree: a request is resolved,
\* or reported, only when the victim's node has its result in the log, whatever
\* answers are lost or late and whatever the operator retries.
THEOREM QueueAgrees == Spec => []QueueInv
  BY QueueInit, QueueNext, PTL DEF Spec

-----------------------------------------------------------------------------
(* The cooldown. *)

UnderWayNow(i) == stage[i] \notin {"none", "done"}

\* Sessions only end, rows only settle and age, and overlaps stay known.
Ages ==
    /\ who' = who /\ raced \subseteq raced'
    /\ \A i \in Attack :
         /\ stage'[i] \notin {"none", "done"} => UnderWayNow(i)
         /\ stage[i] = "done" => stage'[i] = "done"
         /\ row'[i] = "none" <=> row[i] = "none"
         /\ age'[i] >= age[i]

\* The session of attack i ends with a row of today.
Records(i) ==
    /\ UnderWayNow(i) /\ UNCHANGED <<who, raced>>
    /\ stage' = [stage EXCEPT ![i] = "done"]
    /\ row'[i] # "none" /\ \A j \in Attack \ {i} : row'[j] = row[j] /\ age'[j] = age[j]

LEMMA RestAges ==
    ASSUME TypeOK, RestInv, Ages, age' \in [Attack -> 0..2]
    PROVE  RestInv'
<1>1. age \in [Attack -> 0..2]
  BY DEF TypeOK
<1>2. \A i \in Attack : Attacker(i)' = Attacker(i) /\ Victim(i)' = Victim(i)
  BY DEF Ages, Attacker, Victim
<1>3. \A i \in Attack : row'[i] # "none" => stage'[i] = "done"
  BY DEF Ages, RestInv
<1>4. ASSUME NEW i \in Attack, NEW j \in Attack \ {i},
             stage'[i] \notin {"none", "done"}, stage'[j] \notin {"none", "done"},
             Attacker(i) = Attacker(j)
      PROVE  i \in raced'
  BY <1>4 DEF Ages, RestInv, UnderWayNow
<1>5. ASSUME NEW i \in Attack, stage'[i] \notin {"none", "done"}, i \notin raced',
             NEW j \in Attack, row'[j] # "none", who'[j] = <<Attacker(i), Victim(i)>>
      PROVE  age'[j] >= 2
  <2>1. UnderWayNow(i) /\ i \notin raced /\ j \in Logged(Attacker(i), Victim(i))
    BY <1>5 DEF Ages, Logged
  <2>2. age[j] >= 2 /\ age'[j] >= age[j]
    BY <2>1 DEF RestInv, Ages, UnderWayNow
  <2>. QED
    BY <1>1, <2>2
<1>. QED
  BY <1>2, <1>3, <1>4, <1>5 DEF RestInv, Logged

LEMMA RestRecords ==
    ASSUME TypeOK, RestInv, NEW i \in Attack, Records(i)
    PROVE  RestInv'
<1>1. stage \in [Attack -> Stages]
  BY DEF TypeOK
<1>2. stage'[i] = "done" /\ \A j \in Attack \ {i} : stage'[j] = stage[j]
  BY <1>1 DEF Records
<1>3. \A j \in Attack : Attacker(j)' = Attacker(j) /\ Victim(j)' = Victim(j)
  BY DEF Records, Attacker, Victim
<1>4. \A j \in Attack : row'[j] # "none" => stage'[j] = "done"
  BY <1>2 DEF Records, RestInv
<1>5. ASSUME NEW j \in Attack, NEW k \in Attack \ {j},
             stage'[j] \notin {"none", "done"}, stage'[k] \notin {"none", "done"},
             Attacker(j) = Attacker(k)
      PROVE  j \in raced'
  <2>1. stage[j] \notin {"none", "done"} /\ stage[k] \notin {"none", "done"}
    BY <1>2, <1>5
  <2>. QED
    BY <1>5, <2>1 DEF RestInv, Records
<1>6. ASSUME NEW j \in Attack, stage'[j] \notin {"none", "done"}, j \notin raced',
             NEW k \in Attack, row'[k] # "none", who'[k] = <<Attacker(j), Victim(j)>>
      PROVE  age'[k] >= 2
  <2>1. j # i /\ stage[j] \notin {"none", "done"} /\ j \notin raced
    BY <1>2, <1>6 DEF Records
  <2>2. k # i
    <3>1. Attacker(j) # Attacker(i)
      BY <2>1 DEF RestInv, Records, UnderWayNow
    <3>2. Attacker(k) = Attacker(j)
      BY <1>6 DEF Attacker, Records
    <3>. QED
      BY <3>1, <3>2
  <2>3. k \in Logged(Attacker(j), Victim(j)) /\ age'[k] = age[k]
    BY <1>6, <2>2 DEF Logged, Records
  <2>. QED
    BY <2>1, <2>3 DEF RestInv
<1>. QED
  BY <1>3, <1>4, <1>5, <1>6 DEF RestInv, Logged

LEMMA RestPick ==
    ASSUME TypeOK, RestInv, NEW i \in Attack, NEW a \in Player, NEW v \in Player, Pick(i, a, v)
    PROVE  RestInv'
<1>1. stage \in [Attack -> Stages] /\ who \in [Attack -> Player \X Player]
  BY DEF TypeOK
<1>2. /\ stage[i] = "none" /\ stage'[i] = "checked" /\ who'[i] = <<a, v>>
      /\ \A j \in Attack \ {i} : stage'[j] = stage[j] /\ who'[j] = who[j]
      /\ UNCHANGED <<row, age>>
  BY <1>1 DEF Pick
<1>3. raced \subseteq raced' /\ (UnderWay(a) # {} => i \in raced' /\ UnderWay(a) \subseteq raced')
  BY DEF Pick
<1>4. row[i] = "none"
  BY <1>2 DEF RestInv
<1>5. /\ Attacker(i)' = a /\ Victim(i)' = v
      /\ \A j \in Attack \ {i} : Attacker(j)' = Attacker(j) /\ Victim(j)' = Victim(j)
  BY <1>2 DEF Attacker, Victim
<1>6. \A j \in Attack : row'[j] # "none" => stage'[j] = "done"
  BY <1>2, <1>4 DEF RestInv
<1>7. ASSUME NEW j \in Attack, NEW k \in Attack \ {j},
             stage'[j] \notin {"none", "done"}, stage'[k] \notin {"none", "done"},
             Attacker(j)' = Attacker(k)'
      PROVE  j \in raced'
  <2>1. CASE j # i /\ k # i
    BY <1>2, <1>3, <1>5, <1>7, <2>1 DEF RestInv
  <2>2. CASE j = i
    <3>1. k \in UnderWay(a)
      BY <1>2, <1>5, <1>7, <2>2 DEF UnderWay
    <3>. QED
      BY <1>3, <2>2, <3>1
  <2>3. CASE k = i
    <3>1. j \in UnderWay(a)
      BY <1>2, <1>5, <1>7, <2>3 DEF UnderWay
    <3>. QED
      BY <1>3, <3>1
  <2>. QED
    BY <2>1, <2>2, <2>3
<1>8. ASSUME NEW j \in Attack, stage'[j] \notin {"none", "done"}, j \notin raced',
             NEW k \in Attack, row'[k] # "none", who'[k] = <<Attacker(j)', Victim(j)'>>
      PROVE  age'[k] >= 2
  <2>1. k # i /\ row[k] # "none" /\ who[k] = who'[k] /\ age'[k] = age[k]
    BY <1>2, <1>4, <1>8
  <2>2. CASE j = i
    <3>1. k \in Logged(a, v)
      BY <1>5, <1>8, <2>1, <2>2 DEF Logged
    <3>2. CanAttack(a, v)
      BY DEF Pick
    <3>. QED
      BY <2>1, <3>1, <3>2 DEF CanAttack
  <2>3. CASE j # i
    <3>1. k \in Logged(Attacker(j), Victim(j)) /\ stage[j] \notin {"none", "done"} /\ j \notin raced
      BY <1>2, <1>3, <1>5, <1>8, <2>1, <2>3 DEF Logged
    <3>. QED
      BY <2>1, <3>1 DEF RestInv
  <2>. QED
    BY <2>2, <2>3
<1>. QED
  BY <1>6, <1>7, <1>8 DEF RestInv, Logged

\* Every step ages, records an attack or picks a victim.
LEMMA RestSteps ==
    ASSUME QueueInv, Next
    PROVE  \/ Ages \/ (\E i \in Attack : Records(i))
           \/ \E i \in Attack : \E a, v \in Player : Pick(i, a, v)
<1>1. /\ TypeOK /\ stage \in [Attack -> Stages] /\ age \in [Attack -> 0..2]
      /\ row \in [Attack -> {"none", "pending", "settled"}]
  BY DEF QueueInv, TypeOK
<1>2. \A i \in Attack : age[i] >= age[i]
  BY <1>1
<1>3. CASE NextDay
  BY <1>1, <1>3 DEF NextDay, Ages, sessionVars, UnderWayNow
<1>4. ASSUME NEW i \in Attack, SpendAttack(i) \/ PostAttack(i) \/ PostGivesUp(i) \/ LocalTake(i)
      PROVE  Ages
  BY <1>1, <1>2, <1>4 DEF SpendAttack, PostAttack, PostGivesUp, LocalTake, Ages, UnderWayNow
<1>5. ASSUME NEW i \in Attack, LocalWin(i) PROVE Ages
  <2>1. raced \subseteq raced'
    BY <1>1, <1>5, RacedTyped, PairsTyped DEF LocalWin
  <2>. QED
    BY <1>1, <1>2, <1>5, <2>1 DEF LocalWin, Ages, UnderWayNow
<1>6. ASSUME NEW i \in Attack, PostAnswered(i) PROVE Ages \/ Records(i)
  <2>1. CASE req[i] = "refused"
    BY <1>1, <1>2, <1>6, <2>1 DEF PostAnswered, Ages, UnderWayNow
  <2>2. CASE req[i] # "refused"
    BY <1>1, <1>6, <2>2 DEF PostAnswered, Records, UnderWayNow
  <2>. QED
    BY <2>1, <2>2
<1>7. ASSUME NEW i \in Attack, LocalLose(i) \/ LocalGive(i) PROVE Records(i)
  <2>1. LocalRecord(i) /\ UnderWayNow(i) /\ UNCHANGED <<who, raced>>
    BY <1>7 DEF LocalLose, LocalGive, UnderWayNow
  <2>. QED
    BY <1>1, <2>1 DEF LocalRecord, Records
<1>8. ASSUME UNCHANGED <<stage, who, row, age>>, raced \subseteq raced' PROVE Ages
  BY <1>2, <1>8 DEF Ages, UnderWayNow
<1>9. ASSUME NEW i \in Attack, HubQueues(i) \/ HubRefuses(i) \/ HubCompletesLate(i) \/ QueueRetry(i)
      PROVE  Ages
  BY <1>8, <1>9 DEF HubQueues, HubRefuses, HubCompletesLate, QueueRetry, sessionVars
<1>10. ASSUME NEW n \in Node, NEW i \in Attack, Fight(n, i) PROVE Ages
  <2>1. raced \subseteq RacedAt(Victim(i))
    BY <1>1, RacedTyped, PairsTyped
  <2>2. UNCHANGED <<stage, who, row, age>> /\ raced \subseteq raced'
    BY <1>10, <2>1 DEF Fight, sessionVars
  <2>. QED
    BY <1>8, <2>2
<1>11. ASSUME NEW n \in Node,
              \/ Fetch(n) \/ Take(n) \/ EmitResult(n) \/ Complete(n) \/ EmitFails(n) \/ CompleteFails(n)
              \/ \E i \in Attack : BlockMalformed(n, i)
       PROVE  Ages
  <2>1. UNCHANGED <<stage, who, row, age, raced>>
    BY <1>11 DEF Fetch, Take, EmitResult, Complete, EmitFails, CompleteFails, BlockMalformed, sessionVars
  <2>. QED
    BY <1>8, <2>1
<1>12. ASSUME NEW m \in Node, NEW n \in Node, HandlerRuns(m, n) \/ HandlerFails(m, n) PROVE Ages
  <2>1. UNCHANGED <<stage, who, age, raced>>
    BY <1>12 DEF HandlerRuns, HandlerFails, sessionVars
  <2>2. \A i \in Attack : row'[i] = "none" <=> row[i] = "none"
    <3>1. CASE row' = row
      BY <3>1
    <3>2. CASE \E i : row' = RowsSettled(i)
      BY <3>2 DEF RowsSettled
    <3>. QED
      BY <1>12, <3>1, <3>2 DEF HandlerRuns, HandlerFails
  <2>. QED
    BY <1>2, <2>1, <2>2 DEF Ages, UnderWayNow
<1>13. ASSUME NEW m \in Node, NEW n \in Node, HandlerMarked(m, n) PROVE Ages
  BY <1>8, <1>13 DEF HandlerMarked, sessionVars
<1>14. ASSUME NEW n \in Node, Crash(n) PROVE Ages
  <2>1. UNCHANGED <<who, row, age, raced>>
    BY <1>14 DEF Crash
  <2>2. \A i \in Attack : stage'[i] = stage[i] \/ (stage[i] # "none" /\ stage'[i] = "done")
    BY <1>1, <1>14 DEF Crash
  <2>. QED
    BY <1>2, <2>1, <2>2 DEF Ages, UnderWayNow
<1>. QED
  BY <1>3, <1>4, <1>5, <1>6, <1>7, <1>9, <1>10, <1>11, <1>12, <1>13, <1>14
  DEF Next, Settle, Drain, SessionStep

LEMMA RestInit == Init => RestInv
  BY DEF Init, RestInv

LEMMA RestNext == QueueInv /\ RestInv /\ [Next]_vars => RestInv'
<1>. SUFFICES ASSUME QueueInv, RestInv, [Next]_vars PROVE RestInv'
  OBVIOUS
<1>1. TypeOK /\ TypeOK'
  BY TypeNext DEF QueueInv
<1>2. age' \in [Attack -> 0..2]
  BY <1>1 DEF TypeOK
<1>3. CASE UNCHANGED vars
  BY <1>3 DEF vars, RestInv, Logged, Attacker, Victim
<1>. QED
  BY <1>1, <1>2, <1>3, RestSteps, RestAges, RestRecords, RestPick

\* An attack is recorded only when none of that player on that victim is in the
\* log from today or yesterday, unless sessions of the player overlapped: what
\* canAttackVictim saw still holds when the row is written.
THEOREM CooldownIsKept == Spec => CooldownHolds
<1>. DEFINE Cool == \A j \in Attack :
               (row[j] = "none" /\ row'[j] # "none" /\ j \notin raced)
                   => \A i \in Logged(Attacker(j), Victim(j)) : age[i] >= 2
<1>1. QueueInv /\ RestInv /\ [Next]_vars => [Cool]_vars
  <2>. SUFFICES ASSUME QueueInv, RestInv, Next, NEW j \in Attack,
                       row[j] = "none", row'[j] # "none", j \notin raced
                PROVE  \A i \in Logged(Attacker(j), Victim(j)) : age[i] >= 2
    OBVIOUS
  <2>1. ~Ages
    BY DEF Ages
  <2>2. ASSUME NEW i \in Attack, NEW a \in Player, NEW v \in Player, Pick(i, a, v) PROVE FALSE
    BY <2>2 DEF Pick
  <2>3. UnderWayNow(j)
    BY <2>1, <2>2, RestSteps DEF Records
  <2>. QED
    BY <2>3 DEF RestInv, UnderWayNow
<1>. QED
  BY <1>1, QueueInit, QueueNext, RestInit, RestNext, PTL DEF Spec, CooldownHolds

-----------------------------------------------------------------------------
(* Credits. *)

Chance(i) == IF MayBeFought(i) THEN 1 ELSE 0

\* No step spends more of what CreditBudget bounds than a failure pays for.
WithinBudget(i) ==
    /\ Cardinality(Uncredited(i)') \in Nat
    /\ credits'[i] + Cardinality(Uncredited(i)') + Chance(i)' - faults'
         <= credits[i] + Cardinality(Uncredited(i)) + Chance(i) - faults

LEMMA UncreditedIsFinite ==
    ASSUME TypeOK, NEW i \in Attack
    PROVE  /\ IsFiniteSet(Uncredited(i)) /\ Cardinality(Uncredited(i)) \in Nat
           /\ Chance(i) \in {0, 1} /\ credits[i] \in Nat /\ faults \in Int
<1>. DEFINE v == Home[Victim(i)]
<1>1. Len(results[v]) \in Nat
  <2>1. v \in Node
    BY PairsTyped
  <2>2. results[v] \in Seq(Result)
    BY <2>1 DEF TypeOK, Result
  <2>. QED
    BY <2>2
<1>2. IsFiniteSet(1..Len(results[v]))
  BY <1>1, FS_Interval
<1>3. Uncredited(i) \in SUBSET (1..Len(results[v]))
  BY DEF Uncredited
<1>4. IsFiniteSet(Uncredited(i))
  BY <1>2, <1>3, FS_Subset
<1>. QED
  BY <1>4, FS_CardinalityType DEF Chance, TypeOK

\* The budget of one attack over one step: credits to come turn into credits,
\* and each of the three ways to overdraw is paid by a failure or by a fight
\* that is not to come any more.
LEMMA BudgetSteps ==
    ASSUME TypeOK, TypeOK', NEW i \in Attack,
           \/ /\ credits'[i] = credits[i] /\ Uncredited(i)' \subseteq Uncredited(i)
              /\ \/ (MayBeFought(i)' => MayBeFought(i)) /\ faults' \in {faults, faults + 1}
                 \/ faults' = faults + 1
           \/ /\ credits'[i] = credits[i] /\ \E k : Uncredited(i)' \subseteq Uncredited(i) \cup {k}
              /\ \/ MayBeFought(i) /\ ~MayBeFought(i)' /\ faults' = faults
                 \/ (MayBeFought(i)' => MayBeFought(i)) /\ faults' = faults + 1
           \/ /\ credits'[i] = credits[i] + 1
              /\ \E k \in Uncredited(i) : Uncredited(i)' \subseteq Uncredited(i) \ {k}
              /\ MayBeFought(i)' => MayBeFought(i)
              /\ faults' = faults
    PROVE  WithinBudget(i)
<1>. DEFINE U == Uncredited(i)
            V == Uncredited(i)'
            c == Chance(i)
            d == Chance(i)'
<1>1. /\ IsFiniteSet(U) /\ Cardinality(U) \in Nat
      /\ c \in {0, 1} /\ credits[i] \in Nat /\ faults \in Int
  BY UncreditedIsFinite
<1>2. d \in {0, 1} /\ credits'[i] \in Nat /\ faults' \in Int
  BY DEF Chance, TypeOK
<1>3. /\ (MayBeFought(i)' => MayBeFought(i)) => d <= c
      /\ MayBeFought(i) /\ ~MayBeFought(i)' => c = 1 /\ d = 0
  BY DEF Chance
<1>4. V \subseteq U => Cardinality(V) \in Nat /\ Cardinality(V) <= Cardinality(U)
  BY <1>1, FS_Subset, FS_CardinalityType
<1>5. ASSUME NEW k, V \subseteq U \cup {k}
      PROVE  Cardinality(V) \in Nat /\ Cardinality(V) <= Cardinality(U) + 1
  <2>1. /\ IsFiniteSet(U \cup {k})
        /\ Cardinality(U \cup {k}) \in {Cardinality(U), Cardinality(U) + 1}
    BY <1>1, FS_AddElement
  <2>2. IsFiniteSet(V) /\ Cardinality(V) <= Cardinality(U \cup {k})
    BY <1>5, <2>1, FS_Subset
  <2>3. Cardinality(V) \in Nat
    BY <2>2, FS_CardinalityType
  <2>. QED
    BY <1>1, <2>1, <2>2, <2>3
<1>6. ASSUME NEW k \in U, V \subseteq U \ {k}
      PROVE  Cardinality(V) \in Nat /\ Cardinality(V) <= Cardinality(U) - 1
  <2>1. IsFiniteSet(U \ {k}) /\ Cardinality(U \ {k}) = Cardinality(U) - 1
    BY <1>1, FS_RemoveElement
  <2>2. IsFiniteSet(V) /\ Cardinality(V) <= Cardinality(U \ {k})
    BY <1>6, <2>1, FS_Subset
  <2>3. Cardinality(V) \in Nat
    BY <2>2, FS_CardinalityType
  <2>. QED
    BY <1>1, <2>1, <2>2, <2>3
<1>7. /\ Cardinality(V) \in Nat
      /\ credits'[i] + Cardinality(V) + d - faults' <= credits[i] + Cardinality(U) + c - faults
      => WithinBudget(i)
  BY DEF WithinBudget
<1>8. \/ /\ credits'[i] = credits[i] /\ V \subseteq U
         /\ (d <= c /\ faults' \in {faults, faults + 1}) \/ faults' = faults + 1
      \/ /\ credits'[i] = credits[i] /\ \E k : V \subseteq U \cup {k}
         /\ (c = 1 /\ d = 0 /\ faults' = faults) \/ (d <= c /\ faults' = faults + 1)
      \/ /\ credits'[i] = credits[i] + 1
         /\ \E k \in U : V \subseteq U \ {k}
         /\ d <= c /\ faults' = faults
  BY <1>3
<1>. HIDE DEF U, V, c, d
<1>9. Cardinality(V) \in Nat
  BY <1>4, <1>5, <1>6, <1>8
<1>10. credits'[i] + Cardinality(V) + d - faults' <= credits[i] + Cardinality(U) + c - faults
  <2>1. CASE /\ credits'[i] = credits[i] /\ V \subseteq U
             /\ (d <= c /\ faults' \in {faults, faults + 1}) \/ faults' = faults + 1
    BY <1>1, <1>2, <1>4, <1>9, <2>1
  <2>2. CASE /\ credits'[i] = credits[i] /\ \E k : V \subseteq U \cup {k}
             /\ (c = 1 /\ d = 0 /\ faults' = faults) \/ (d <= c /\ faults' = faults + 1)
    <3>1. Cardinality(V) <= Cardinality(U) + 1
      BY <1>5, <2>2
    <3>. QED
      BY <1>1, <1>2, <1>9, <2>2, <3>1
  <2>3. CASE /\ credits'[i] = credits[i] + 1
             /\ \E k \in U : V \subseteq U \ {k}
             /\ d <= c /\ faults' = faults
    <3>1. Cardinality(V) <= Cardinality(U) - 1
      BY <1>6, <2>3
    <3>. QED
      BY <1>1, <1>2, <1>9, <2>3, <3>1
  <2>. QED
    BY <1>8, <2>1, <2>2, <2>3
<1>. QED
  BY <1>7, <1>9, <1>10

LEMMA BudgetKept ==
    ASSUME TypeOK, TypeOK', CreditBudget, \A n \in Node : ~ran'[n][n],
           \A i \in Attack : WithinBudget(i)
    PROVE  CreditBudget'
<1>1. ASSUME NEW i \in Attack
      PROVE  credits'[i] + Cardinality(Uncredited(i)') + Chance(i)' <= 1 + faults'
  <2>1. /\ Cardinality(Uncredited(i)) \in Nat /\ Chance(i) \in {0, 1} /\ credits[i] \in Nat
        /\ faults \in Int
    BY UncreditedIsFinite
  <2>2. Chance(i)' \in {0, 1} /\ credits'[i] \in Nat /\ faults' \in Int
    BY DEF Chance, TypeOK
  <2>3. credits[i] + Cardinality(Uncredited(i)) + Chance(i) <= 1 + faults
    BY DEF CreditBudget, Chance
  <2>4. WithinBudget(i)
    OBVIOUS
  <2>. QED
    BY <2>1, <2>2, <2>3, <2>4 DEF WithinBudget
<1>. QED
  BY <1>1 DEF CreditBudget, Chance

LEMMA UncreditedSame ==
    ASSUME NEW i \in Attack, UNCHANGED <<who, results, got, ran>>
    PROVE  Uncredited(i)' = Uncredited(i)
  BY DEF Uncredited, Seen, FoughtFor, Attacker, Victim

\* Handlers that run, and results of fights next door, leave no more to credit.
LEMMA UncreditedShrinks ==
    ASSUME TypeOK, TypeOK', NEW i \in Attack, who' = who,
           NEW a \in Node, NEW v \in Node, a = Home[Attacker(i)], v = Home[Victim(i)],
           Seen(a, v)' >= Seen(a, v),
           \A k \in 1..Len(results'[v]) : ~results'[v][k].local =>
               k \in 1..Len(results[v]) /\ results'[v][k] = results[v][k]
    PROVE  Uncredited(i)' \subseteq Uncredited(i)
<1>1. Attacker(i)' = Attacker(i) /\ Victim(i)' = Victim(i)
  BY DEF Attacker, Victim
<1>2. Seen(a, v) \in Int /\ Seen(a, v)' \in Int
  <2>1. got \in [Node -> [Node -> Nat]] /\ got' \in [Node -> [Node -> Nat]]
    BY Zenon DEF TypeOK
  <2>2. got[a][v] \in Nat /\ got'[a][v] \in Nat
    BY <2>1
  <2>. QED
    BY <2>2 DEF Seen
<1>3. Uncredited(i) = {k \in 1..Len(results[v]) : k > Seen(a, v) /\ FoughtFor(v, k, i)}
  BY DEF Uncredited, Seen
<1>4. Uncredited(i)' = {k \in 1..Len(results'[v]) : k > Seen(a, v)' /\ FoughtFor(v, k, i)'}
  BY <1>1 DEF Uncredited, Seen
<1>5. ASSUME NEW k \in Uncredited(i)' PROVE k \in Uncredited(i)
  <2>1. /\ k \in 1..Len(results'[v]) /\ k > Seen(a, v)'
        /\ results'[v][k].attack = i /\ ~results'[v][k].local
    BY <1>4, <1>5 DEF FoughtFor
  <2>2. k \in 1..Len(results[v]) /\ results'[v][k] = results[v][k]
    BY <2>1
  <2>3. k > Seen(a, v)
    BY <1>2, <2>1, <2>2
  <2>. QED
    BY <1>3, <2>1, <2>2, <2>3 DEF FoughtFor
<1>. QED
  BY <1>5

\* A fight to come stays one of the fights to come until it is reported.
LEMMA ChanceFalls ==
    ASSUME NEW i \in Attack, malformed' = malformed,
           i \notin malformed /\ req'[i] \in {"none", "posted", "pending"}
               => req[i] \in {"none", "posted", "pending"},
           \A n \in Node :
               /\ i \in sync'[n].todo => req[i] = "pending" \/ i \in sync[n].todo
               /\ sync[n].at = "report" /\ sync[n].cur = i
                      => sync'[n].at = "report" /\ sync'[n].cur = i
    PROVE  MayBeFought(i)' => MayBeFought(i)
  BY DEF MayBeFought

LEMMA BudgetSession ==
    ASSUME QueueInv, QueueInv', CreditBudget,
           \/ NextDay
           \/ \E j \in Attack :
                \/ SpendAttack(j) \/ PostAttack(j) \/ PostAnswered(j) \/ PostGivesUp(j)
                \/ LocalWin(j) \/ LocalTake(j) \/ LocalLose(j) \/ LocalGive(j)
    PROVE  CreditBudget'
<1>. USE DEF QueueInv
<1>1. UNCHANGED <<who, sync, malformed, got, ran, credits>>
  BY DEF NextDay, SpendAttack, PostAttack, PostAnswered, PostGivesUp, LocalWin, LocalTake,
         LocalLose, LocalGive, sessionVars, hubVars, feedVars
<1>2. faults' \in {faults, faults + 1}
  BY DEF NextDay, SpendAttack, PostAttack, PostAnswered, PostGivesUp, LocalWin, LocalTake,
         LocalLose, LocalGive, Fault
<1>3. \A i \in Attack : req'[i] \in {"none", "posted", "pending"}
                            => req[i] \in {"none", "posted", "pending"}
  <2>1. CASE \E j \in Attack : PostAttack(j)
    <3>1. PICK j \in Attack : PostAttack(j)
      BY <2>1
    <3>2. req[j] = "none"
      BY <3>1 DEF PostAttack, RequestsArePosted
    <3>. QED
      BY <3>1, <3>2 DEF PostAttack, TypeOK
  <2>2. CASE req' = req
    BY <2>2
  <2>. QED
    BY <2>1, <2>2 DEF NextDay, SpendAttack, PostAnswered, PostGivesUp, LocalWin, LocalTake,
         LocalLose, LocalGive, hubVars
<1>4. ASSUME NEW n \in Node, NEW k \in 1..Len(results'[n]), ~results'[n][k].local
      PROVE  k \in 1..Len(results[n]) /\ results'[n][k] = results[n][k]
  <2>1. CASE \E j \in Attack : LocalRecord(j)
    <3>1. PICK j \in Attack : LocalRecord(j)
      BY <2>1
    <3>2. k <= Len(results[n])
      BY <1>4, <3>1, LocalRecorded
    <3>3. k \in 1..Len(results[n])
      <4>1. results \in [Node -> Seq(Result)] /\ results' \in [Node -> Seq(Result)]
        BY Zenon DEF TypeOK, Result
      <4>2. Len(results[n]) \in Nat /\ Len(results'[n]) \in Nat
        BY <4>1
      <4>. QED
        BY <3>2, <4>2
    <3>. QED
      BY <3>1, <3>3, LocalRecorded
  <2>2. CASE results' = results
    BY <2>2
  <2>. QED
    BY <2>1, <2>2 DEF NextDay, SpendAttack, PostAttack, PostAnswered, PostGivesUp, LocalWin, LocalTake,
         LocalLose, LocalGive, feedVars
<1>5. ASSUME NEW i \in Attack PROVE WithinBudget(i)
  <2>. PICK a \in Node, v \in Node : a = Home[Attacker(i)] /\ v = Home[Victim(i)]
    BY PairsTyped
  <2>1. Seen(a, v)' >= Seen(a, v)
    <3>1. got \in [Node -> [Node -> Nat]]
      BY Zenon DEF TypeOK
    <3>2. got[a][v] \in Nat
      BY <3>1
    <3>. QED
      BY <1>1, <3>2 DEF Seen
  <2>2. Uncredited(i)' \subseteq Uncredited(i)
    BY <1>1, <1>4, <2>1, UncreditedShrinks
  <2>3. MayBeFought(i)' => MayBeFought(i)
    BY <1>1, <1>3, ChanceFalls
  <2>. QED
    BY <1>1, <1>2, <2>2, <2>3, BudgetSteps
<1>6. \A n \in Node : ~ran'[n][n]
  BY <1>1 DEF CreditBudget
<1>. QED
  BY <1>5, <1>6, BudgetKept

\* A node draws an attack, and no result of it is in any log yet.
LEMMA BudgetPick ==
    ASSUME QueueInv, QueueInv', CreditBudget,
           NEW j \in Attack, NEW p \in Player, NEW q \in Player, Pick(j, p, q)
    PROVE  CreditBudget'
<1>. USE DEF QueueInv
<1>1. UNCHANGED <<req, malformed, sync, results, got, ran, credits, faults>>
  BY DEF Pick, hubVars, feedVars
<1>2. who' = [who EXCEPT ![j] = <<p, q>>] /\ req[j] = "none" /\ who \in [Attack -> Player \X Player]
  BY DEF Pick, RequestsArePosted, TypeOK
<1>3. ASSUME NEW i \in Attack PROVE WithinBudget(i)
  <2>1. MayBeFought(i)' => MayBeFought(i)
    BY <1>1, ChanceFalls
  <2>2. Uncredited(i)' \subseteq Uncredited(i)
    <3>1. CASE i = j
      <4>1. Home[Victim(i)'] \in Node
        BY <1>2, <3>1, Numbers DEF Victim
      <4>2. \A n \in Node : \A k \in 1..Len(results[n]) : ~FoughtFor(n, k, i)
        BY <1>2, <3>1 DEF RequestsArePosted, FoughtFor
      <4>. QED
        BY <1>1, <4>1, <4>2 DEF Uncredited, Seen, FoughtFor
    <3>2. CASE i # j
      <4>1. who'[i] = who[i]
        BY <1>2, <3>2
      <4>. QED
        BY <1>1, <4>1 DEF Uncredited, Seen, FoughtFor, Attacker, Victim
    <3>. QED
      BY <3>1, <3>2
  <2>. QED
    BY <1>1, <2>1, <2>2, BudgetSteps
<1>4. \A n \in Node : ~ran'[n][n]
  BY <1>1 DEF CreditBudget
<1>. QED
  BY <1>3, <1>4, BudgetKept

\* Steps at the hub and of the drains, which leave the logs alone.
LEMMA BudgetQuiet ==
    ASSUME QueueInv, QueueInv', CreditBudget, UNCHANGED <<who, results, got, ran, credits>>,
           \A i \in Attack :
               \/ (MayBeFought(i)' => MayBeFought(i)) /\ faults' \in {faults, faults + 1}
               \/ faults' = faults + 1
    PROVE  CreditBudget'
<1>1. ASSUME NEW i \in Attack PROVE WithinBudget(i)
  <2>1. Uncredited(i)' \subseteq Uncredited(i)
    BY UncreditedSame
  <2>. QED
    BY <2>1, BudgetSteps DEF QueueInv
<1>2. \A n \in Node : ~ran'[n][n]
  BY DEF CreditBudget
<1>. QED
  BY <1>1, <1>2, BudgetKept DEF QueueInv

LEMMA BudgetHub ==
    ASSUME QueueInv, QueueInv', CreditBudget, NEW j \in Attack,
           HubQueues(j) \/ HubRefuses(j) \/ HubCompletesLate(j) \/ QueueRetry(j)
    PROVE  CreditBudget'
<1>1. UNCHANGED <<who, results, got, ran, credits, malformed, sync, faults>>
  BY DEF HubQueues, HubRefuses, HubCompletesLate, QueueRetry, sessionVars, feedVars
<1>2. req \in [Attack -> {"none", "posted", "refused", "pending", "resolved", "blocked"}]
      /\ (req[j] = "blocked" => j \in malformed)
  BY DEF QueueInv, TypeOK, RequestsArePosted
<1>3. ASSUME NEW i \in Attack PROVE MayBeFought(i)' => MayBeFought(i)
  <2>1. i \notin malformed /\ req'[i] \in {"none", "posted", "pending"}
           => req[i] \in {"none", "posted", "pending"}
    BY <1>2 DEF HubQueues, HubRefuses, HubCompletesLate, QueueRetry, Settled
  <2>. QED
    BY <1>1, <2>1, ChanceFalls
<1>. QED
  BY <1>1, <1>3, BudgetQuiet

LEMMA BudgetDrain ==
    ASSUME QueueInv, QueueInv', CreditBudget, NEW n \in Node,
           \/ Fetch(n) \/ Take(n) \/ EmitFails(n)
           \/ \E j \in Attack : BlockMalformed(n, j) \/ Fight(n, j)
    PROVE  CreditBudget'
<1>1. UNCHANGED <<who, results, got, ran, credits, malformed>>
  BY DEF Fetch, Take, EmitFails, BlockMalformed, Fight, sessionVars, hubVars, feedVars
<1>2. faults' \in {faults, faults + 1}
  BY DEF Fetch, Take, EmitFails, BlockMalformed, Fight, Fault
<1>3. TypeOK /\ sync \in [Node -> Drained] /\ req \in [Attack -> {"none", "posted", "refused", "pending", "resolved", "blocked"}]
  BY DEF QueueInv, TypeOK, Drained
<1>4. \A i \in Attack : req'[i] \in {"none", "posted", "pending"} => req[i] \in {"none", "posted", "pending"}
  BY <1>3 DEF Fetch, Take, EmitFails, BlockMalformed, Fight, hubVars, Settled
<1>5. /\ \A m \in Node \ {n} : sync'[m] = sync[m]
      /\ sync[n].at # "report"
      /\ \A i \in sync'[n].todo : req[i] = "pending" \/ i \in sync[n].todo
  <2>1. CASE Fetch(n)
    BY <1>3, <2>1 DEF Fetch
  <2>2. CASE Take(n)
    <3>1. sync[n].at = "fought" /\ sync' = InWork(n, sync[n].cur, "took")
      BY <2>2 DEF Take
    <3>2. sync[n].cur \in Attack
      BY <3>1, CurTyped
    <3>. QED
      BY <1>3, <3>1, <3>2, InWorkTyped
  <2>3. CASE EmitFails(n)
    BY <1>3, <2>3, RestTyped DEF EmitFails
  <2>4. ASSUME NEW j \in Attack, BlockMalformed(n, j) PROVE <1>5!:
    BY <1>3, <2>4, RestTyped DEF BlockMalformed
  <2>5. ASSUME NEW j \in Attack, Fight(n, j) PROVE <1>5!:
    <3>1. sync[n].at = "drain" /\ \E where \in {"fought", "took"} : sync' = InWork(n, j, where)
      BY <2>5 DEF Fight
    <3>. QED
      BY <1>3, <3>1, InWorkTyped
  <2>. QED
    BY <2>1, <2>2, <2>3, <2>4, <2>5
<1>6. ASSUME NEW i \in Attack PROVE MayBeFought(i)' => MayBeFought(i)
  BY <1>1, <1>4, <1>5, ChanceFalls
<1>. QED
  BY <1>1, <1>2, <1>6, BudgetQuiet

\* A reported request is not fought again, unless the report fails.
LEMMA BudgetReports ==
    ASSUME QueueInv, QueueInv', CreditBudget, NEW n \in Node, Complete(n) \/ CompleteFails(n)
    PROVE  CreditBudget'
<1>. PICK c \in Attack : c = sync[n].cur
  BY CurTyped DEF Complete, CompleteFails
<1>1. UNCHANGED <<who, results, got, ran, credits, malformed>>
  BY DEF Complete, CompleteFails, sessionVars, hubVars, feedVars
<1>2. /\ TypeOK /\ sync \in [Node -> Drained]
      /\ req \in [Attack -> {"none", "posted", "refused", "pending", "resolved", "blocked"}]
  BY DEF QueueInv, TypeOK, Drained
<1>3. sync[n].at = "report" /\ sync' = [sync EXCEPT ![n] = Rest(n, c)]
  BY DEF Complete, CompleteFails
<1>4. c \in Attack /\ Home[Victim(c)] = n /\ req[c] \in {"pending", "resolved"}
  BY <1>3, CurTyped
<1>5. /\ \A m \in Node \ {n} : sync'[m] = sync[m]
      /\ sync'[n].todo \subseteq sync[n].todo \ {c} /\ sync'[n].at # "report"
  BY <1>2, <1>3, RestTyped
<1>6. \A m \in Node : c \in sync[m].todo => m = n
  BY <1>4 DEF QueueInv, DrainsAreOwn
<1>7. ASSUME NEW i \in Attack, i # c PROVE MayBeFought(i)' => MayBeFought(i)
  <2>1. req'[i] = req[i]
    BY <1>2, <1>4, <1>7 DEF Complete, CompleteFails, Settled
  <2>2. \A m \in Node : sync[m].at = "report" /\ sync[m].cur = i
                      => sync'[m].at = "report" /\ sync'[m].cur = i
    BY <1>5, <1>7
  <2>. QED
    BY <1>1, <1>5, <2>1, <2>2, ChanceFalls
<1>8. CASE Complete(n)
  <2>1. req'[c] = "resolved" /\ faults' = faults
    BY <1>2, <1>4, <1>8 DEF Complete, Settled
  <2>2. ~MayBeFought(c)'
    BY <1>4, <1>5, <1>6, <2>1 DEF MayBeFought
  <2>. QED
    BY <1>1, <1>7, <2>1, <2>2, BudgetQuiet
<1>9. CASE CompleteFails(n)
  <2>1. faults' = faults + 1
    BY <1>9 DEF CompleteFails, Fault
  <2>. QED
    BY <1>1, <2>1, BudgetQuiet
<1>. QED
  BY <1>8, <1>9

\* The result of a fight to come becomes a credit to come.
LEMMA BudgetEmits ==
    ASSUME QueueInv, QueueInv', CreditBudget, NEW n \in Node, EmitResult(n)
    PROVE  CreditBudget'
<1>. PICK c \in Attack : c = sync[n].cur
  BY CurTyped DEF EmitResult
<1>1. UNCHANGED <<who, got, ran, credits, req, malformed, faults>>
  BY DEF EmitResult, sessionVars, hubVars
<1>2. TypeOK /\ sync \in [Node -> Drained] /\ spoil \in [Attack -> Nat]
  BY DEF QueueInv, TypeOK, Drained
<1>3. sync[n].at = "took" /\ sync' = InWork(n, c, "report")
  BY DEF EmitResult
<1>4. c \in sync[n].todo /\ c \notin malformed /\ Home[Victim(c)] = n
  BY <1>3, CurTyped
<1>5. /\ \A m \in Node \ {n} : sync'[m] = sync[m]
      /\ sync'[n].todo = sync[n].todo /\ sync'[n].at = "report" /\ sync'[n].cur = c
  BY <1>2, <1>3, InWorkTyped
<1>. DEFINE e == [attack |-> c, local |-> FALSE, loot |-> spoil[c]]
<1>6. e \in Result /\ e.attack = c /\ ~e.local
  BY <1>2 DEF Result
<1>7. results' = [results EXCEPT ![n] = Append(results[n], e)]
  BY DEF EmitResult
<1>. HIDE DEF e
<1>8. /\ Len(results'[n]) = Len(results[n]) + 1 /\ results'[n][Len(results[n]) + 1] = e
      /\ \A k \in 1..Len(results[n]) : results'[n][k] = results[n][k]
      /\ \A m \in Node \ {n} : results'[m] = results[m]
  BY <1>2, <1>6, <1>7, LogAppended
<1>9. Len(results[n]) \in Nat
  BY <1>2 DEF TypeOK
<1>10. \A k \in 1..Len(results'[n]) : k \in 1..Len(results[n]) \/ k = Len(results[n]) + 1
  BY <1>8, <1>9
<1>11. ASSUME NEW i \in Attack PROVE WithinBudget(i)
  <2>1. Attacker(i)' = Attacker(i) /\ Victim(i)' = Victim(i)
    BY <1>1 DEF Attacker, Victim
  <2>2. CASE i = c
    <3>1. MayBeFought(i)
      <4>1. ~\E m \in Node : sync[m].at = "report" /\ sync[m].cur = i
        <5>1. ASSUME NEW m \in Node, sync[m].at = "report", sync[m].cur = i PROVE FALSE
          BY <1>3, <1>4, <2>2, <5>1, CurTyped
        <5>. QED
          BY <5>1
      <4>. QED
        BY <1>4, <2>2, <4>1 DEF MayBeFought
    <3>2. ~MayBeFought(i)'
      BY <1>5, <2>2 DEF MayBeFought
    <3>3. Uncredited(i)' \subseteq Uncredited(i) \cup {Len(results[n]) + 1}
      <4>1. Home[Victim(i)] = n
        BY <1>4, <2>2
      <4>. QED
        BY <1>1, <1>8, <1>10, <2>1, <4>1 DEF Uncredited, Seen, FoughtFor
    <3>. QED
      BY <1>1, <3>1, <3>2, <3>3, BudgetSteps DEF QueueInv
  <2>3. CASE i # c
    <3>1. MayBeFought(i)' => MayBeFought(i)
      BY <1>1, <1>3, <1>5, <2>3, ChanceFalls
    <3>2. Uncredited(i)' \subseteq Uncredited(i)
      <4>1. CASE Home[Victim(i)] = n
        BY <1>1, <1>6, <1>8, <1>10, <2>1, <2>3, <4>1 DEF Uncredited, Seen, FoughtFor
      <4>2. CASE Home[Victim(i)] # n
        <5>1. results'[Home[Victim(i)]] = results[Home[Victim(i)]]
          BY <1>2, <1>8, <4>2, PairsTyped
        <5>. QED
          BY <1>1, <2>1, <5>1 DEF Uncredited, Seen, FoughtFor
      <4>. QED
        BY <4>1, <4>2
    <3>. QED
      BY <1>1, <3>1, <3>2, BudgetSteps DEF QueueInv
  <2>. QED
    BY <2>2, <2>3
<1>12. \A m \in Node : ~ran'[m][m]
  BY <1>1 DEF CreditBudget
<1>. QED
  BY <1>11, <1>12, BudgetKept DEF QueueInv

\* A handler that fails uses a credit to come up, whether it credits or not, and
\* it is itself the failure that pays.
LEMMA BudgetHandlerFails ==
    ASSUME QueueInv, QueueInv', CreditBudget, NEW m \in Node, NEW n \in Node, HandlerFails(m, n)
    PROVE  CreditBudget'
<1>1. /\ UNCHANGED <<who, results, sync, req, malformed, got>> /\ m # n
      /\ ran' = [ran EXCEPT ![m][n] = TRUE] /\ faults' = faults + 1
  BY HandlerFailed DEF QueueInv
<1>2. /\ TypeOK /\ TypeOK' /\ got \in [Node -> [Node -> Nat]] /\ ran \in [Node -> [Node -> BOOLEAN]]
      /\ credits \in [Attack -> Nat]
  BY Zenon DEF QueueInv, TypeOK
<1>3. PICK j \in Attack, loot \in Nat : Credit(j, loot) \/ UNCHANGED <<bag, credits>>
  BY <1>2, HandlerFailed
<1>4. \A i \in Attack : credits'[i] \in {credits[i], credits[i] + 1}
  BY <1>2, <1>3 DEF Credit
<1>5. \A i \in Attack : MayBeFought(i)' => MayBeFought(i)
  BY <1>1 DEF MayBeFought
<1>6. \A a, v \in Node : ran'[a][v] = IF a = m /\ v = n THEN TRUE ELSE ran[a][v]
  BY <1>1, <1>2
<1>7. ASSUME NEW a \in Node, NEW v \in Node PROVE Seen(a, v)' >= Seen(a, v)
  <2>1. got'[a][v] = got[a][v] /\ got[a][v] \in Nat
    BY <1>1, <1>2
  <2>2. ran'[a][v] = IF a = m /\ v = n THEN TRUE ELSE ran[a][v]
    BY <1>6
  <2>. QED
    BY <2>1, <2>2 DEF Seen
<1>8. ASSUME NEW i \in Attack PROVE WithinBudget(i)
  <2>. PICK a \in Node, v \in Node : a = Home[Attacker(i)] /\ v = Home[Victim(i)]
    BY <1>2, PairsTyped
  <2>1. Seen(a, v)' >= Seen(a, v)
    BY <1>7
  <2>2. \A k \in 1..Len(results'[v]) : k \in 1..Len(results[v]) /\ results'[v][k] = results[v][k]
    BY <1>1
  <2>3. Uncredited(i)' \subseteq Uncredited(i)
    BY <1>1, <1>2, <2>1, <2>2, UncreditedShrinks
  <2>. PICK U, V, c, d : /\ U = Uncredited(i) /\ V = Uncredited(i)'
                         /\ c = Chance(i) /\ d = Chance(i)'
    OBVIOUS
  <2>4. /\ IsFiniteSet(U) /\ Cardinality(U) \in Nat
        /\ c \in {0, 1} /\ credits[i] \in Nat /\ faults \in Int
    BY <1>2, UncreditedIsFinite
  <2>5. d \in {0, 1} /\ d <= c
    BY <1>5 DEF Chance
  <2>6. Cardinality(V) \in Nat /\ Cardinality(V) <= Cardinality(U)
    BY <2>3, <2>4, FS_Subset, FS_CardinalityType
  <2>7. credits'[i] + Cardinality(V) + d - faults' <= credits[i] + Cardinality(U) + c - faults
    BY <1>1, <1>4, <2>4, <2>5, <2>6
  <2>. QED
    BY <2>6, <2>7 DEF WithinBudget
<1>9. \A a \in Node : ~ran'[a][a]
  BY <1>1, <1>6 DEF CreditBudget
<1>. QED
  BY <1>2, <1>8, <1>9, BudgetKept

\* The handler turns a credit to come into a credit; the mark changes nothing.
LEMMA BudgetHandler ==
    ASSUME QueueInv, QueueInv', CreditBudget, NEW m \in Node, NEW n \in Node,
           HandlerRuns(m, n) \/ HandlerMarked(m, n)
    PROVE  CreditBudget'
<1>1. UNCHANGED <<who, results, sync, req, malformed, faults>>
  BY DEF HandlerRuns, HandlerMarked, sessionVars, hubVars
<1>2. /\ TypeOK /\ TypeOK' /\ got \in [Node -> [Node -> Nat]] /\ ran \in [Node -> [Node -> BOOLEAN]]
      /\ results \in [Node -> Seq(Result)] /\ credits \in [Attack -> Nat]
  BY Zenon DEF QueueInv, TypeOK, Result
<1>3. \A i \in Attack : MayBeFought(i)' => MayBeFought(i)
  BY <1>1 DEF MayBeFought
<1>4. ASSUME NEW i \in Attack, credits'[i] = credits[i],
             \A a, v \in Node : Seen(a, v)' >= Seen(a, v)
      PROVE  WithinBudget(i)
  <2>. PICK a \in Node, v \in Node : a = Home[Attacker(i)] /\ v = Home[Victim(i)]
    BY <1>2, PairsTyped
  <2>1. Seen(a, v)' >= Seen(a, v)
    BY <1>4
  <2>2. \A k \in 1..Len(results'[v]) : k \in 1..Len(results[v]) /\ results'[v][k] = results[v][k]
    BY <1>1
  <2>3. Uncredited(i)' \subseteq Uncredited(i)
    BY <1>1, <1>2, <2>1, <2>2, UncreditedShrinks
  <2>. QED
    BY <1>1, <1>2, <1>3, <1>4, <2>3, BudgetSteps
<1>5. \A a, v \in Node : got[a][v] \in Nat /\ ran[a][v] \in BOOLEAN
  BY <1>2
<1>6. CASE HandlerMarked(m, n)
  <2>1. ran[m][n] /\ credits' = credits
    BY <1>6 DEF HandlerMarked
  <2>2. /\ \A a, v \in Node : got'[a][v] = IF a = m /\ v = n THEN got[a][v] + 1 ELSE got[a][v]
        /\ \A a, v \in Node : ran'[a][v] = IF a = m /\ v = n THEN FALSE ELSE ran[a][v]
    BY <1>2, <1>6 DEF HandlerMarked
  <2>3. ASSUME NEW a \in Node, NEW v \in Node PROVE Seen(a, v)' >= Seen(a, v)
    <3>1. /\ got'[a][v] = IF a = m /\ v = n THEN got[a][v] + 1 ELSE got[a][v]
          /\ ran'[a][v] = IF a = m /\ v = n THEN FALSE ELSE ran[a][v]
          /\ got[a][v] \in Nat
      BY <1>5, <2>2
    <3>. QED
      BY <2>1, <3>1 DEF Seen
  <2>4. \A a \in Node : ~ran'[a][a]
    BY <2>2 DEF CreditBudget
  <2>. QED
    BY <1>2, <1>4, <2>1, <2>3, <2>4, BudgetKept
<1>7. CASE HandlerRuns(m, n)
  <2>. DEFINE k == got[m][n] + 1
              e == results[n][k]
              i == e.attack
  <2>1. /\ m # n /\ got[m][n] < Len(results[n]) /\ ~ran[m][n]
        /\ Mine(m, e) => /\ ran' = [ran EXCEPT ![m][n] = TRUE] /\ got' = got
                         /\ credits' = [credits EXCEPT ![i] = @ + 1]
        /\ ~Mine(m, e) => /\ got' = [got EXCEPT ![m][n] = @ + 1]
                          /\ ran' = ran /\ credits' = credits
    BY <1>7, Zenon DEF HandlerRuns, HandlerDue, Credit
  <2>2. k \in 1..Len(results[n])
    <3>1. results[n] \in Seq(Result) /\ got[m][n] \in Nat
      BY <1>2
    <3>2. Len(results[n]) \in Nat
      BY <3>1
    <3>. QED
      BY <2>1, <3>1, <3>2
  <2>. HIDE DEF e
  <2>3. CASE ~Mine(m, e)
    <3>1. /\ credits' = credits /\ ran' = ran
          /\ \A a, v \in Node : got'[a][v] = IF a = m /\ v = n THEN got[a][v] + 1 ELSE got[a][v]
      <4>1. credits' = credits /\ ran' = ran /\ got' = [got EXCEPT ![m][n] = @ + 1]
        BY <2>1, <2>3
      <4>2. got \in [Node -> [Node -> Nat]]
        BY <1>2
      <4>. QED
        BY <4>1, <4>2
    <3>2. ASSUME NEW a \in Node, NEW v \in Node PROVE Seen(a, v)' >= Seen(a, v)
      <4>1. /\ got'[a][v] = IF a = m /\ v = n THEN got[a][v] + 1 ELSE got[a][v]
            /\ got[a][v] \in Nat
        BY <1>5, <3>1
      <4>. QED
        BY <3>1, <4>1 DEF Seen
    <3>3. \A a \in Node : ~ran'[a][a]
      BY <3>1 DEF CreditBudget
    <3>. QED
      BY <1>2, <1>4, <3>1, <3>2, <3>3, BudgetKept
  <2>4. CASE Mine(m, e)
    <3>1. /\ credits' = [credits EXCEPT ![i] = credits[i] + 1] /\ got' = got
          /\ \A a, v \in Node : ran'[a][v] = IF a = m /\ v = n THEN TRUE ELSE ran[a][v]
      <4>1. /\ credits' = [credits EXCEPT ![i] = credits[i] + 1] /\ got' = got
            /\ ran' = [ran EXCEPT ![m][n] = TRUE]
        BY <2>1, <2>4
      <4>2. ran \in [Node -> [Node -> BOOLEAN]]
        BY <1>2
      <4>. QED
        BY <4>1, <4>2
    <3>2. ASSUME NEW a \in Node, NEW v \in Node PROVE Seen(a, v)' >= Seen(a, v)
      <4>1. /\ ran'[a][v] = IF a = m /\ v = n THEN TRUE ELSE ran[a][v]
            /\ got[a][v] \in Nat
        BY <1>5, <3>1
      <4>. QED
        BY <2>1, <3>1, <4>1 DEF Seen
    <3>3. \A a \in Node : ~ran'[a][a]
      BY <2>1, <3>1 DEF CreditBudget
    <3>4. e \in Result /\ i \in Attack
      <4>1. results[n] \in Seq(Result)
        BY <1>2
      <4>2. e \in Result
        BY <2>2, <4>1 DEF e
      <4>. QED
        BY <4>2 DEF Result
    <3>5. ~e.local /\ Home[Attacker(i)] = m /\ Home[Victim(i)] = n
      BY <2>2, <2>4 DEF Mine, QueueInv, RequestsArePosted, e
    <3>6. WithinBudget(i)
      <4>. HIDE DEF k
      <4>. PICK j \in Attack : j = i
        BY <3>4
      <4>1. k \in Nat /\ got[m][n] \in Nat /\ k > got[m][n] /\ k = got[m][n] + 1
        BY <1>5 DEF k
      <4>2. k \in Uncredited(j)
        BY <2>1, <2>2, <3>5, <4>1 DEF Uncredited, Seen, FoughtFor, e
      <4>3. \A x \in Uncredited(j)' : x > got[m][n] + 1
        BY <1>1, <3>1, <3>5 DEF Uncredited, Seen, Attacker, Victim
      <4>4. Uncredited(j)' \subseteq Uncredited(j)
        <5>1. Seen(m, n)' >= Seen(m, n)
          BY <3>2
        <5>2. \A x \in 1..Len(results'[n]) : x \in 1..Len(results[n]) /\ results'[n][x] = results[n][x]
          BY <1>1
        <5>. QED
          BY <1>1, <1>2, <3>5, <5>1, <5>2, UncreditedShrinks
      <4>5. Uncredited(j)' \subseteq Uncredited(j) \ {k}
        BY <4>1, <4>3, <4>4
      <4>6. credits'[j] = credits[j] + 1
        BY <1>2, <3>1
      <4>7. WithinBudget(j)
        BY <1>1, <1>2, <1>3, <4>2, <4>5, <4>6, BudgetSteps
      <4>. QED
        BY <4>7
    <3>7. \A j \in Attack \ {i} : credits'[j] = credits[j]
      BY <1>2, <3>1
    <3>8. \A j \in Attack : WithinBudget(j)
      BY <1>4, <3>2, <3>6, <3>7
    <3>. QED
      BY <1>2, <3>3, <3>8, BudgetKept
  <2>. QED
    BY <2>3, <2>4
<1>. QED
  BY <1>6, <1>7

\* A failure pays for one more fight when the victim's node stops, and for one
\* more run of a handler when the attacker's node does.
LEMMA BudgetCrash ==
    ASSUME QueueInv, QueueInv', CreditBudget, NEW n \in Node, Crash(n)
    PROVE  CreditBudget'
<1>1. UNCHANGED <<who, results, got, credits, req, malformed>> /\ faults' = faults + 1
  BY DEF Crash, Fault
<1>2. /\ TypeOK /\ TypeOK' /\ sync \in [Node -> Drained] /\ got \in [Node -> [Node -> Nat]]
      /\ ran \in [Node -> [Node -> BOOLEAN]]
  BY Zenon DEF QueueInv, TypeOK, Drained
<1>3. \A a, v \in Node : ran'[a][v] = IF a = n THEN FALSE ELSE ran[a][v]
  BY <1>2 DEF Crash
<1>4. \A m \in Node \ {n} : sync'[m] = sync[m]
  BY <1>2 DEF Crash
<1>5. sync'[n].todo = {}
  BY <1>2 DEF Crash, Idle
<1>6. ASSUME NEW i \in Attack PROVE WithinBudget(i)
  <2>. PICK a \in Node, v \in Node : a = Home[Attacker(i)] /\ v = Home[Victim(i)]
    BY <1>2, PairsTyped
  <2>1. Attacker(i)' = Attacker(i) /\ Victim(i)' = Victim(i)
    BY <1>1 DEF Attacker, Victim
  <2>2. CASE v = n
    <3>1. ran'[a][v] = ran[a][v]
      <4>1. ran[n][n] = FALSE
        BY <1>2, Zenon DEF CreditBudget
      <4>. QED
        BY <1>3, <2>2, <4>1
    <3>2. Uncredited(i)' = Uncredited(i)
      BY <1>1, <2>1, <3>1 DEF Uncredited, Seen, FoughtFor
    <3>. QED
      BY <1>1, <1>2, <3>2, BudgetSteps
  <2>3. CASE v # n
    <3>1. ~(sync[n].at = "report" /\ sync[n].cur = i)
      BY <2>3, CurTyped
    <3>2. MayBeFought(i)' => MayBeFought(i)
      BY <1>1, <1>4, <1>5, <3>1, ChanceFalls
    <3>3. Uncredited(i)' \subseteq Uncredited(i) \cup {got[a][v] + 1}
      <4>1. got[a][v] \in Nat
        BY <1>2
      <4>. QED
        BY <1>1, <2>1, <4>1 DEF Uncredited, Seen, FoughtFor
    <3>. QED
      BY <1>1, <1>2, <3>2, <3>3, BudgetSteps
  <2>. QED
    BY <2>2, <2>3
<1>7. \A m \in Node : ~ran'[m][m]
  BY <1>3 DEF CreditBudget
<1>. QED
  BY <1>2, <1>6, <1>7, BudgetKept

LEMMA BudgetInit == Init => CreditBudget
<1>. SUFFICES ASSUME Init PROVE CreditBudget
  OBVIOUS
<1>1. \A n \in Node : ~ran[n][n]
  BY DEF Init
<1>2. ASSUME NEW i \in Attack
      PROVE  credits[i] + Cardinality(Uncredited(i)) + (IF MayBeFought(i) THEN 1 ELSE 0) <= 1 + faults
  <2>1. TypeOK
    BY TypeInit
  <2>2. results[Home[Victim(i)]] = << >>
    BY <2>1, PairsTyped DEF Init
  <2>3. Uncredited(i) = {}
    BY <2>2 DEF Uncredited
  <2>4. Cardinality(Uncredited(i)) = 0
    BY <2>3, FS_EmptySet
  <2>. QED
    BY <2>4 DEF Init
<1>. QED
  BY <1>1, <1>2 DEF CreditBudget

LEMMA BudgetNext == QueueInv /\ CreditBudget /\ [Next]_vars => CreditBudget'
<1>. SUFFICES ASSUME QueueInv, CreditBudget, [Next]_vars PROVE CreditBudget'
  OBVIOUS
<1>1. QueueInv'
  BY QueueNext
<1>2. CASE UNCHANGED vars
  <2>1. \A i \in Attack : MayBeFought(i)' => MayBeFought(i)
    BY <1>2 DEF vars, MayBeFought
  <2>. QED
    BY <1>1, <1>2, <2>1, BudgetQuiet DEF vars
<1>3. ASSUME NEW i \in Attack, SessionStep(i) \/ PostGivesUp(i) PROVE CreditBudget'
  BY <1>1, <1>3, BudgetSession DEF SessionStep
<1>4. CASE NextDay
  BY <1>1, <1>4, BudgetSession
<1>5. ASSUME NEW n \in Node, Drain(n) \/ EmitFails(n) \/ CompleteFails(n) \/ Crash(n)
      PROVE  CreditBudget'
  BY <1>1, <1>5, BudgetDrain, BudgetReports, BudgetEmits, BudgetCrash DEF Drain
<1>. QED
  BY <1>1, <1>2, <1>3, <1>4, <1>5, BudgetPick, BudgetHub, BudgetHandler,
     BudgetHandlerFails DEF Next, Settle

\* The handler credits an attack at most once, and once more for every failure:
\* credits given, results still to be handled and a fight still to come are
\* together one, and a crash or a failed report adds at most one.
THEOREM CreditsAreBounded == Spec => []CreditedOncePerFault
<1>1. QueueInv /\ CreditBudget => CreditedOncePerFault
  <2>. SUFFICES ASSUME QueueInv, CreditBudget, NEW i \in Attack PROVE credits[i] <= 1 + faults
    BY DEF CreditedOncePerFault
  <2>1. /\ Cardinality(Uncredited(i)) \in Nat /\ Chance(i) \in {0, 1} /\ credits[i] \in Nat
        /\ faults \in Int
    BY UncreditedIsFinite DEF QueueInv
  <2>2. credits[i] + Cardinality(Uncredited(i)) + Chance(i) <= 1 + faults
    BY DEF CreditBudget, Chance
  <2>. QED
    BY <2>1, <2>2
<1>. QED
  BY <1>1, QueueInit, QueueNext, BudgetInit, BudgetNext, PTL DEF Spec

-----------------------------------------------------------------------------
(* Sums: what a fold over a finite set of integers returns, and how it     *)
(* changes with one of them.  Induction over the subsets of the set is by  *)
(* the least counterexample.                                               *)

\* The element of s that a fold takes first.
First(s) == CHOOSE x \in s : TRUE

\* v[s] is the sum of f over s, for each subset s of S.
Sums(f, S, v) ==
    \A s \in SUBSET S : v[s] = IF s = {} THEN 0 ELSE f[First(s)] + v[s \ {First(s)}]

\* The least of a set of numbers.
LEMMA Least ==
    ASSUME NEW T, T \subseteq Nat, T # {}
    PROVE  \E x \in T : \A y \in T : x <= y
<1>. DEFINE R == OpToRel(<, Nat)
<1>1. IsWellFoundedOn(R, Nat)
  BY NatLessThanWellFounded
<1>2. PICK x \in T : \A y \in T : ~(<<y, x>> \in R)
  <2>. HIDE DEF R
  <2>. QED
    BY <1>1, WFMin
<1>3. ASSUME NEW y \in T PROVE x <= y
  <2>1. ~(<<y, x>> \in R)
    BY <1>2
  <2>2. ~(y < x)
    BY <2>1 DEF OpToRel
  <2>. QED
    BY <2>2
<1>. QED
  BY <1>3

\* Induction over the subsets of a finite set.
LEMMA SubsetInduction ==
    ASSUME NEW S, IsFiniteSet(S), NEW P,
           \A s \in SUBSET S : (\A x \in s : s \ {x} \in P) => s \in P
    PROVE  \A s \in SUBSET S : s \in P
<1>. DEFINE T == {Cardinality(s) : s \in {t \in SUBSET S : t \notin P}}
<1>1. SUFFICES ASSUME T # {} PROVE FALSE
  OBVIOUS
<1>2. \A s \in SUBSET S : IsFiniteSet(s) /\ Cardinality(s) \in Nat
  BY FS_Subset, FS_CardinalityType
<1>3. PICK k \in T : \A j \in T : k <= j
  <2>1. T \subseteq Nat
    BY <1>2
  <2>. HIDE DEF T
  <2>. QED
    BY <1>1, <2>1, Least
<1>4. PICK s \in SUBSET S : s \notin P /\ Cardinality(s) = k
  BY <1>3
<1>5. PICK x \in s : s \ {x} \notin P
  BY <1>4
<1>6. s \ {x} \in SUBSET S /\ Cardinality(s \ {x}) = Cardinality(s) - 1
  BY <1>2, <1>4, <1>5, FS_RemoveElement
<1>7. Cardinality(s \ {x}) \in T
  BY <1>5, <1>6
<1>8. k \in Nat
  BY <1>2, <1>4
<1>. HIDE DEF T
<1>9. k <= k - 1
  BY <1>3, <1>4, <1>6, <1>7
<1>. QED
  BY <1>8, <1>9

LEMMA FirstIsOne == ASSUME NEW s, s # {} PROVE First(s) \in s
  BY DEF First

\* A sum is a number, and the only one.
LEMMA SumsAreInts ==
    ASSUME NEW S, IsFiniteSet(S), NEW f, \A x \in S : f[x] \in Int, NEW v, Sums(f, S, v)
    PROVE  \A s \in SUBSET S : v[s] \in Int
<1>. DEFINE P == {s \in SUBSET S : v[s] \in Int}
<1>1. ASSUME NEW s \in SUBSET S, \A x \in s : s \ {x} \in P PROVE s \in P
  <2>1. CASE s = {}
    <3>1. v[s] = 0
      BY <2>1 DEF Sums
    <3>. QED
      BY <3>1
  <2>2. CASE s # {}
    <3>1. First(s) \in s
      BY <2>2, FirstIsOne
    <3>2. f[First(s)] \in Int /\ v[s \ {First(s)}] \in Int
      BY <1>1, <3>1
    <3>. QED
      BY <1>1, <2>2, <3>2 DEF Sums
  <2>. QED
    BY <2>1, <2>2
<1>. HIDE DEF P
<1>2. \A s \in SUBSET S : s \in P
  BY <1>1, SubsetInduction
<1>. QED
  BY <1>2 DEF P

LEMMA SumsAgree ==
    ASSUME NEW S, IsFiniteSet(S), NEW f, NEW g, \A x \in S : f[x] = g[x],
           NEW v, Sums(f, S, v), NEW w, Sums(g, S, w)
    PROVE  \A s \in SUBSET S : v[s] = w[s]
<1>. DEFINE P == {s \in SUBSET S : v[s] = w[s]}
<1>1. ASSUME NEW s \in SUBSET S, \A x \in s : s \ {x} \in P PROVE s \in P
  <2>1. CASE s = {}
    BY <1>1, <2>1 DEF Sums
  <2>2. CASE s # {}
    <3>1. First(s) \in s
      BY <2>2, FirstIsOne
    <3>2. f[First(s)] = g[First(s)] /\ v[s \ {First(s)}] = w[s \ {First(s)}]
      BY <1>1, <3>1
    <3>. QED
      BY <1>1, <2>2, <3>2 DEF Sums
  <2>. QED
    BY <2>1, <2>2
<1>. HIDE DEF P
<1>2. \A s \in SUBSET S : s \in P
  BY <1>1, SubsetInduction
<1>. QED
  BY <1>2 DEF P

\* Whichever element is taken first.
LEMMA SumsTakeAny ==
    ASSUME NEW S, IsFiniteSet(S), NEW f, \A x \in S : f[x] \in Int, NEW v, Sums(f, S, v)
    PROVE  \A s \in SUBSET S : \A x \in s : v[s] = f[x] + v[s \ {x}]
<1>. DEFINE P == {s \in SUBSET S : \A x \in s : v[s] = f[x] + v[s \ {x}]}
<1>1. ASSUME NEW s \in SUBSET S, \A x \in s : s \ {x} \in P PROVE s \in P
  <2>1. ASSUME NEW x \in s PROVE v[s] = f[x] + v[s \ {x}]
    <3>. DEFINE y == First(s)
    <3>1. y \in s
      BY FirstIsOne
    <3>2. v[s] = f[y] + v[s \ {y}]
      BY <3>1 DEF Sums
    <3>. HIDE DEF y
    <3>3. CASE x = y
      BY <3>2, <3>3
    <3>4. CASE x # y
      <4>1. s \ {y} \in P /\ x \in s \ {y} /\ s \ {x} \in P /\ y \in s \ {x}
        BY <1>1, <3>1, <3>4
      <4>2. v[s \ {y}] = f[x] + v[(s \ {y}) \ {x}] /\ v[s \ {x}] = f[y] + v[(s \ {x}) \ {y}]
        BY <4>1
      <4>3. (s \ {y}) \ {x} = (s \ {x}) \ {y} /\ (s \ {x}) \ {y} \in SUBSET S
        OBVIOUS
      <4>4. f[x] \in Int /\ f[y] \in Int /\ v[(s \ {x}) \ {y}] \in Int
        BY <3>1, <4>3, SumsAreInts
      <4>5. \A a, b, c \in Int : b + (a + c) = a + (b + c)
        OBVIOUS
      <4>6. v[s] = f[y] + (f[x] + v[(s \ {x}) \ {y}])
        BY <3>2, <4>2, <4>3
      <4>7. f[x] + v[s \ {x}] = f[x] + (f[y] + v[(s \ {x}) \ {y}])
        BY <4>2
      <4>. QED
        BY <4>4, <4>5, <4>6, <4>7
    <3>. QED
      BY <3>3, <3>4
  <2>. QED
    BY <1>1, <2>1
<1>. HIDE DEF P
<1>2. \A s \in SUBSET S : s \in P
  BY <1>1, SubsetInduction
<1>. QED
  BY <1>2 DEF P

\* There are sums.
LEMMA SumsExist ==
    ASSUME NEW S, IsFiniteSet(S), NEW f, \A x \in S : f[x] \in Int
    PROVE  \E v \in [SUBSET S -> Int] : Sums(f, S, v)
<1>. DEFINE Step(v, s) == IF s = {} THEN 0 ELSE f[First(s)] + v[s \ {First(s)}]
            UpTo(k, v) == \A s \in SUBSET S : Cardinality(s) <= k => v[s] = Step(v, s)
            T == {k \in Nat : ~\E v \in [SUBSET S -> Int] : UpTo(k, v)}
<1>1. \A s \in SUBSET S : IsFiniteSet(s) /\ Cardinality(s) \in Nat /\ Cardinality(s) <= Cardinality(S)
  BY FS_Subset, FS_CardinalityType
<1>2. \A s \in SUBSET S : s # {} =>
        First(s) \in s /\ s \ {First(s)} \in SUBSET S /\ Cardinality(s \ {First(s)}) = Cardinality(s) - 1
  BY <1>1, FirstIsOne, FS_RemoveElement
<1>3. ASSUME NEW v \in [SUBSET S -> Int], NEW s \in SUBSET S PROVE Step(v, s) \in Int
  <2>1. CASE s = {}
    BY <2>1
  <2>2. CASE s # {}
    <3>1. f[First(s)] \in Int /\ v[s \ {First(s)}] \in Int
      BY <1>2, <2>2
    <3>. QED
      BY <2>2, <3>1
  <2>. QED
    BY <2>1, <2>2
<1>4. T = {}
  <2>1. SUFFICES ASSUME T # {} PROVE FALSE
    OBVIOUS
  <2>2. PICK k \in T : \A j \in T : k <= j
    <3>1. T \subseteq Nat
      OBVIOUS
    <3>. HIDE DEF T
    <3>. QED
      BY <2>1, <3>1, Least
  <2>3. PICK u \in [SUBSET S -> Int] : k > 0 => UpTo(k - 1, u)
    <3>1. CASE k > 0
      <4>1. k - 1 \in Nat /\ k - 1 \notin T
        <5>1. k \in Nat
          OBVIOUS
        <5>. HIDE DEF T
        <5>. QED
          BY <2>2, <3>1, <5>1
      <4>2. \E u \in [SUBSET S -> Int] : UpTo(k - 1, u)
        BY <4>1
      <4>. HIDE DEF UpTo
      <4>. QED
        BY <4>2
    <3>2. CASE ~(k > 0)
      <4>1. [s \in SUBSET S |-> 0] \in [SUBSET S -> Int]
        OBVIOUS
      <4>. HIDE DEF UpTo
      <4>. QED
        BY <3>2, <4>1
    <3>. QED
      BY <3>1, <3>2
  <2>. DEFINE v == [s \in SUBSET S |-> IF Cardinality(s) = k THEN Step(u, s) ELSE u[s]]
  <2>4. v \in [SUBSET S -> Int]
    <3>. HIDE DEF Step
    <3>. QED
      BY <1>3
  <2>5. ASSUME NEW s \in SUBSET S, Cardinality(s) <= k PROVE v[s] = Step(v, s)
    <3>1. Step(v, s) = Step(u, s)
      <4>1. CASE s = {}
        BY <4>1
      <4>2. CASE s # {}
        <5>1. s \ {First(s)} \in SUBSET S /\ Cardinality(s \ {First(s)}) # k
          BY <1>1, <1>2, <2>2, <2>5, <4>2
        <5>2. v[s \ {First(s)}] = u[s \ {First(s)}]
          BY <5>1
        <5>. HIDE DEF v
        <5>. QED
          BY <5>2
      <4>. QED
        BY <4>1, <4>2
    <3>2. CASE Cardinality(s) = k
      <4>1. v[s] = Step(u, s)
        <5>. HIDE DEF Step
        <5>. QED
          BY <3>2
      <4>. QED
        BY <3>1, <4>1
    <3>3. CASE Cardinality(s) # k
      <4>1. k > 0 /\ Cardinality(s) <= k - 1
        BY <1>1, <2>2, <2>5, <3>3
      <4>2. v[s] = u[s]
        BY <3>3
      <4>3. u[s] = Step(u, s)
        BY <2>3, <4>1
      <4>. QED
        BY <3>1, <4>2, <4>3
    <3>. QED
      BY <3>2, <3>3
  <2>6. UpTo(k, v)
    BY <2>5
  <2>. HIDE DEF UpTo, v
  <2>. QED
    BY <2>2, <2>4, <2>6
<1>5. Cardinality(S) \in Nat
  BY FS_CardinalityType
<1>6. PICK v \in [SUBSET S -> Int] : UpTo(Cardinality(S), v)
  <2>1. Cardinality(S) \notin T
    BY <1>4
  <2>. HIDE DEF UpTo
  <2>. QED
    BY <1>5, <2>1
<1>7. Sums(f, S, v)
  BY <1>1, <1>6 DEF Sums
<1>. QED
  BY <1>7

\* SumFunctionOnSet adds up what it says.
LEMMA SumIs ==
    ASSUME NEW S, IsFiniteSet(S), NEW f, \A x \in S : f[x] \in Int
    PROVE  \E v : Sums(f, S, v) /\ SumFunctionOnSet(f, S) = v[S]
<1>. DEFINE Body(v) == [s \in SUBSET S |-> IF s = {} THEN 0 ELSE f[First(s)] + v[s \ {First(s)}]]
            v == CHOOSE v : v = Body(v)
<1>1. PICK u \in [SUBSET S -> Int] : Sums(f, S, u)
  BY SumsExist
<1>2. u = Body(u)
  BY <1>1 DEF Sums
<1>3. v = Body(v)
  <2>. HIDE DEF Body
  <2>. QED
    BY <1>2
<1>4. SumFunctionOnSet(f, S) = v[S]
  BY DEF SumFunctionOnSet, FoldFunctionOnSet, MapThenFoldSet, First
<1>. HIDE DEF v
<1>5. Sums(f, S, v)
  BY <1>3 DEF Sums
<1>. QED
  BY <1>4, <1>5

LEMMA SumIsInt ==
    ASSUME NEW S, IsFiniteSet(S), NEW f, \A x \in S : f[x] \in Int
    PROVE  SumFunctionOnSet(f, S) \in Int
<1>1. PICK v : Sums(f, S, v) /\ SumFunctionOnSet(f, S) = v[S]
  BY SumIs
<1>. QED
  BY <1>1, SumsAreInts

LEMMA SumSame ==
    ASSUME NEW S, IsFiniteSet(S), NEW f, NEW g, \A x \in S : f[x] \in Int /\ f[x] = g[x]
    PROVE  SumFunctionOnSet(f, S) = SumFunctionOnSet(g, S)
<1>1. PICK v : Sums(f, S, v) /\ SumFunctionOnSet(f, S) = v[S]
  BY SumIs
<1>2. PICK w : Sums(g, S, w) /\ SumFunctionOnSet(g, S) = w[S]
  BY SumIs
<1>3. v[S] = w[S]
  BY <1>1, <1>2, SumsAgree
<1>. QED
  BY <1>1, <1>2, <1>3

LEMMA SumTakesAny ==
    ASSUME NEW S, IsFiniteSet(S), NEW f, \A x \in S : f[x] \in Int, NEW x \in S
    PROVE  SumFunctionOnSet(f, S) = f[x] + SumFunctionOnSet(f, S \ {x})
<1>1. PICK v : Sums(f, S, v) /\ SumFunctionOnSet(f, S) = v[S]
  BY SumIs
<1>2. IsFiniteSet(S \ {x})
  BY FS_Subset
<1>3. PICK w : Sums(f, S \ {x}, w) /\ SumFunctionOnSet(f, S \ {x}) = w[S \ {x}]
  BY <1>2, SumIs
<1>4. Sums(f, S \ {x}, v)
  BY <1>1 DEF Sums
<1>5. v[S \ {x}] = w[S \ {x}]
  BY <1>2, <1>3, <1>4, SumsAgree
<1>6. v[S] = f[x] + v[S \ {x}]
  BY <1>1, SumsTakeAny
<1>. QED
  BY <1>1, <1>3, <1>5, <1>6

\* One value of the function changes.
LEMMA SumChanged ==
    ASSUME NEW S, IsFiniteSet(S), NEW x \in S, NEW f, NEW g,
           \A y \in S : f[y] \in Int, \A y \in S : g[y] \in Int, \A y \in S \ {x} : f[y] = g[y]
    PROVE  SumFunctionOnSet(g, S) = SumFunctionOnSet(f, S) + g[x] - f[x]
<1>1. IsFiniteSet(S \ {x})
  BY FS_Subset
<1>2. SumFunctionOnSet(f, S \ {x}) = SumFunctionOnSet(g, S \ {x})
  <2>1. \A y \in S \ {x} : f[y] \in Int /\ f[y] = g[y]
    OBVIOUS
  <2>. QED
    BY <1>1, <2>1, SumSame
<1>3. SumFunctionOnSet(f, S \ {x}) \in Int
  BY <1>1, SumIsInt
<1>4. SumFunctionOnSet(f, S) = f[x] + SumFunctionOnSet(f, S \ {x})
  BY SumTakesAny
<1>5. SumFunctionOnSet(g, S) = g[x] + SumFunctionOnSet(g, S \ {x})
  BY SumTakesAny
<1>. QED
  BY <1>2, <1>3, <1>4, <1>5

\* All values are the same.
LEMMA SumOfEqual ==
    ASSUME NEW S, IsFiniteSet(S), NEW c \in Int, NEW f, \A x \in S : f[x] = c
    PROVE  SumFunctionOnSet(f, S) = c * Cardinality(S)
<1>1. PICK v : Sums(f, S, v) /\ SumFunctionOnSet(f, S) = v[S]
  BY SumIs
<1>. DEFINE P == {s \in SUBSET S : v[s] = c * Cardinality(s)}
<1>2. ASSUME NEW s \in SUBSET S, \A x \in s : s \ {x} \in P PROVE s \in P
  <2>1. CASE s = {}
    BY <1>1, <2>1, FS_EmptySet DEF Sums
  <2>2. CASE s # {}
    <3>1. First(s) \in s
      BY <2>2, FirstIsOne
    <3>2. v[s] = c + v[s \ {First(s)}]
      BY <1>1, <2>2, <3>1 DEF Sums
    <3>3. v[s \ {First(s)}] = c * Cardinality(s \ {First(s)})
      BY <1>2, <3>1
    <3>4. IsFiniteSet(s) /\ Cardinality(s) \in Nat
      BY FS_Subset, FS_CardinalityType
    <3>5. Cardinality(s \ {First(s)}) = Cardinality(s) - 1
      BY <3>1, <3>4, FS_RemoveElement
    <3>6. \A m \in Nat : c + c * (m - 1) = c * m
      OBVIOUS
    <3>. QED
      BY <3>2, <3>3, <3>4, <3>5, <3>6
  <2>. QED
    BY <2>1, <2>2
<1>. HIDE DEF P
<1>3. \A s \in SUBSET S : s \in P
  BY <1>2, SubsetInduction
<1>. QED
  BY <1>1, <1>3 DEF P

-----------------------------------------------------------------------------
(* Goods. *)

InHand == SumFunction([i \in Attack |-> Taken(i)])

InResults == SumFunction([n \in Node |-> Owed(n)])

Dues(n) == {k \in 1..Len(results[n]) : Due(n, k)}

\* i is between deciding what to take and taking it.
Robs(i) == stage[i] = "read" \/ \E n \in Node : sync[n].at = "fought" /\ sync[n].cur = i

LEMMA AttacksAreFinite == IsFiniteSet(Attack)
  BY BoundsAssumption, FS_Interval DEF Attack

LEMMA TakenIsInt == ASSUME TypeOK, NEW i \in Attack PROVE Taken(i) \in Int
  BY DEF TypeOK, Taken

Loot(r) == [k \in 1..Len(r) |-> r[k].loot]

LEMMA LootSums ==
    ASSUME NEW r \in Seq(Result), NEW D \in SUBSET (1..Len(r))
    PROVE  /\ IsFiniteSet(D) /\ Len(r) \in Nat
           /\ \A k \in D : Loot(r)[k] = r[k].loot /\ Loot(r)[k] \in Int
           /\ SumFunctionOnSet(Loot(r), D) \in Int
<1>1. Len(r) \in Nat /\ \A k \in D : r[k] \in Result
  OBVIOUS
<1>2. IsFiniteSet(1..Len(r))
  BY <1>1, FS_Interval
<1>3. IsFiniteSet(D)
  BY <1>2, FS_Subset
<1>4. \A k \in D : Loot(r)[k] = r[k].loot
  BY DEF Loot
<1>5. \A k \in D : Loot(r)[k] \in Int
  BY <1>1, <1>4 DEF Result
<1>6. SumFunctionOnSet(Loot(r), D) \in Int
  BY <1>3, <1>5, SumIsInt
<1>. QED
  BY <1>1, <1>3, <1>4, <1>5, <1>6

LEMMA OwedIs ==
    ASSUME NEW n \in Node
    PROVE  /\ TypeOK => /\ results[n] \in Seq(Result) /\ Dues(n) \in SUBSET (1..Len(results[n]))
                        /\ Owed(n) = SumFunctionOnSet(Loot(results[n]), Dues(n))
           /\ TypeOK' => /\ results'[n] \in Seq(Result) /\ Dues(n)' \in SUBSET (1..Len(results'[n]))
                         /\ Owed(n)' = SumFunctionOnSet(Loot(results'[n]), Dues(n)')
  BY DEF TypeOK, Result, Owed, Dues, Loot

LEMMA OwedIsInt ==
    ASSUME NEW n \in Node
    PROVE  (TypeOK => Owed(n) \in Int) /\ (TypeOK' => Owed(n)' \in Int)
  BY OwedIs, LootSums

LEMMA SumsTyped ==
    /\ TypeOK => SumFunction(bag) \in Int /\ InHand \in Int /\ InResults \in Int
    /\ TypeOK' => SumFunction(bag') \in Int /\ InHand' \in Int /\ InResults' \in Int
<1>1. ASSUME NEW f \in [Player -> Nat] PROVE SumFunction(f) \in Int
  <2>1. \A p \in Player : f[p] \in Int
    OBVIOUS
  <2>2. SumFunction(f) = SumFunctionOnSet(f, Player)
    BY DEF SumFunction
  <2>. QED
    BY <2>1, <2>2, FiniteAssumption, SumIsInt
<1>2. ASSUME NEW f, DOMAIN f = Attack, \A i \in Attack : f[i] \in Int PROVE SumFunction(f) \in Int
  BY <1>2, AttacksAreFinite, SumIsInt DEF SumFunction
<1>3. ASSUME NEW f, DOMAIN f = Node, \A n \in Node : f[n] \in Int PROVE SumFunction(f) \in Int
  BY <1>3, FiniteAssumption, SumIsInt DEF SumFunction
<1>4. ASSUME TypeOK PROVE SumFunction(bag) \in Int /\ InHand \in Int /\ InResults \in Int
  <2>1. PICK f, g : f = [i \in Attack |-> Taken(i)] /\ g = [n \in Node |-> Owed(n)]
    OBVIOUS
  <2>2. DOMAIN f = Attack /\ \A i \in Attack : f[i] \in Int
    BY <1>4, <2>1, TakenIsInt
  <2>3. DOMAIN g = Node /\ \A n \in Node : g[n] \in Int
    BY <1>4, <2>1, OwedIsInt
  <2>4. bag \in [Player -> Nat]
    BY <1>4 DEF TypeOK
  <2>. QED
    BY <1>1, <1>2, <1>3, <2>1, <2>2, <2>3, <2>4 DEF InHand, InResults
<1>5. ASSUME TypeOK' PROVE SumFunction(bag') \in Int /\ InHand' \in Int /\ InResults' \in Int
  <2>1. PICK f, g : f = [i \in Attack |-> Taken(i)'] /\ g = [n \in Node |-> Owed(n)']
    OBVIOUS
  <2>2. DOMAIN f = Attack /\ \A i \in Attack : f[i] \in Int
    BY <1>5, <2>1 DEF TypeOK, Taken
  <2>3. DOMAIN g = Node /\ \A n \in Node : g[n] \in Int
    BY <1>5, <2>1, OwedIsInt
  <2>4. bag' \in [Player -> Nat]
    BY <1>5 DEF TypeOK
  <2>. QED
    BY <1>1, <1>2, <1>3, <2>1, <2>2, <2>3, <2>4 DEF InHand, InResults
<1>. QED
  BY <1>4, <1>5

LEMMA BagChanges ==
    ASSUME TypeOK, TypeOK', NEW p \in Player, \A q \in Player \ {p} : bag'[q] = bag[q]
    PROVE  SumFunction(bag') = SumFunction(bag) + bag'[p] - bag[p]
<1>1. bag \in [Player -> Nat] /\ bag' \in [Player -> Nat]
  BY DEF TypeOK
<1>2. SumFunction(bag) = SumFunctionOnSet(bag, Player) /\ SumFunction(bag') = SumFunctionOnSet(bag', Player)
  BY <1>1 DEF SumFunction
<1>3. PICK f, g : f = bag /\ g = bag'
  OBVIOUS
<1>4. (\A q \in Player : f[q] \in Int) /\ (\A q \in Player : g[q] \in Int)
      /\ \A q \in Player \ {p} : f[q] = g[q]
  BY <1>1, <1>3
<1>5. SumFunctionOnSet(g, Player) = SumFunctionOnSet(f, Player) + g[p] - f[p]
  BY <1>4, FiniteAssumption, SumChanged
<1>. QED
  BY <1>2, <1>3, <1>5

LEMMA HandChanges ==
    ASSUME TypeOK, TypeOK', NEW i \in Attack, \A j \in Attack \ {i} : Taken(j)' = Taken(j)
    PROVE  InHand' = InHand + Taken(i)' - Taken(i)
<1>1. PICK f, g : f = [j \in Attack |-> Taken(j)] /\ g = [j \in Attack |-> Taken(j)']
  OBVIOUS
<1>2. InHand = SumFunctionOnSet(f, Attack) /\ InHand' = SumFunctionOnSet(g, Attack)
  BY <1>1 DEF SumFunction, InHand
<1>3. \A j \in Attack : Taken(j) \in Int /\ Taken(j)' \in Int
  BY TakenIsInt DEF TypeOK, Taken
<1>4. (\A j \in Attack : f[j] \in Int) /\ (\A j \in Attack : g[j] \in Int)
      /\ \A j \in Attack \ {i} : f[j] = g[j]
  BY <1>1, <1>3
<1>5. SumFunctionOnSet(g, Attack) = SumFunctionOnSet(f, Attack) + g[i] - f[i]
  BY <1>4, AttacksAreFinite, SumChanged
<1>. QED
  BY <1>1, <1>2, <1>5

LEMMA HandSame ==
    ASSUME \A j \in Attack : Taken(j)' = Taken(j)
    PROVE  InHand' = InHand
<1>1. [j \in Attack |-> Taken(j)]' = [j \in Attack |-> Taken(j)]
  OBVIOUS
<1>. QED
  BY <1>1 DEF InHand

LEMMA ResultsChange ==
    ASSUME TypeOK, TypeOK', NEW n \in Node, \A m \in Node \ {n} : Owed(m)' = Owed(m)
    PROVE  InResults' = InResults + Owed(n)' - Owed(n)
<1>1. PICK f, g : f = [m \in Node |-> Owed(m)] /\ g = [m \in Node |-> Owed(m)']
  OBVIOUS
<1>2. InResults = SumFunctionOnSet(f, Node) /\ InResults' = SumFunctionOnSet(g, Node)
  BY <1>1 DEF SumFunction, InResults
<1>3. Owed(n)' \in Int /\ \A m \in Node : Owed(m) \in Int
  BY OwedIsInt
<1>4. (\A m \in Node : f[m] \in Int) /\ (\A m \in Node : g[m] \in Int)
      /\ \A m \in Node \ {n} : f[m] = g[m]
  BY <1>1, <1>3
<1>5. SumFunctionOnSet(g, Node) = SumFunctionOnSet(f, Node) + g[n] - f[n]
  BY <1>4, FiniteAssumption, SumChanged
<1>. QED
  BY <1>1, <1>2, <1>5

LEMMA ResultsSame ==
    ASSUME \A m \in Node : Owed(m)' = Owed(m)
    PROVE  InResults' = InResults
<1>1. [m \in Node |-> Owed(m)]' = [m \in Node |-> Owed(m)]
  OBVIOUS
<1>. QED
  BY <1>1 DEF InResults

\* No handler ran on n's results, and none of those added is due.
LEMMA OwedSame ==
    ASSUME TypeOK, TypeOK', NEW n \in Node,
           \A k \in 1..Len(results[n]) : k \in 1..Len(results'[n]) /\ results'[n][k] = results[n][k],
           Dues(n)' = Dues(n)
    PROVE  Owed(n)' = Owed(n)
<1>1. PICK r, q, D : r = results[n] /\ q = results'[n] /\ D = Dues(n)
  OBVIOUS
<1>2. /\ r \in Seq(Result) /\ q \in Seq(Result) /\ D \in SUBSET (1..Len(r)) /\ D \in SUBSET (1..Len(q))
      /\ Owed(n) = SumFunctionOnSet(Loot(r), D) /\ Owed(n)' = SumFunctionOnSet(Loot(q), D)
  BY <1>1, OwedIs
<1>3. IsFiniteSet(D) /\ \A k \in D : Loot(r)[k] \in Int /\ Loot(r)[k] = r[k].loot /\ Loot(q)[k] = q[k].loot
  BY <1>2, LootSums
<1>4. \A k \in D : r[k] = q[k]
  BY <1>1, <1>2
<1>5. \A k \in D : Loot(r)[k] \in Int /\ Loot(r)[k] = Loot(q)[k]
  BY <1>3, <1>4
<1>. QED
  BY <1>2, <1>3, <1>5, SumSame

\* One result is due, or is due no more.
LEMMA OwedChanges ==
    ASSUME TypeOK, TypeOK', NEW n \in Node, NEW x \in Nat,
           \A k \in 1..Len(results[n]) : k \in 1..Len(results'[n]) /\ results'[n][k] = results[n][k]
    PROVE  /\ x \notin Dues(n) /\ Dues(n)' = Dues(n) \cup {x} => Owed(n)' = Owed(n) + results'[n][x].loot
           /\ x \in Dues(n) /\ Dues(n)' = Dues(n) \ {x} => Owed(n)' = Owed(n) - results[n][x].loot
<1>1. PICK r, q, D, E : r = results[n] /\ q = results'[n] /\ D = Dues(n) /\ E = Dues(n)'
  OBVIOUS
<1>2. /\ r \in Seq(Result) /\ q \in Seq(Result) /\ D \in SUBSET (1..Len(r)) /\ E \in SUBSET (1..Len(q))
      /\ Owed(n) = SumFunctionOnSet(Loot(r), D) /\ Owed(n)' = SumFunctionOnSet(Loot(q), E)
  BY <1>1, OwedIs
<1>3. /\ IsFiniteSet(D) /\ \A k \in D : Loot(r)[k] \in Int /\ Loot(r)[k] = r[k].loot
      /\ IsFiniteSet(E) /\ \A k \in E : Loot(q)[k] \in Int /\ Loot(q)[k] = q[k].loot
  BY <1>2, LootSums
<1>4. \A k \in D : r[k] = q[k]
  BY <1>1, <1>2
<1>5. PICK f, g : f = Loot(r) /\ g = Loot(q)
  OBVIOUS
<1>6. /\ \A k \in D : f[k] \in Int /\ f[k] = r[k].loot
      /\ \A k \in E : g[k] \in Int /\ g[k] = q[k].loot
  BY <1>3, <1>5
<1>7. ASSUME x \notin D, E = D \cup {x} PROVE Owed(n)' = Owed(n) + q[x].loot
  <2>1. E \ {x} = D /\ x \in E
    BY <1>7
  <2>2. SumFunctionOnSet(g, E) = g[x] + SumFunctionOnSet(g, E \ {x})
    BY <1>3, <1>6, <2>1, SumTakesAny
  <2>3. \A k \in D : f[k] \in Int /\ f[k] = g[k]
    BY <1>4, <1>6, <2>1
  <2>4. SumFunctionOnSet(f, D) = SumFunctionOnSet(g, D) /\ SumFunctionOnSet(f, D) \in Int
    BY <1>3, <2>3, SumSame, SumIsInt
  <2>5. g[x] = q[x].loot /\ g[x] \in Int
    BY <1>6, <2>1
  <2>6. SumFunctionOnSet(g, E \ {x}) = SumFunctionOnSet(g, D)
    BY <2>1, Zenon
  <2>. QED
    BY <1>2, <1>5, <2>2, <2>4, <2>5, <2>6
<1>8. ASSUME x \in D, E = D \ {x} PROVE Owed(n)' = Owed(n) - r[x].loot
  <2>1. SumFunctionOnSet(f, D) = f[x] + SumFunctionOnSet(f, D \ {x})
    BY <1>3, <1>6, <1>8, SumTakesAny
  <2>2. \A k \in E : f[k] \in Int /\ f[k] = g[k]
    BY <1>4, <1>6, <1>8
  <2>3. SumFunctionOnSet(f, E) = SumFunctionOnSet(g, E) /\ SumFunctionOnSet(f, E) \in Int
    BY <1>3, <2>2, SumSame, SumIsInt
  <2>4. f[x] = r[x].loot /\ f[x] \in Int
    BY <1>6, <1>8
  <2>. QED
    BY <1>2, <1>5, <1>8, <2>1, <2>3, <2>4
<1>. QED
  BY <1>1, <1>7, <1>8

LEMMA RobsUniform ==
    ASSUME QueueInv
    PROVE  /\ \A n \in Node : sync[n].at \in {"fought", "took"} => sync[n].cur \in Attack
           /\ \A v : Robbing(v) = {i \in Attack : Robs(i) /\ Victim(i) = v}
<1>1. \A n \in Node : sync[n].at \in {"fought", "took"} => sync[n].cur \in Attack
  BY CurTyped
<1>2. ASSUME NEW v PROVE Robbing(v) = {i \in Attack : Robs(i) /\ Victim(i) = v}
  BY <1>1 DEF Robbing, Robs
<1>. QED
  BY <1>1, <1>2

\* What a fight decided to take is there, and no other fight takes from its victim.
Fit ==
    \A i \in Attack : Robs(i) /\ Victim(i) \notin raced =>
        /\ spoil[i] <= bag[Victim(i)]
        /\ \A j \in Attack : Robs(j) /\ Victim(j) = Victim(i) => j = i

LEMMA FitIs ==
    /\ QueueInv => (Fit <=> \A v \in Player \ raced : SpoilFits(v))
    /\ QueueInv' => (Fit' <=> \A v \in Player \ raced' : SpoilFits(v)')
<1>1. ASSUME QueueInv PROVE Fit <=> \A v \in Player \ raced : SpoilFits(v)
  <2>1. \A v : Robbing(v) = {i \in Attack : Robs(i) /\ Victim(i) = v}
    BY <1>1, RobsUniform
  <2>2. \A i \in Attack : Victim(i) \in Player
    BY <1>1, PairsTyped DEF QueueInv
  <2>3. \A v : SpoilFits(v) <=> \A i \in Attack : Robs(i) /\ Victim(i) = v =>
                  spoil[i] <= bag[v] /\ \A j \in Attack : Robs(j) /\ Victim(j) = v => j = i
    BY <2>1 DEF SpoilFits
  <2>. QED
    BY <2>2, <2>3 DEF Fit
<1>2. ASSUME QueueInv' PROVE Fit' <=> \A v \in Player \ raced' : SpoilFits(v)'
  <2>1. \A n \in Node : sync'[n].at \in {"fought", "took"} => sync'[n].cur \in Attack
    <3>1. \A n \in Node : sync'[n].todo \subseteq Attack
      BY <1>2 DEF QueueInv, TypeOK
    <3>2. \A n \in Node : sync'[n].at \in {"fought", "took"} => sync'[n].cur \in sync'[n].todo
      BY <1>2 DEF QueueInv, DrainsAreOwn
    <3>. QED
      BY <3>1, <3>2
  <2>2. \A v : Robbing(v)' = {i \in Attack : Robs(i)' /\ Victim(i)' = v}
    BY <2>1 DEF Robbing, Robs, Victim
  <2>3. \A i \in Attack : Victim(i)' \in Player
    BY <1>2 DEF QueueInv, TypeOK, Victim
  <2>4. \A v : SpoilFits(v)' <=> \A i \in Attack : Robs(i)' /\ Victim(i)' = v =>
                  spoil'[i] <= bag'[v] /\ \A j \in Attack : Robs(j)' /\ Victim(j)' = v => j = i
    BY <2>2 DEF SpoilFits
  <2>. QED
    BY <2>3, <2>4 DEF Fit
<1>. QED
  BY <1>1, <1>2

\* A drain in work has a request of its own, whose session is long past a fight.
LEMMA Working ==
    ASSUME QueueInv, NEW n \in Node, sync[n].at \notin {"idle", "drain"}
    PROVE  /\ sync[n].cur \in Attack /\ sync[n].cur \notin malformed
           /\ Home[Victim(sync[n].cur)] = n /\ req[sync[n].cur] \in {"pending", "resolved"}
           /\ stage[sync[n].cur] \notin {"none", "checked", "spent", "read", "took"}
           /\ \A m \in Node : sync[m].at \notin {"idle", "drain"} /\ sync[m].cur = sync[n].cur => m = n
<1>1. /\ sync[n].cur \in Attack /\ sync[n].cur \notin malformed
      /\ Home[Victim(sync[n].cur)] = n /\ req[sync[n].cur] \in {"pending", "resolved"}
  BY CurTyped
<1>2. stage[sync[n].cur] \notin {"none", "checked", "spent", "read", "took"}
  BY <1>1 DEF QueueInv, RequestsArePosted
<1>3. \A m \in Node : sync[m].at \notin {"idle", "drain"} /\ sync[m].cur = sync[n].cur => m = n
  BY <1>1, CurTyped
<1>. QED
  BY <1>1, <1>2, <1>3

\* No drain works on an attack that its session still fights.
LEMMA NotWorked ==
    ASSUME QueueInv, NEW i \in Attack, stage[i] \in {"none", "checked", "spent", "read", "took"}
    PROVE  req[i] = "none" /\ \A n \in Node : sync[n].at \notin {"idle", "drain"} => sync[n].cur # i
<1>1. req[i] = "none"
  BY DEF QueueInv, RequestsArePosted
<1>. QED
  BY <1>1, CurTyped

\* The inductive invariant.
LootInd == LootInv /\ GoodsConserved

\* What one step without a failure has to keep.
LEMMA LootSteps ==
    ASSUME QueueInv, QueueInv', LootInd, faults' = faults, raced \subseteq raced',
           faults = 0 => Fit',
           faults = 0 => \A i \in Attack : req'[i] # "none" /\ i \notin malformed' => Remote(i)',
           faults = 0 => \A m, n \in Node : Seen(m, n)' <= Len(results'[n]),
           faults = 0 /\ raced' \cap Player = {} =>
               SumFunction(bag') + InHand' + InResults' = SumFunction(bag) + InHand + InResults
    PROVE  LootInd'
<1>1. LootInv'
  BY FitIs DEF LootInv
<1>2. TypeOK /\ TypeOK'
  BY DEF QueueInv
<1>3. SumFunction(bag) \in Int /\ InHand \in Int /\ InResults \in Int
  BY <1>2, SumsTyped
<1>4. InTransit = InHand + InResults /\ InTransit' = InHand' + InResults'
  BY DEF InTransit, InHand, InResults
<1>5. SumFunction(bag') \in Int /\ InHand' \in Int /\ InResults' \in Int
  BY <1>2, SumsTyped
<1>6. GoodsConserved'
  <2>. SUFFICES ASSUME faults = 0, raced' \cap Player = {}
                PROVE  SumFunction(bag') + InTransit' = Carried * Cardinality(Player)
    BY DEF GoodsConserved
  <2>1. SumFunction(bag) + InTransit = Carried * Cardinality(Player)
    BY DEF LootInd, GoodsConserved
  <2>2. SumFunction(bag') + InHand' + InResults' = SumFunction(bag) + InHand + InResults
    OBVIOUS
  <2>. QED
    BY <2>1, <2>2, <1>3, <1>4, <1>5
<1>. QED
  BY <1>1, <1>6 DEF LootInd

LEMMA FeedSame ==
    ASSUME LootInd, UNCHANGED <<who, results, got, ran>>
    PROVE  /\ InResults' = InResults
           /\ faults = 0 => \A m, n \in Node : Seen(m, n)' <= Len(results'[n])
<1>1. \A m, n \in Node : Seen(m, n)' = Seen(m, n)
  BY DEF Seen
<1>2. InResults' = InResults
  BY DEF InResults, Owed, Due, Seen, Attacker
<1>. QED
  BY <1>1, <1>2 DEF LootInd, LootInv

LEMMA RemoteSame ==
    ASSUME LootInd, malformed' = malformed, faults = 0,
           \A i \in Attack : req'[i] # "none" /\ i \notin malformed =>
               who'[i] = who[i] /\ (req[i] # "none" \/ Remote(i))
    PROVE  \A i \in Attack : req'[i] # "none" /\ i \notin malformed' => Remote(i)'
<1>1. \A i \in Attack : who'[i] = who[i] => Remote(i)' = Remote(i)
  BY DEF Remote, Attacker, Victim
<1>. QED
  BY <1>1 DEF LootInd, LootInv

\* A session or a drain goes on outside a fight.
LEMMA QuietKeeps ==
    ASSUME QueueInv, QueueInv', LootInd,
           UNCHANGED <<who, bag, spoil, results, got, ran, malformed, raced, faults>>,
           \A i \in Attack : stage'[i] # stage[i] =>
               stage[i] \notin {"read", "took"} /\ stage'[i] \notin {"read", "took"},
           \A n \in Node : sync'[n] # sync[n] =>
               sync[n].at \notin {"fought", "took"} /\ sync'[n].at \notin {"fought", "took"},
           \A i \in Attack : req'[i] # "none" => req[i] # "none" \/ Remote(i)
    PROVE  LootInd'
<1>1. \A i \in Attack : Robs(i)' <=> Robs(i)
  BY DEF Robs
<1>2. \A i \in Attack : Taken(i)' = Taken(i)
  <2>. TAKE i \in Attack
  <2>1. stage'[i] = "took" <=> stage[i] = "took"
    OBVIOUS
  <2>2. \A n \in Node : sync'[n].at = "took" /\ sync'[n].cur = i <=> sync[n].at = "took" /\ sync[n].cur = i
    OBVIOUS
  <2>. QED
    BY <2>1, <2>2 DEF Taken
<1>3. faults = 0 => Fit'
  <2>1. faults = 0 => Fit
    BY FitIs DEF LootInd, LootInv
  <2>. QED
    BY <1>1, <2>1 DEF Fit, Victim
<1>4. faults = 0 => \A i \in Attack : req'[i] # "none" /\ i \notin malformed' => Remote(i)'
  BY RemoteSame
<1>5. InHand' = InHand
  BY <1>2, HandSame
<1>. QED
  BY <1>3, <1>4, <1>5, FeedSame, LootSteps

LEMMA LootQuiet ==
    ASSUME QueueInv, QueueInv', LootInd,
           \/ NextDay \/ UNCHANGED vars
           \/ \E i \in Attack : SpendAttack(i) \/ PostAttack(i) \/ PostAnswered(i)
           \/ \E i \in Attack : HubQueues(i) \/ HubRefuses(i) \/ HubCompletesLate(i) \/ QueueRetry(i)
    PROVE  LootInd'
<1>1. CASE NextDay \/ UNCHANGED vars
  <2>1. UNCHANGED <<stage, who, bag, spoil, results, got, ran, malformed, raced, faults, sync, req>>
    BY <1>1 DEF NextDay, vars, sessionVars, hubVars, feedVars
  <2>. QED
    BY <2>1, QuietKeeps
<1>2. ASSUME NEW i \in Attack, SpendAttack(i) \/ PostAttack(i) \/ PostAnswered(i) PROVE LootInd'
  <2>1. UNCHANGED <<who, bag, spoil, results, got, ran, malformed, raced, faults, sync>>
    BY <1>2 DEF SpendAttack, PostAttack, PostAnswered, hubVars, feedVars
  <2>2. \A j \in Attack : stage'[j] # stage[j] =>
               stage[j] \notin {"read", "took"} /\ stage'[j] \notin {"read", "took"}
    BY <1>2 DEF SpendAttack, PostAttack, PostAnswered, QueueInv, TypeOK
  <2>3. \A j \in Attack : req'[j] # "none" => req[j] # "none" \/ Remote(j)
    BY <1>2 DEF SpendAttack, PostAttack, PostAnswered, hubVars, QueueInv, TypeOK
  <2>. QED
    BY <2>1, <2>2, <2>3, QuietKeeps
<1>3. ASSUME NEW i \in Attack, HubQueues(i) \/ HubRefuses(i) \/ HubCompletesLate(i) \/ QueueRetry(i)
      PROVE  LootInd'
  <2>1. UNCHANGED <<stage, who, bag, spoil, results, got, ran, malformed, raced, faults, sync>>
    BY <1>3 DEF HubQueues, HubRefuses, HubCompletesLate, QueueRetry, sessionVars, feedVars
  <2>2. \A j \in Attack : req'[j] # "none" => req[j] # "none"
    <3>1. req \in [Attack -> {"none", "posted", "refused", "pending", "resolved", "blocked"}]
      BY DEF QueueInv, TypeOK
    <3>. QED
      BY <1>3, <3>1 DEF HubQueues, HubRefuses, HubCompletesLate, QueueRetry, Settled
  <2>. QED
    BY <2>1, <2>2, QuietKeeps
<1>. QED
  BY <1>1, <1>2, <1>3

LEMMA LootDrains ==
    ASSUME QueueInv, QueueInv', LootInd, NEW n \in Node,
           Fetch(n) \/ Complete(n) \/ \E i \in Attack : BlockMalformed(n, i)
    PROVE  LootInd'
<1>1. UNCHANGED <<stage, who, bag, spoil, results, got, ran, malformed, raced, faults>>
  BY DEF Fetch, Complete, BlockMalformed, sessionVars, hubVars, feedVars
<1>2. sync \in [Node -> Drained]
  BY DEF QueueInv, TypeOK, Drained
<1>3. \A m \in Node : sync'[m] # sync[m] =>
               sync[m].at \notin {"fought", "took"} /\ sync'[m].at \notin {"fought", "took"}
  BY <1>2, RestTyped DEF Fetch, Complete, BlockMalformed, QueueInv
<1>4. \A j \in Attack : req'[j] # "none" => req[j] # "none"
  <2>1. req \in [Attack -> {"none", "posted", "refused", "pending", "resolved", "blocked"}]
    BY DEF QueueInv, TypeOK
  <2>. QED
    BY <2>1 DEF Fetch, Complete, BlockMalformed, Settled, hubVars
<1>. QED
  BY <1>1, <1>3, <1>4, QuietKeeps

LEMMA LootPick ==
    ASSUME QueueInv, QueueInv', LootInd, NEW i \in Attack, NEW a \in Player, NEW v \in Player, Pick(i, a, v)
    PROVE  LootInd'
<1>1. /\ UNCHANGED <<bag, spoil, results, got, ran, malformed, req, sync, faults>>
      /\ raced \subseteq raced' /\ stage[i] = "none"
      /\ stage' = [stage EXCEPT ![i] = "checked"]
      /\ \A j \in Attack \ {i} : who'[j] = who[j]
  BY DEF Pick, hubVars, feedVars, QueueInv, TypeOK
<1>2. TypeOK /\ TypeOK'
  BY DEF QueueInv
<1>3. \A j \in Attack : stage'[j] # stage[j] => j = i /\ stage'[j] = "checked"
  BY <1>1, <1>2 DEF TypeOK
<1>4. req[i] = "none" /\ \A n \in Node : sync[n].at \notin {"idle", "drain"} => sync[n].cur # i
  BY <1>1, NotWorked
<1>5. \A j \in Attack : Robs(j)' => Robs(j) /\ j # i
  BY <1>1, <1>3, <1>4 DEF Robs
<1>6. \A j \in Attack : Taken(j)' = Taken(j)
  <2>. TAKE j \in Attack
  <2>1. stage'[j] = "took" <=> stage[j] = "took"
    BY <1>1, <1>3
  <2>. QED
    BY <1>1, <2>1 DEF Taken
<1>7. faults = 0 => Fit'
  <2>1. faults = 0 => Fit
    BY FitIs DEF LootInd, LootInv
  <2>2. \A j \in Attack : j # i => Victim(j)' = Victim(j)
    BY <1>1 DEF Victim
  <2>. QED
    BY <1>1, <1>5, <2>1, <2>2 DEF Fit
<1>8. faults = 0 => \A j \in Attack : req'[j] # "none" /\ j \notin malformed' => Remote(j)'
  BY <1>1, <1>4, RemoteSame
<1>9. \A m, n \in Node : Seen(m, n)' = Seen(m, n)
  BY <1>1 DEF Seen
<1>10. faults = 0 => \A m, n \in Node : Seen(m, n)' <= Len(results'[n])
  BY <1>1, <1>9 DEF LootInd, LootInv
<1>11. \A n \in Node : Dues(n)' = Dues(n)
  <2>. TAKE n \in Node
  <2>1. ASSUME NEW k \in 1..Len(results[n]) PROVE Due(n, k)' <=> Due(n, k)
    <3>1. CASE results[n][k].local
      BY <1>1, <3>1 DEF Due
    <3>2. CASE ~results[n][k].local
      <4>1. req[results[n][k].attack] \in {"pending", "resolved"}
        BY <3>2 DEF QueueInv, RequestsArePosted
      <4>2. results[n][k].attack \in Attack \ {i}
        <5>1. results[n] \in Seq(Result)
          BY <1>2 DEF TypeOK, Result
        <5>2. results[n][k] \in Result
          BY <5>1
        <5>3. results[n][k].attack \in Attack
          BY <5>2 DEF Result
        <5>. QED
          BY <1>4, <4>1, <5>3
      <4>3. who'[results[n][k].attack] = who[results[n][k].attack]
        BY <1>1, <4>2
      <4>. QED
        BY <1>1, <1>9, <4>3 DEF Due, Seen, Attacker
    <3>. QED
      BY <3>1, <3>2
  <2>. QED
    BY <1>1, <2>1 DEF Dues
<1>12. \A n \in Node : Owed(n)' = Owed(n)
  BY <1>1, <1>2, <1>11, OwedSame
<1>13. InResults' = InResults /\ InHand' = InHand
  BY <1>6, <1>12, HandSame, ResultsSame
<1>. QED
  BY <1>1, <1>7, <1>8, <1>10, <1>13, LootSteps

LEMMA LootFits == ASSUME NEW q \in Nat, NEW n \in LootOf(q) PROVE n \in Nat /\ n <= q
<1>1. n \in Nat
  BY LootIsNat
<1>2. CASE q = 0
  BY <1>2 DEF LootOf
<1>3. CASE q # 0
  <2>1. (q + 2) \div 4 \in Nat /\ q \div 2 \in Nat /\ q \div 2 <= q
    OBVIOUS
  <2>2. n <= IF q \div 2 = 0 THEN 1 ELSE q \div 2
    BY <1>1, <1>3, <2>1 DEF LootOf
  <2>. QED
    BY <1>1, <1>3, <2>1, <2>2
<1>. QED
  BY <1>1, <1>2, <1>3

LEMMA FitKept ==
    ASSUME QueueInv, Fit, who' = who, raced \subseteq raced', bag' \in [Player -> Nat],
           \A i \in Attack : Robs(i)' /\ Victim(i) \notin raced' =>
               Robs(i) /\ spoil'[i] = spoil[i] /\ bag'[Victim(i)] >= bag[Victim(i)]
    PROVE  Fit'
<1>1. \A i \in Attack : Victim(i)' = Victim(i)
  BY DEF Victim
<1>2. \A i \in Attack : spoil[i] \in Int /\ bag[Victim(i)] \in Int /\ bag'[Victim(i)] \in Int
  BY Inventories DEF QueueInv
<1>. SUFFICES ASSUME NEW i \in Attack, Robs(i)', Victim(i) \notin raced'
              PROVE  /\ spoil'[i] <= bag'[Victim(i)]
                     /\ \A j \in Attack : Robs(j)' /\ Victim(j) = Victim(i) => j = i
  BY <1>1 DEF Fit
<1>3. spoil[i] <= bag[Victim(i)] /\ \A j \in Attack : Robs(j) /\ Victim(j) = Victim(i) => j = i
  BY DEF Fit
<1>4. spoil'[i] <= bag'[Victim(i)]
  BY <1>2, <1>3
<1>. QED
  BY <1>3, <1>4

\* A fight listed the goods of its victim and decided what to take.
LEMMA FitListed ==
    ASSUME QueueInv, Fit, UNCHANGED <<who, bag>>, NEW i \in Attack, raced' = RacedAt(Victim(i)),
           spoil'[i] <= bag[Victim(i)], \A j \in Attack \ {i} : spoil'[j] = spoil[j],
           \A j \in Attack : Robs(j)' => Robs(j) \/ j = i
    PROVE  Fit'
<1>1. \A j \in Attack : Victim(j)' = Victim(j)
  BY DEF Victim
<1>2. \A v : Robbing(v) = {j \in Attack : Robs(j) /\ Victim(j) = v}
  BY RobsUniform
<1>3. raced \subseteq raced'
  BY DEF RacedAt
<1>4. ASSUME NEW j \in Attack, Robs(j), Victim(j) = Victim(i) PROVE Victim(i) \in raced'
  BY <1>2, <1>4 DEF RacedAt
<1>. SUFFICES ASSUME NEW j \in Attack, Robs(j)', Victim(j) \notin raced'
              PROVE  /\ spoil'[j] <= bag[Victim(j)]
                     /\ \A k \in Attack : Robs(k)' /\ Victim(k) = Victim(j) => k = j
  BY <1>1 DEF Fit
<1>5. CASE j = i
  BY <1>4, <1>5
<1>6. CASE j # i
  <2>1. Robs(j) /\ Victim(j) \notin raced
    BY <1>3, <1>6
  <2>2. spoil[j] <= bag[Victim(j)] /\ \A k \in Attack : Robs(k) /\ Victim(k) = Victim(j) => k = j
    BY <2>1 DEF Fit
  <2>3. Victim(j) # Victim(i)
    BY <1>4, <2>1
  <2>. QED
    BY <1>6, <2>2, <2>3
<1>. QED
  BY <1>5, <1>6

\* What the end of a fight next door does to goods on their way.
LEMMA LootRecords ==
    ASSUME QueueInv, QueueInv', LootInd, NEW i \in Attack, LocalRecord(i),
           UNCHANGED <<who, sync, got, ran>>, stage[i] \in {"spent", "took"}
    PROVE  /\ InResults' = InResults /\ InHand' = InHand - Taken(i)
           /\ faults = 0 => \A m, n \in Node : Seen(m, n)' <= Len(results'[n])
           /\ \A j \in Attack : Robs(j)' => Robs(j) /\ spoil'[j] = spoil[j]
<1>1. TypeOK /\ TypeOK'
  BY DEF QueueInv
<1>2. \A n \in Node : sync[n].at \notin {"idle", "drain"} => sync[n].cur # i
  BY NotWorked
<1>3. stage' = [stage EXCEPT ![i] = "done"] /\ spoil' = [spoil EXCEPT ![i] = 0]
      /\ stage \in [Attack -> Stages] /\ spoil \in [Attack -> Nat]
  BY <1>1 DEF LocalRecord, TypeOK
<1>4. ~Robs(i)' /\ Taken(i)' = 0
  BY <1>2, <1>3 DEF Robs, Taken
<1>5. \A j \in Attack \ {i} : Taken(j)' = Taken(j) /\ (Robs(j)' => Robs(j) /\ spoil'[j] = spoil[j])
  BY <1>3 DEF Robs, Taken
<1>6. /\ \A n \in Node :
           /\ Len(results[n]) <= Len(results'[n])
           /\ \A k \in 1..Len(results[n]) : results'[n][k] = results[n][k]
           /\ \A k \in 1..Len(results'[n]) : k <= Len(results[n]) \/ results'[n][k].local
  BY <1>1, LocalRecorded
<1>7. \A n \in Node : Len(results[n]) \in Nat /\ Len(results'[n]) \in Nat
  <2>1. \A n \in Node : results[n] \in Seq(Result) /\ results'[n] \in Seq(Result)
    BY <1>1 DEF TypeOK, Result
  <2>. QED
    BY <2>1
<1>8. \A m, n \in Node : Seen(m, n)' = Seen(m, n) /\ Seen(m, n) \in Nat
  <2>1. \A m, n \in Node : got[m][n] \in Nat
    BY <1>1 DEF TypeOK
  <2>. QED
    BY <2>1 DEF Seen
<1>9. faults = 0 => \A m, n \in Node : Seen(m, n)' <= Len(results'[n])
  BY <1>6, <1>7, <1>8 DEF LootInd, LootInv
<1>10. ASSUME NEW n \in Node PROVE Owed(n)' = Owed(n)
  <2>1. ASSUME NEW k \in 1..Len(results[n]) PROVE Due(n, k)' <=> Due(n, k)
    BY <1>6 DEF Due, Seen, Attacker
  <2>2. ASSUME NEW k \in 1..Len(results'[n]), k \notin 1..Len(results[n]) PROVE ~Due(n, k)'
    BY <1>6, <1>7, <2>2 DEF Due
  <2>3. \A k \in 1..Len(results[n]) : k \in 1..Len(results'[n]) /\ results'[n][k] = results[n][k]
    BY <1>6, <1>7
  <2>4. Dues(n)' = Dues(n)
    BY <2>1, <2>2, <2>3 DEF Dues
  <2>. QED
    BY <1>1, <2>3, <2>4, OwedSame
<1>11. InResults' = InResults
  BY <1>10, ResultsSame
<1>12. InHand' = InHand + Taken(i)' - Taken(i)
  BY <1>1, <1>5, HandChanges
<1>13. InHand' = InHand - Taken(i)
  BY <1>1, <1>4, <1>12, SumsTyped, TakenIsInt
<1>. QED
  BY <1>4, <1>5, <1>9, <1>11, <1>13

LEMMA LootLocal ==
    ASSUME QueueInv, QueueInv', LootInd, NEW i \in Attack, LocalLose(i) \/ LocalGive(i)
    PROVE  LootInd'
<1>1. LocalRecord(i) /\ UNCHANGED <<who, sync, got, ran, malformed, req, raced, faults>>
      /\ stage[i] \in {"spent", "took"}
  BY DEF LocalLose, LocalGive, hubVars
<1>2. TypeOK /\ TypeOK'
  BY DEF QueueInv
<1>3. /\ InResults' = InResults /\ InHand' = InHand - Taken(i)
      /\ faults = 0 => \A m, n \in Node : Seen(m, n)' <= Len(results'[n])
      /\ \A j \in Attack : Robs(j)' => Robs(j) /\ spoil'[j] = spoil[j]
  BY <1>1, LootRecords
<1>4. /\ bag \in [Player -> Nat] /\ bag' \in [Player -> Nat] /\ Attacker(i) \in Player /\ spoil[i] \in Nat
      /\ \A j \in Attack : Victim(j) \in Player
  BY <1>2, Inventories DEF TypeOK
<1>5. SumFunction(bag) \in Int /\ InHand \in Int /\ InResults \in Int /\ SumFunction(bag') \in Int
  BY <1>2, SumsTyped
<1>6. \A n \in Node : sync[n].at \notin {"idle", "drain"} => sync[n].cur # i
  BY <1>1, NotWorked
<1>7. SumFunction(bag') = SumFunction(bag) + Taken(i) /\ \A p \in Player : bag'[p] >= bag[p]
  <2>1. CASE LocalLose(i)
    <3>1. bag' = bag /\ Taken(i) = 0
      BY <1>6, <2>1 DEF LocalLose, Taken
    <3>. QED
      BY <1>4, <1>5, <3>1
  <2>2. CASE LocalGive(i)
    <3>1. Taken(i) = spoil[i] /\ bag' = [bag EXCEPT ![Attacker(i)] = @ + spoil[i]]
      BY <2>2 DEF LocalGive, Taken
    <3>2. bag'[Attacker(i)] = bag[Attacker(i)] + spoil[i]
          /\ \A q \in Player \ {Attacker(i)} : bag'[q] = bag[q]
      BY <1>4, <3>1
    <3>3. SumFunction(bag') = SumFunction(bag) + bag'[Attacker(i)] - bag[Attacker(i)]
      BY <1>2, <1>4, <3>2, BagChanges
    <3>. QED
      BY <1>4, <1>5, <3>1, <3>2, <3>3
  <2>. QED
    BY <2>1, <2>2
<1>8. faults = 0 => Fit'
  <2>1. faults = 0 => Fit
    BY FitIs DEF LootInd, LootInv
  <2>. QED
    BY <1>1, <1>3, <1>4, <1>7, <2>1, FitKept
<1>9. faults = 0 => \A j \in Attack : req'[j] # "none" /\ j \notin malformed' => Remote(j)'
  BY <1>1, RemoteSame
<1>10. Taken(i) \in Int
  BY <1>2, TakenIsInt
<1>11. SumFunction(bag') + InHand' + InResults' = SumFunction(bag) + InHand + InResults
  BY <1>3, <1>5, <1>7, <1>10
<1>. QED
  BY <1>1, <1>3, <1>8, <1>9, <1>11, LootSteps

LEMMA LootWins ==
    ASSUME QueueInv, QueueInv', LootInd, NEW i \in Attack, LocalWin(i)
    PROVE  LootInd'
<1>1. /\ UNCHANGED <<who, bag, results, got, ran, malformed, req, sync, faults>>
      /\ stage[i] = "spent" /\ stage' = [stage EXCEPT ![i] = "read"]
      /\ raced' = RacedAt(Victim(i))
  BY DEF LocalWin, hubVars, feedVars
<1>2. TypeOK /\ TypeOK'
  BY DEF QueueInv
<1>3. PICK loot \in LootOf(bag[Victim(i)]) : spoil' = [spoil EXCEPT ![i] = loot]
  BY DEF LocalWin
<1>4. spoil'[i] <= bag[Victim(i)] /\ \A j \in Attack \ {i} : spoil'[j] = spoil[j]
  <2>1. bag[Victim(i)] \in Nat /\ spoil \in [Attack -> Nat]
    BY <1>2, Inventories
  <2>. QED
    BY <1>3, <2>1, LootFits
<1>5. \A j \in Attack : Robs(j)' => Robs(j) \/ j = i
  BY <1>1 DEF Robs, QueueInv, TypeOK
<1>6. \A j \in Attack : Taken(j)' = Taken(j)
  <2>1. \A n \in Node : sync[n].at \notin {"idle", "drain"} => sync[n].cur # i
    BY <1>1, NotWorked
  <2>2. \A j \in Attack : stage'[j] = "took" <=> stage[j] = "took"
    BY <1>1, <1>2 DEF TypeOK
  <2>3. stage[i] # "took"
    BY <1>1
  <2>. QED
    BY <1>1, <1>4, <2>1, <2>2, <2>3 DEF Taken
<1>7. faults = 0 => Fit'
  <2>1. faults = 0 => Fit
    BY FitIs DEF LootInd, LootInv
  <2>. QED
    BY <1>1, <1>4, <1>5, <2>1, FitListed
<1>8. faults = 0 => \A j \in Attack : req'[j] # "none" /\ j \notin malformed' => Remote(j)'
  BY <1>1, RemoteSame
<1>9. raced \subseteq raced'
  BY <1>1 DEF RacedAt
<1>10. InHand' = InHand
  BY <1>6, HandSame
<1>. QED
  BY <1>1, <1>7, <1>8, <1>9, <1>10, FeedSame, LootSteps

LEMMA LootTaken ==
    ASSUME QueueInv, QueueInv', LootInd, NEW i \in Attack, LocalTake(i)
    PROVE  LootInd'
<1>1. /\ UNCHANGED <<who, spoil, results, got, ran, malformed, req, sync, raced, faults>>
      /\ stage[i] = "read" /\ stage' = [stage EXCEPT ![i] = "took"]
      /\ bag' = [bag EXCEPT ![Victim(i)] = Left(@, spoil[i])]
  BY DEF LocalTake, hubVars, feedVars
<1>2. TypeOK /\ TypeOK'
  BY DEF QueueInv
<1>3. /\ bag \in [Player -> Nat] /\ bag' \in [Player -> Nat] /\ spoil[i] \in Nat
      /\ \A j \in Attack : Victim(j) \in Player
  BY <1>2, Inventories DEF TypeOK
<1>4. \A n \in Node : sync[n].at \notin {"idle", "drain"} => sync[n].cur # i
  BY <1>1, NotWorked
<1>5. Robs(i) /\ ~Robs(i)' /\ \A j \in Attack : Robs(j)' => Robs(j)
  BY <1>1, <1>2, <1>4 DEF Robs, TypeOK
<1>6. bag'[Victim(i)] = Left(bag[Victim(i)], spoil[i]) /\ \A p \in Player \ {Victim(i)} : bag'[p] = bag[p]
  BY <1>1, <1>3
<1>7. ASSUME faults = 0 PROVE Fit
  BY <1>7, FitIs DEF LootInd, LootInv
<1>8. faults = 0 => Fit'
  <2>. SUFFICES ASSUME faults = 0 PROVE Fit'
    OBVIOUS
  <2>1. ASSUME NEW j \in Attack, Robs(j)', Victim(j) \notin raced
        PROVE  Robs(j) /\ spoil'[j] = spoil[j] /\ bag'[Victim(j)] >= bag[Victim(j)]
    <3>1. Robs(j) /\ j # i
      BY <1>5, <2>1
    <3>2. Victim(j) # Victim(i)
      BY <1>5, <1>7, <2>1, <3>1 DEF Fit
    <3>. QED
      BY <1>1, <1>3, <1>6, <3>1, <3>2
  <2>. QED
    BY <1>1, <1>3, <1>7, <2>1, FitKept
<1>9. faults = 0 => \A j \in Attack : req'[j] # "none" /\ j \notin malformed' => Remote(j)'
  BY <1>1, RemoteSame
<1>10. InHand' = InHand + spoil[i]
  <2>1. Taken(i) = 0 /\ Taken(i)' = spoil[i]
    BY <1>1, <1>2, <1>4 DEF Taken, TypeOK
  <2>2. \A j \in Attack \ {i} : Taken(j)' = Taken(j)
    BY <1>1, <1>2 DEF Taken, TypeOK
  <2>3. InHand' = InHand + Taken(i)' - Taken(i)
    BY <1>2, <2>2, HandChanges
  <2>. QED
    BY <1>2, <1>3, <2>1, <2>3, SumsTyped
<1>11. SumFunction(bag') = SumFunction(bag) + bag'[Victim(i)] - bag[Victim(i)]
  BY <1>2, <1>3, <1>6, BagChanges
<1>12. ASSUME faults = 0, raced' \cap Player = {}
       PROVE  SumFunction(bag') + InHand' + InResults' = SumFunction(bag) + InHand + InResults
  <2>1. spoil[i] <= bag[Victim(i)]
    BY <1>1, <1>3, <1>5, <1>7, <1>12 DEF Fit
  <2>2. bag'[Victim(i)] = bag[Victim(i)] - spoil[i]
    BY <1>3, <1>6, <2>1 DEF Left
  <2>3. InResults' = InResults
    BY <1>1, FeedSame
  <2>. QED
    BY <1>2, <1>3, <1>10, <1>11, <2>2, <2>3, SumsTyped
<1>. QED
  BY <1>1, <1>8, <1>9, <1>12, FeedSame, LootSteps

LEMMA LootFights ==
    ASSUME QueueInv, QueueInv', LootInd, NEW n \in Node, NEW i \in Attack, Fight(n, i)
    PROVE  LootInd'
<1>1. /\ UNCHANGED <<stage, who, bag, results, got, ran, malformed, req, faults>>
      /\ sync[n].at = "drain" /\ i \in sync[n].todo /\ i \notin malformed
  BY DEF Fight, sessionVars, hubVars, feedVars
<1>2. TypeOK /\ TypeOK'
  BY DEF QueueInv
<1>3. Home[Victim(i)] = n /\ req[i] # "none" /\ stage[i] \notin {"read", "took"}
  BY <1>1 DEF QueueInv, DrainsAreOwn, RequestsArePosted
<1>4. \A m \in Node : sync[m].at \notin {"idle", "drain"} => sync[m].cur # i
  BY <1>1, <1>3, CurTyped
<1>5. bag[Victim(i)] \in Nat /\ spoil \in [Attack -> Nat] /\ \A j \in Attack : Victim(j) \in Player
  BY <1>2, Inventories
<1>6. raced \subseteq raced' /\ \A j \in Attack \ {i} : spoil'[j] = spoil[j]
  BY <1>5 DEF Fight, RacedAt
<1>7. ASSUME faults = 0 PROVE Fit
  BY <1>7, FitIs DEF LootInd, LootInv
<1>8. (faults = 0 => Fit') /\ \A j \in Attack : Taken(j)' = Taken(j)
  <2>1. CASE Victim(i) \in Tested
    <3>1. PICK won \in BOOLEAN, loot \in LootOf(bag[Victim(i)]) :
            spoil' = [spoil EXCEPT ![i] = IF won THEN loot ELSE 0]
      BY <2>1 DEF Fight
    <3>2. loot \in Nat /\ loot <= bag[Victim(i)]
      BY <1>5, <3>1, LootFits
    <3>3. spoil'[i] <= bag[Victim(i)]
      BY <1>5, <3>1, <3>2
    <3>4. raced' = RacedAt(Victim(i)) /\ sync' = InWork(n, i, "fought")
      BY <2>1 DEF Fight
    <3>5. sync'[n].at = "fought" /\ sync'[n].cur = i /\ \A m \in Node \ {n} : sync'[m] = sync[m]
      BY <1>2, <3>4, InWorkTyped
    <3>6. \A j \in Attack : Robs(j)' => Robs(j) \/ j = i
      BY <1>1, <3>5 DEF Robs
    <3>7. \A j \in Attack : Taken(j)' = Taken(j)
      BY <1>1, <1>3, <1>4, <1>6, <3>5 DEF Taken
    <3>. QED
      BY <1>1, <1>6, <1>7, <3>3, <3>4, <3>6, <3>7, FitListed
  <2>2. CASE Victim(i) \notin Tested
    <3>1. spoil' = [spoil EXCEPT ![i] = 0] /\ sync' = InWork(n, i, "took") /\ raced' = raced
      BY <2>2 DEF Fight
    <3>2. sync'[n].at = "took" /\ sync'[n].cur = i /\ \A m \in Node \ {n} : sync'[m] = sync[m]
      BY <1>2, <3>1, InWorkTyped
    <3>3. \A j \in Attack : Robs(j)' => Robs(j) /\ j # i
      BY <1>1, <1>3, <1>4, <3>2 DEF Robs
    <3>4. spoil'[i] = 0
      BY <1>5, <3>1
    <3>5. \A j \in Attack : Taken(j)' = Taken(j)
      <4>1. Taken(i)' = 0 /\ Taken(i) = 0
        BY <1>1, <1>3, <1>4, <3>2, <3>4 DEF Taken
      <4>2. \A j \in Attack \ {i} : Taken(j)' = Taken(j)
        BY <1>1, <1>6, <3>2 DEF Taken
      <4>. QED
        BY <4>1, <4>2
    <3>6. bag' \in [Player -> Nat] /\ \A j \in Attack : bag'[Victim(j)] >= bag[Victim(j)]
      <4>1. bag \in [Player -> Nat]
        BY <1>2 DEF TypeOK
      <4>2. \A j \in Attack : bag[Victim(j)] \in Nat
        BY <1>5, <4>1
      <4>. QED
        BY <1>1, <4>1, <4>2
    <3>7. faults = 0 => Fit'
      BY <1>1, <1>6, <1>7, <3>3, <3>6, FitKept
    <3>. QED
      BY <3>5, <3>7
  <2>. QED
    BY <2>1, <2>2
<1>9. faults = 0 => \A j \in Attack : req'[j] # "none" /\ j \notin malformed' => Remote(j)'
  BY <1>1, RemoteSame
<1>10. InHand' = InHand
  BY <1>8, HandSame
<1>. QED
  BY <1>1, <1>6, <1>8, <1>9, <1>10, FeedSame, LootSteps

LEMMA LootTakes ==
    ASSUME QueueInv, QueueInv', LootInd, NEW n \in Node, Take(n)
    PROVE  LootInd'
<1>0. PICK i : i = sync[n].cur
  OBVIOUS
<1>1. /\ UNCHANGED <<stage, who, spoil, results, got, ran, malformed, req, raced, faults>>
      /\ sync[n].at = "fought" /\ sync' = InWork(n, i, "took")
      /\ bag' = [bag EXCEPT ![Victim(i)] = Left(@, spoil[i])]
  BY <1>0 DEF Take, sessionVars, hubVars, feedVars
<1>2. TypeOK /\ TypeOK'
  BY DEF QueueInv
<1>3. /\ i \in Attack /\ stage[i] \notin {"read", "took"}
      /\ \A m \in Node : sync[m].at \notin {"idle", "drain"} /\ sync[m].cur = i => m = n
  BY <1>0, <1>1, Working
<1>4. sync'[n].at = "took" /\ sync'[n].cur = i /\ \A m \in Node \ {n} : sync'[m] = sync[m]
  BY <1>1, <1>2, <1>3, InWorkTyped
<1>5. sync[n].cur = i
  BY <1>0
<1>6. /\ bag \in [Player -> Nat] /\ bag' \in [Player -> Nat] /\ spoil[i] \in Nat
      /\ \A j \in Attack : Victim(j) \in Player
  BY <1>2, <1>3, Inventories DEF TypeOK
<1>7. Robs(i) /\ ~Robs(i)' /\ \A j \in Attack : Robs(j)' => Robs(j)
  BY <1>1, <1>3, <1>4, <1>5 DEF Robs
<1>8. bag'[Victim(i)] = Left(bag[Victim(i)], spoil[i]) /\ \A p \in Player \ {Victim(i)} : bag'[p] = bag[p]
  BY <1>1, <1>6
<1>9. ASSUME faults = 0 PROVE Fit
  BY <1>9, FitIs DEF LootInd, LootInv
<1>10. faults = 0 => Fit'
  <2>. SUFFICES ASSUME faults = 0 PROVE Fit'
    OBVIOUS
  <2>1. ASSUME NEW j \in Attack, Robs(j)', Victim(j) \notin raced
        PROVE  Robs(j) /\ spoil'[j] = spoil[j] /\ bag'[Victim(j)] >= bag[Victim(j)]
    <3>1. Robs(j) /\ j # i
      BY <1>7, <2>1
    <3>2. Victim(j) # Victim(i)
      BY <1>3, <1>7, <1>9, <2>1, <3>1 DEF Fit
    <3>. QED
      BY <1>1, <1>6, <1>8, <3>1, <3>2
  <2>. QED
    BY <1>1, <1>6, <1>9, <2>1, FitKept
<1>11. faults = 0 => \A j \in Attack : req'[j] # "none" /\ j \notin malformed' => Remote(j)'
  BY <1>1, RemoteSame
<1>12. InHand' = InHand + spoil[i]
  <2>1. Taken(i) = 0 /\ Taken(i)' = spoil[i]
    BY <1>1, <1>3, <1>4, <1>5 DEF Taken
  <2>2. \A j \in Attack \ {i} : Taken(j)' = Taken(j)
    BY <1>1, <1>3, <1>4, <1>5 DEF Taken
  <2>3. InHand' = InHand + Taken(i)' - Taken(i)
    BY <1>2, <1>3, <2>2, HandChanges
  <2>. QED
    BY <1>2, <1>6, <2>1, <2>3, SumsTyped
<1>13. SumFunction(bag') = SumFunction(bag) + bag'[Victim(i)] - bag[Victim(i)]
  BY <1>2, <1>3, <1>6, <1>8, BagChanges
<1>14. ASSUME faults = 0, raced' \cap Player = {}
       PROVE  SumFunction(bag') + InHand' + InResults' = SumFunction(bag) + InHand + InResults
  <2>1. spoil[i] <= bag[Victim(i)]
    BY <1>1, <1>3, <1>6, <1>7, <1>9, <1>14 DEF Fit
  <2>2. bag[Victim(i)] \in Nat
    BY <1>3, <1>6
  <2>3. bag'[Victim(i)] = bag[Victim(i)] - spoil[i]
    BY <1>6, <1>8, <2>1, <2>2 DEF Left
  <2>4. InResults' = InResults
    BY <1>1, FeedSame
  <2>. QED
    BY <1>2, <1>6, <1>12, <1>13, <2>2, <2>3, <2>4, SumsTyped
<1>. QED
  BY <1>1, <1>10, <1>11, <1>14, FeedSame, LootSteps

LEMMA LootEmitted ==
    ASSUME QueueInv, QueueInv', LootInd, NEW n \in Node, EmitResult(n)
    PROVE  LootInd'
<1>0. PICK i, e, x : /\ i = sync[n].cur /\ e = [attack |-> i, local |-> FALSE, loot |-> spoil[i]]
                     /\ x = Len(results[n]) + 1
  OBVIOUS
<1>1. /\ UNCHANGED <<stage, who, bag, got, ran, malformed, req, raced, faults>>
      /\ sync[n].at = "took" /\ sync' = InWork(n, i, "report")
      /\ results' = [results EXCEPT ![n] = Append(results[n], e)]
      /\ spoil' = [spoil EXCEPT ![i] = 0]
  BY <1>0 DEF EmitResult, sessionVars, hubVars
<1>2. TypeOK /\ TypeOK'
  BY DEF QueueInv
<1>3. /\ i \in Attack /\ stage[i] \notin {"read", "took"} /\ Home[Victim(i)] = n
      /\ i \notin malformed /\ req[i] # "none"
      /\ \A m \in Node : sync[m].at \notin {"idle", "drain"} /\ sync[m].cur = i => m = n
  BY <1>0, <1>1, Working
<1>4. sync'[n].at = "report" /\ sync'[n].cur = i /\ \A m \in Node \ {n} : sync'[m] = sync[m]
  BY <1>1, <1>2, <1>3, InWorkTyped
<1>5. /\ bag \in [Player -> Nat] /\ spoil \in [Attack -> Nat] /\ spoil[i] \in Nat
      /\ \A j \in Attack : Victim(j) \in Player
  BY <1>2, <1>3, Inventories
<1>6. e \in Result
  BY <1>0, <1>3, <1>5 DEF Result
<1>7. /\ Len(results'[n]) = x /\ results'[n][x] = e
      /\ \A k \in 1..Len(results[n]) : results'[n][k] = results[n][k]
      /\ \A m \in Node \ {n} : results'[m] = results[m]
  BY <1>0, <1>1, <1>2, <1>6, LogAppended
<1>8. sync[n].cur = i /\ e.attack = i /\ ~e.local /\ e.loot = spoil[i]
  BY <1>0
<1>9. \A m \in Node : Len(results[m]) \in Nat
  <2>1. \A m \in Node : results[m] \in Seq(Result)
    BY <1>2 DEF TypeOK, Result
  <2>. QED
    BY <2>1
<1>10. x = Len(results[n]) + 1 /\ x \in Nat
  BY <1>0, <1>9
<1>11. \A k, m \in Node : Seen(k, m)' = Seen(k, m) /\ Seen(k, m) \in Nat
  <2>1. \A k, m \in Node : got[k][m] \in Nat
    BY <1>2 DEF TypeOK
  <2>. QED
    BY <1>1, <2>1 DEF Seen
<1>12. ASSUME faults = 0 PROVE Remote(i) /\ Fit /\ \A k, m \in Node : Seen(k, m) <= Len(results[m])
  BY <1>3, <1>12, FitIs DEF LootInd, LootInv
<1>13. \A j \in Attack : Robs(j)' => Robs(j) /\ j # i
  BY <1>1, <1>3, <1>4, <1>8 DEF Robs
<1>14. \A j \in Attack \ {i} : spoil'[j] = spoil[j]
  BY <1>1
<1>15. faults = 0 => Fit'
  <2>1. bag' \in [Player -> Nat] /\ \A j \in Attack : bag'[Victim(j)] >= bag[Victim(j)]
    <3>1. \A j \in Attack : bag[Victim(j)] \in Nat
      BY <1>5
    <3>. QED
      BY <1>1, <1>5, <3>1
  <2>. QED
    BY <1>1, <1>12, <1>13, <1>14, <2>1, FitKept
<1>16. faults = 0 => \A j \in Attack : req'[j] # "none" /\ j \notin malformed' => Remote(j)'
  BY <1>1, RemoteSame
<1>17. faults = 0 => \A k, m \in Node : Seen(k, m)' <= Len(results'[m])
  <2>. SUFFICES ASSUME faults = 0, NEW k \in Node, NEW m \in Node PROVE Seen(k, m) <= Len(results'[m])
    BY <1>11
  <2>1. Seen(k, m) <= Len(results[m])
    BY <1>12
  <2>2. CASE m = n
    BY <1>7, <1>9, <1>10, <1>11, <2>1, <2>2
  <2>3. CASE m # n
    BY <1>7, <2>1, <2>3
  <2>. QED
    BY <2>2, <2>3
<1>18. InHand' = InHand - spoil[i]
  <2>1. Taken(i)' = 0 /\ Taken(i) = spoil[i]
    BY <1>1, <1>3, <1>4, <1>8 DEF Taken
  <2>2. \A j \in Attack \ {i} : Taken(j)' = Taken(j)
    BY <1>1, <1>4, <1>8, <1>14 DEF Taken
  <2>3. InHand' = InHand + Taken(i)' - Taken(i)
    BY <1>2, <1>3, <2>2, HandChanges
  <2>. QED
    BY <1>2, <1>5, <2>1, <2>3, SumsTyped
<1>19. ASSUME faults = 0 PROVE InResults' = InResults + spoil[i]
  <2>1. \A k \in 1..Len(results[n]) : k \in 1..Len(results'[n]) /\ results'[n][k] = results[n][k]
    BY <1>7, <1>9, <1>10
  <2>2. \A k \in 1..Len(results[n]) : Due(n, k)' <=> Due(n, k)
    <3>. TAKE k \in 1..Len(results[n])
    <3>1. results'[n][k] = results[n][k]
      BY <2>1
    <3>2. \A m : Seen(m, n)' = Seen(m, n)
      BY <1>1 DEF Seen
    <3>. QED
      BY <1>1, <3>1, <3>2 DEF Due, Attacker
  <2>3. Due(n, x)'
    <3>1. Home[Attacker(i)] # n /\ Home[Attacker(i)] \in Node
      BY <1>2, <1>3, <1>12, <1>19, PairsTyped DEF Remote
    <3>2. x > Seen(Home[Attacker(i)], n)
      BY <1>9, <1>10, <1>11, <1>12, <1>19, <3>1
    <3>3. Attacker(i)' = Attacker(i) /\ Seen(Home[Attacker(i)], n)' = Seen(Home[Attacker(i)], n)
      BY <1>1 DEF Attacker, Seen
    <3>4. ~results'[n][x].local /\ results'[n][x].attack = i
      BY <1>7, <1>8
    <3>. QED
      BY <3>1, <3>2, <3>3, <3>4 DEF Due
  <2>4. x \notin Dues(n) /\ Dues(n)' = Dues(n) \cup {x}
    <3>1. 1..Len(results'[n]) = 1..Len(results[n]) \cup {x} /\ x \notin 1..Len(results[n])
      BY <1>7, <1>9, <1>10
    <3>. QED
      BY <2>2, <2>3, <3>1 DEF Dues
  <2>5. Owed(n)' = Owed(n) + results'[n][x].loot
    BY <1>2, <1>10, <2>1, <2>4, OwedChanges
  <2>6. \A m \in Node \ {n} : Owed(m)' = Owed(m)
    BY <1>1, <1>7 DEF Owed, Due, Seen, Attacker
  <2>7. InResults' = InResults + Owed(n)' - Owed(n)
    BY <1>2, <2>6, ResultsChange
  <2>8. Owed(n) \in Int
    BY <1>2, OwedIsInt
  <2>. QED
    BY <1>2, <1>5, <1>7, <1>8, <2>5, <2>7, <2>8, SumsTyped
<1>20. faults = 0 => SumFunction(bag') + InHand' + InResults' = SumFunction(bag) + InHand + InResults
  <2>1. SumFunction(bag) \in Int /\ InHand \in Int /\ InResults \in Int
    BY <1>2, SumsTyped
  <2>. QED
    BY <1>1, <1>5, <1>18, <1>19, <2>1
<1>. QED
  BY <1>1, <1>15, <1>16, <1>17, <1>20, LootSteps

LEMMA EntriesTyped ==
    ASSUME TypeOK, NEW n \in Node, NEW k \in 1..Len(results[n])
    PROVE  /\ k \in Nat /\ results[n][k] \in Result
           /\ results[n][k].attack \in Attack /\ results[n][k].loot \in Nat
           /\ Home[Attacker(results[n][k].attack)] \in Node
<1>1. results[n] \in Seq(Result)
  BY DEF TypeOK, Result
<1>2. k \in Nat /\ results[n][k] \in Result
  BY <1>1
<1>3. results[n][k].attack \in Attack /\ results[n][k].loot \in Nat
  BY <1>2 DEF Result
<1>. QED
  BY <1>2, <1>3, PairsTyped

LEMMA LootHandled ==
    ASSUME QueueInv, QueueInv', LootInd, NEW m \in Node, NEW n \in Node, HandlerRuns(m, n)
    PROVE  LootInd'
<1>0. PICK e, i, x : x = got[m][n] + 1 /\ e = results[n][x] /\ i = e.attack
  OBVIOUS
<1>1. /\ UNCHANGED <<stage, who, spoil, results, malformed, req, sync, raced, faults>>
      /\ m # n /\ got[m][n] < Len(results[n]) /\ ~ran[m][n]
  BY DEF HandlerRuns, HandlerDue, sessionVars, hubVars
<1>2. TypeOK /\ TypeOK'
  BY DEF QueueInv
<1>3. /\ got \in [Node -> [Node -> Nat]] /\ ran \in [Node -> [Node -> BOOLEAN]]
      /\ bag \in [Player -> Nat] /\ results[n] \in Seq(Result)
  BY <1>2 DEF TypeOK, Result
<1>4. Len(results[n]) \in Nat /\ got[m][n] \in Nat
  BY <1>3
<1>5. x \in 1..Len(results[n])
  BY <1>0, <1>1, <1>4
<1>6. e \in Result /\ i \in Attack /\ e.loot \in Nat
  BY <1>0, <1>2, <1>5, EntriesTyped
<1>7. Seen(m, n) = x - 1 /\ Seen(m, n)' = x /\ x \in Nat
      /\ \A k, l \in Node : (k # m \/ l # n) => Seen(k, l)' = Seen(k, l)
  <2>1. CASE Mine(m, e)
    <3>1. ran' = [ran EXCEPT ![m][n] = TRUE] /\ got' = got
      BY <1>0, <2>1 DEF HandlerRuns
    <3>2. ran'[m][n] /\ \A k, l \in Node : (k # m \/ l # n) => ran'[k][l] = ran[k][l]
      BY <1>3, <3>1
    <3>. QED
      BY <1>0, <1>1, <1>4, <3>1, <3>2 DEF Seen
  <2>2. CASE ~Mine(m, e)
    <3>1. got' = [got EXCEPT ![m][n] = @ + 1] /\ ran' = ran
      BY <1>0, <2>2 DEF HandlerRuns
    <3>2. got'[m][n] = x /\ \A k, l \in Node : (k # m \/ l # n) => got'[k][l] = got[k][l]
      BY <1>0, <1>3, <3>1
    <3>. QED
      BY <1>0, <1>1, <1>4, <3>1, <3>2 DEF Seen
  <2>. QED
    BY <2>1, <2>2
<1>8. \A j \in Attack : Robs(j)' <=> Robs(j)
  BY <1>1 DEF Robs
<1>9. InHand' = InHand
  BY <1>1 DEF InHand, Taken
<1>10. faults = 0 => \A j \in Attack : req'[j] # "none" /\ j \notin malformed' => Remote(j)'
  BY <1>1, RemoteSame
<1>11. faults = 0 => \A k, l \in Node : Seen(k, l)' <= Len(results'[l])
  <2>. SUFFICES ASSUME faults = 0, NEW k \in Node, NEW l \in Node PROVE Seen(k, l)' <= Len(results[l])
    BY <1>1
  <2>1. CASE k = m /\ l = n
    BY <1>4, <1>5, <1>7, <2>1
  <2>2. CASE k # m \/ l # n
    BY <1>7, <2>2 DEF LootInd, LootInv
  <2>. QED
    BY <2>1, <2>2
<1>12. \A l \in Node \ {n} : Owed(l)' = Owed(l)
  <2>. TAKE l \in Node \ {n}
  <2>1. ASSUME NEW k \in 1..Len(results[l]) PROVE Due(l, k)' <=> Due(l, k)
    <3>1. Home[Attacker(results[l][k].attack)] \in Node
      BY <1>2, EntriesTyped
    <3>. QED
      BY <1>1, <1>7, <3>1 DEF Due, Attacker
  <2>2. Dues(l)' = Dues(l)
    BY <1>1, <2>1 DEF Dues
  <2>. QED
    BY <1>1, <1>2, <2>2, OwedSame
<1>13. \A k \in 1..Len(results[n]) : Due(n, k)' <=> Due(n, k) /\ ~(k = x /\ Mine(m, e))
  <2>. TAKE k \in 1..Len(results[n])
  <2>0. PICK r, h : r = results[n][k] /\ h = Home[Attacker(r.attack)]
    OBVIOUS
  <2>1. k \in Nat /\ h \in Node
    BY <1>2, <2>0, EntriesTyped
  <2>2. Due(n, k) <=> ~r.local /\ h # n /\ k > Seen(h, n)
    BY <2>0 DEF Due
  <2>3. Due(n, k)' <=> ~r.local /\ h # n /\ k > Seen(h, n)'
    BY <1>1, <2>0 DEF Due, Attacker, Seen
  <2>4. k = x => (Mine(m, e) <=> ~r.local /\ h = m)
    BY <1>0, <2>0 DEF Mine
  <2>5. CASE h = m
    <3>1. Seen(h, n) = x - 1 /\ Seen(h, n)' = x
      BY <1>7, <2>5
    <3>2. k > x <=> k > x - 1 /\ k # x
      BY <1>7, <2>1
    <3>. QED
      BY <1>1, <2>2, <2>3, <2>4, <2>5, <3>1, <3>2
  <2>6. CASE h # m
    <3>1. Seen(h, n)' = Seen(h, n)
      BY <1>7, <2>1, <2>6
    <3>. QED
      BY <2>2, <2>3, <2>4, <2>6, <3>1
  <2>. QED
    BY <2>5, <2>6
<1>14. \A k \in 1..Len(results[n]) : k \in 1..Len(results'[n]) /\ results'[n][k] = results[n][k]
  BY <1>1
<1>15. SumFunction(bag) \in Int /\ InResults \in Int
  BY <1>2, SumsTyped
<1>16. Owed(n) \in Int
  BY <1>2, OwedIsInt
<1>17. InResults' = InResults + Owed(n)' - Owed(n)
  BY <1>2, <1>12, ResultsChange
<1>18. /\ SumFunction(bag') + InResults' = SumFunction(bag) + InResults
       /\ \A p \in Player : bag'[p] >= bag[p]
  <2>1. CASE Mine(m, e)
    <3>1. bag' = [bag EXCEPT ![Attacker(i)] = @ + e.loot]
      BY <1>0, <2>1 DEF HandlerRuns, Credit
    <3>2. Attacker(i) \in Player
      BY <1>2, <1>6, PairsTyped
    <3>3. bag'[Attacker(i)] = bag[Attacker(i)] + e.loot /\ \A q \in Player \ {Attacker(i)} : bag'[q] = bag[q]
      BY <1>3, <3>1, <3>2
    <3>4. SumFunction(bag') = SumFunction(bag) + bag'[Attacker(i)] - bag[Attacker(i)]
      BY <1>2, <3>2, <3>3, BagChanges
    <3>5. x \in Dues(n)
      <4>1. ~results[n][x].local /\ Home[Attacker(results[n][x].attack)] = m
        BY <1>0, <2>1 DEF Mine
      <4>2. Due(n, x)
        BY <1>1, <1>7, <4>1 DEF Due
      <4>. QED
        BY <1>5, <4>2 DEF Dues
    <3>6. Dues(n)' = Dues(n) \ {x}
      BY <1>1, <1>13, <2>1 DEF Dues
    <3>7. Owed(n)' = Owed(n) - results[n][x].loot
      BY <1>2, <1>7, <1>14, <3>5, <3>6, OwedChanges
    <3>8. bag[Attacker(i)] \in Nat /\ \A p \in Player : bag[p] \in Nat
      BY <1>3, <3>2
    <3>9. \A p \in Player : bag'[p] >= bag[p]
      BY <1>6, <3>2, <3>3, <3>8
    <3>10. SumFunction(bag') = SumFunction(bag) + e.loot
      BY <1>6, <1>15, <3>3, <3>4, <3>8
    <3>11. InResults' = InResults - e.loot
      BY <1>0, <1>6, <1>15, <1>16, <1>17, <3>7
    <3>. QED
      BY <1>6, <1>15, <3>9, <3>10, <3>11
  <2>2. CASE ~Mine(m, e)
    <3>1. bag' = bag
      BY <1>0, <2>2 DEF HandlerRuns
    <3>2. Dues(n)' = Dues(n)
      BY <1>1, <1>13, <2>2 DEF Dues
    <3>3. Owed(n)' = Owed(n)
      BY <1>2, <1>14, <3>2, OwedSame
    <3>4. \A p \in Player : bag[p] \in Nat
      BY <1>3
    <3>. QED
      BY <1>15, <1>16, <1>17, <3>1, <3>3, <3>4
  <2>. QED
    BY <2>1, <2>2
<1>19. faults = 0 => Fit'
  <2>1. faults = 0 => Fit
    BY FitIs DEF LootInd, LootInv
  <2>2. bag' \in [Player -> Nat] /\ \A j \in Attack : Victim(j) \in Player
    BY <1>2, Inventories DEF TypeOK
  <2>. QED
    BY <1>1, <1>8, <1>18, <2>1, <2>2, FitKept
<1>20. InHand \in Int /\ InResults' \in Int /\ SumFunction(bag') \in Int
  BY <1>2, SumsTyped
<1>21. SumFunction(bag') + InHand' + InResults' = SumFunction(bag) + InHand + InResults
  BY <1>9, <1>15, <1>18, <1>20
<1>. QED
  BY <1>1, <1>10, <1>11, <1>19, <1>21, LootSteps

LEMMA LootMarked ==
    ASSUME QueueInv, QueueInv', LootInd, NEW m \in Node, NEW n \in Node, HandlerMarked(m, n)
    PROVE  LootInd'
<1>1. /\ UNCHANGED <<stage, who, bag, spoil, results, malformed, req, sync, raced, faults>>
      /\ ran[m][n] /\ ran' = [ran EXCEPT ![m][n] = FALSE] /\ got' = [got EXCEPT ![m][n] = @ + 1]
  BY DEF HandlerMarked, sessionVars, hubVars
<1>2. TypeOK /\ TypeOK'
  BY DEF QueueInv
<1>3. \A k, l \in Node : Seen(k, l)' = Seen(k, l)
  <2>1. got \in [Node -> [Node -> Nat]] /\ ran \in [Node -> [Node -> BOOLEAN]]
    BY <1>2 DEF TypeOK
  <2>. QED
    BY <1>1, <2>1 DEF Seen
<1>4. \A l \in Node : Owed(l)' = Owed(l)
  <2>. TAKE l \in Node
  <2>1. ASSUME NEW k \in 1..Len(results[l]) PROVE Due(l, k)' <=> Due(l, k)
    <3>1. Home[Attacker(results[l][k].attack)] \in Node
      BY <1>2, EntriesTyped
    <3>. QED
      BY <1>1, <1>3, <3>1 DEF Due, Attacker
  <2>2. Dues(l)' = Dues(l)
    BY <1>1, <2>1 DEF Dues
  <2>. QED
    BY <1>1, <1>2, <2>2, OwedSame
<1>5. InResults' = InResults
  BY <1>4, ResultsSame
<1>6. InHand' = InHand
  BY <1>1 DEF InHand, Taken
<1>7. faults = 0 => \A k, l \in Node : Seen(k, l)' <= Len(results'[l])
  BY <1>1, <1>3 DEF LootInd, LootInv
<1>8. faults = 0 => \A j \in Attack : req'[j] # "none" /\ j \notin malformed' => Remote(j)'
  BY <1>1, RemoteSame
<1>9. faults = 0 => Fit'
  <2>1. faults = 0 => Fit
    BY FitIs DEF LootInd, LootInv
  <2>2. \A j \in Attack : (Robs(j)' <=> Robs(j)) /\ Victim(j)' = Victim(j)
    BY <1>1 DEF Robs, Victim
  <2>. QED
    BY <1>1, <2>1, <2>2 DEF Fit
<1>. QED
  BY <1>1, <1>5, <1>6, <1>7, <1>8, <1>9, LootSteps

LEMMA LootFault ==
    ASSUME TypeOK, Fault
    PROVE  LootInd'
<1>1. faults' # 0
  BY Numbers DEF TypeOK, Fault
<1>. QED
  BY <1>1 DEF LootInd, LootInv, GoodsConserved

LEMMA LootInit == Init => LootInd
<1>. SUFFICES ASSUME Init PROVE LootInd
  OBVIOUS
<1>1. QueueInv /\ TypeOK
  BY QueueInit DEF QueueInv
<1>2. \A i \in Attack : ~Robs(i) /\ Taken(i) = 0
  BY DEF Init, Idle, Robs, Taken
<1>3. Fit
  BY <1>2 DEF Fit
<1>4. \A m, n \in Node : Seen(m, n) = 0 /\ Len(results[n]) = 0
  BY DEF Init, Seen
<1>5. LootInv
  <2>1. \A i \in Attack : req[i] # "none" => i \in malformed
    BY DEF Init
  <2>2. \A v \in Player \ raced : SpoilFits(v)
    BY <1>1, <1>3, FitIs
  <2>3. \A m, n \in Node : Seen(m, n) <= Len(results[n])
    BY <1>4
  <2>. QED
    BY <2>1, <2>2, <2>3 DEF LootInv
<1>6. SumFunction(bag) = Carried * Cardinality(Player)
  <2>1. bag = [p \in Player |-> Carried]
    BY DEF Init
  <2>2. SumFunction(bag) = SumFunctionOnSet(bag, Player)
    BY <2>1 DEF SumFunction
  <2>3. \A p \in Player : bag[p] = Carried
    BY <2>1
  <2>4. Carried \in Int
    BY Numbers
  <2>. QED
    BY <2>2, <2>3, <2>4, FiniteAssumption, SumOfEqual
<1>7. ASSUME NEW S, IsFiniteSet(S), NEW f, DOMAIN f = S, \A x \in S : f[x] = 0 PROVE SumFunction(f) = 0
  <2>1. SumFunctionOnSet(f, S) = 0 * Cardinality(S)
    BY <1>7, SumOfEqual
  <2>2. Cardinality(S) \in Nat
    BY <1>7, FS_CardinalityType
  <2>. QED
    BY <1>7, <2>1, <2>2 DEF SumFunction
<1>8. InHand = 0
  <2>1. PICK f : f = [i \in Attack |-> Taken(i)]
    OBVIOUS
  <2>2. DOMAIN f = Attack /\ \A i \in Attack : f[i] = 0
    BY <1>2, <2>1
  <2>. QED
    BY <1>7, <2>1, <2>2, AttacksAreFinite DEF InHand
<1>9. InResults = 0
  <2>1. PICK f : f = [n \in Node |-> Owed(n)]
    OBVIOUS
  <2>2. \A n \in Node : Owed(n) = 0
    <3>. TAKE n \in Node
    <3>1. PICK f1, D : f1 = Loot(results[n]) /\ D = Dues(n)
      OBVIOUS
    <3>2. D = {}
      BY <1>4, <3>1 DEF Dues
    <3>3. Owed(n) = SumFunctionOnSet(f1, D)
      BY <1>1, <3>1, OwedIs
    <3>4. IsFiniteSet(D) /\ Cardinality(D) = 0 /\ \A x \in D : f1[x] = 0
      BY <3>2, FS_EmptySet
    <3>5. SumFunctionOnSet(f1, D) = 0 * Cardinality(D)
      BY <3>4, SumOfEqual
    <3>. QED
      BY <3>3, <3>4, <3>5
  <2>3. DOMAIN f = Node /\ \A n \in Node : f[n] = 0
    BY <2>1, <2>2
  <2>. QED
    BY <1>7, <2>1, <2>3, FiniteAssumption DEF InResults
<1>10. GoodsConserved
  <2>1. SumFunction(bag) \in Int
    BY <1>1, SumsTyped
  <2>2. InTransit = 0
    BY <1>8, <1>9 DEF InTransit, InHand, InResults
  <2>. QED
    BY <1>6, <2>1, <2>2 DEF GoodsConserved
<1>. QED
  BY <1>5, <1>10 DEF LootInd

LEMMA LootNext == QueueInv /\ LootInd /\ [Next]_vars => LootInd'
<1>. SUFFICES ASSUME QueueInv, LootInd, [Next]_vars PROVE LootInd'
  OBVIOUS
<1>1. QueueInv'
  BY QueueNext
<1>2. CASE UNCHANGED vars \/ NextDay
  BY <1>1, <1>2, LootQuiet
<1>3. ASSUME NEW i \in Attack, SessionStep(i) PROVE LootInd'
  BY <1>1, <1>3, LootQuiet, LootLocal, LootWins, LootTaken DEF SessionStep
<1>4. ASSUME NEW i \in Attack, HubQueues(i) \/ HubRefuses(i) \/ HubCompletesLate(i) \/ QueueRetry(i)
      PROVE  LootInd'
  BY <1>1, <1>4, LootQuiet
<1>5. ASSUME NEW n \in Node, Drain(n) PROVE LootInd'
  BY <1>1, <1>5, LootDrains, LootTakes, LootEmitted, LootFights DEF Drain
<1>6. ASSUME Fault PROVE LootInd'
  BY <1>6, LootFault DEF QueueInv
<1>7. ASSUME NEW i \in Attack, PostGivesUp(i) PROVE LootInd'
  BY <1>6, <1>7 DEF PostGivesUp
<1>8. ASSUME NEW n \in Node, EmitFails(n) \/ CompleteFails(n) \/ Crash(n) PROVE LootInd'
  BY <1>6, <1>8 DEF EmitFails, CompleteFails, Crash
<1>9. ASSUME NEW i \in Attack, NEW a \in Player, NEW v \in Player, Pick(i, a, v) PROVE LootInd'
  BY <1>1, <1>9, LootPick
<1>11. ASSUME NEW m \in Node, NEW n \in Node, HandlerFails(m, n) PROVE LootInd'
  BY <1>6, <1>11 DEF HandlerFails
<1>10. ASSUME NEW m \in Node, NEW n \in Node, HandlerRuns(m, n) \/ HandlerMarked(m, n) PROVE LootInd'
  BY <1>1, <1>10, LootHandled, LootMarked
<1>. QED
  BY <1>2, <1>3, <1>4, <1>5, <1>7, <1>8, <1>9, <1>10, <1>11 DEF Next, Settle

\* Loot is neither made nor lost: without failures, and as long as no victim is
\* robbed by two fights at once, what left a victim reaches the attacker exactly
\* once, over the queue, the event and the handler.
THEOREM LootIsConserved == Spec => []GoodsConserved
<1>1. QueueInv /\ LootInd => GoodsConserved
  BY DEF LootInd
<1>. QED
  BY <1>1, QueueInit, QueueNext, LootInit, LootNext, PTL DEF Spec

=============================================================================
