-------------------------------- MODULE PvP --------------------------------
(***************************************************************************)
(* Attacks on sleeping players (game/module.go).  An attack on a player of *)
(* the same node is fought by the attacker's session.  An attack on a      *)
(* player of another node is queued at the hub (hub/server.go              *)
(* handlePvPQueue), fought by the victim node's Syncer (Syncer.Tick,       *)
(* IncomingPvP), and its result comes back as a pvp.resolved event whose   *)
(* handler credits the loot.  The event feed itself is modelled in         *)
(* EventSync: here it delivers each node's events in order.                *)
(*                                                                         *)
(* Attack i is the i-th time a player picks a victim; it is also the       *)
(* hub's request id.  Goods are of one kind, so an inventory is a number.  *)
(* A step is one RPC or one group of statements whose interleaving no      *)
(* other actor can observe; two sessions of one player, the Syncers and    *)
(* the hub interleave everywhere else.                                     *)
(***************************************************************************)
EXTENDS Integers, Sequences, FiniteSets, Functions

CONSTANTS
    Node, Player,
    Home,          \* Home[p]: the node p's global id begins with
    Quarry,        \* Quarry[i]: attacker and victim of attack i, one of these
                   \* pairs, whom level and blooded flag do not keep apart
    Tested,        \* players that have a character row
    MaxAttacks,    \* bound: attacks tried
    VictimCap,     \* attacks on one player per day (3)
    MaxFaults,     \* bound: crashes, lost or late answers, failed statements
    Carried,       \* goods every player carries at the start
    Legacy         \* cross-node requests that may be left from before the hub validated payloads

Attack == 1..MaxAttacks

ASSUME PlayersAssumption ==
    /\ Home \in [Player -> Node]
    /\ Quarry \in [Attack -> SUBSET (Player \X Player)]
    /\ \A i \in Attack : Quarry[i] # {} /\ \A w \in Quarry[i] : w[1] # w[2]
    /\ Tested \subseteq Player
    /\ Legacy \subseteq Attack

ASSUME BoundsAssumption ==
    /\ MaxAttacks \in Nat /\ MaxFaults \in Nat
    /\ VictimCap \in Nat /\ Carried \in Nat

ASSUME FiniteAssumption == IsFiniteSet(Node) /\ IsFiniteSet(Player)

VARIABLES
    stage,     \* stage[i]: where the session that makes attack i stands
    who,       \* who[i]: attacker and victim
    bag,       \* bag[p]: goods in p's inventory at home
    row,       \* row[i]: the pvp_log row at the attacker's home ("none": no row)
    age,       \* age[i]: today minus its day_index; 2 stands for two or more
    hits,      \* hits[p]: pvp_log rows on p with today's day_index at p's home
    req,       \* req[i]: the hub's pvp_requests row, or where the POST is
    malformed, \* the requests left from then; never changes
    late,      \* CompletePvP requests whose Syncer gave up on them
    sync,      \* sync[n]: the PvP drain of n's Tick
    spoil,     \* spoil[i]: goods that the fight of i took or is about to take
    results,   \* results[n]: pvp.resolved events in n's log
    got,       \* got[m][n]: events of n that m has applied and marked
    ran,       \* ran[m][n]: the handler ran on the next one, not yet marked
    credits,   \* history: how often the handler credited attack i
    unpaid,    \* history: attacks whose handler ran, but could not add the goods
    raced,     \* history: attacks checked, and victims robbed, while another was under way
    faults

sessionVars == <<stage, who>>
hubVars     == <<req, late, malformed>>
feedVars    == <<results, got, ran, credits, unpaid>>
vars == <<stage, who, bag, row, age, hits, req, late, malformed, sync,
          spoil, results, got, ran, credits, unpaid, raced, faults>>

Stages == {"none", "checked", "spent", "sent", "read", "took", "done"}

Attacker(i) == who[i][1]
Victim(i)   == who[i][2]
Remote(i)   == Home[Victim(i)] # Home[Attacker(i)]

\* The drain of one Tick: the fetched requests, the one in work, and its step.
Idle == [at |-> "idle", todo |-> {}, cur |-> 0]

Init ==
    /\ malformed \in SUBSET Legacy
    /\ stage = [i \in Attack |-> IF i \in malformed THEN "done" ELSE "none"]
    /\ who = [i \in Attack |-> CHOOSE w \in Quarry[i] : TRUE]
    /\ bag = [p \in Player |-> Carried]
    /\ row = [i \in Attack |-> "none"]
    /\ age = [i \in Attack |-> 0]
    /\ hits = [p \in Player |-> 0]
    /\ req = [i \in Attack |-> IF i \in malformed THEN "pending" ELSE "none"]
    /\ late = {}
    /\ sync = [n \in Node |-> Idle]
    /\ spoil = [i \in Attack |-> 0]
    /\ results = [n \in Node |-> << >>]
    /\ got = [m \in Node |-> [n \in Node |-> 0]]
    /\ ran = [m \in Node |-> [n \in Node |-> FALSE]]
    /\ credits = [i \in Attack |-> 0]
    /\ unpaid = {}
    /\ raced = {}
    /\ faults = 0

Fault == faults < MaxFaults /\ faults' = faults + 1

-----------------------------------------------------------------------------
(* The attacker's session. *)

\* serverDay grows by one: every row is a day older.
NextDay ==
    /\ age' = [i \in Attack |-> IF row[i] # "none" /\ age[i] < 2 THEN age[i] + 1 ELSE age[i]]
    /\ hits' = [p \in Player |-> 0]
    /\ UNCHANGED <<sessionVars, bag, row, hubVars, sync, spoil, feedVars, raced, faults>>

\* Attacks of a on v that the pvp_log of a's home records.
Logged(a, v) == {i \in Attack : row[i] # "none" /\ who[i] = <<a, v>>}

\* Mutant: the cooldown ends on the next day.
CanAttackNextDay(a, v) ==
    /\ \A i \in Logged(a, v) : age[i] >= 1
    /\ Home[v] = Home[a] => v \in Tested /\ hits[v] < VictimCap

\* canAttackVictim, below the level floor: a day's rest between two attacks on the
\* same victim, and for a victim of this node a character and the cap of
\* VictimCap attacks a day.
CanAttack(a, v) ==
    /\ \A i \in Logged(a, v) : age[i] >= 2
    /\ Home[v] = Home[a] => v \in Tested /\ hits[v] < VictimCap

\* Sessions of a that are past the check of an attack and not done with it.
UnderWay(a) == {i \in Attack : stage[i] \notin {"none", "done"} /\ Attacker(i) = a}

\* attackMenu: the player picks v and the check passes.
Pick(i, a, v) ==
    /\ stage[i] = "none"
    /\ <<a, v>> \in Quarry[i]
    /\ CanAttack(a, v)
    /\ stage' = [stage EXCEPT ![i] = "checked"]
    /\ who' = [who EXCEPT ![i] = <<a, v>>]
    /\ raced' = IF UnderWay(a) = {} THEN raced ELSE raced \cup UnderWay(a) \cup {i}
    /\ UNCHANGED <<bag, row, age, hits, hubVars, sync, spoil,
                   feedVars, faults>>

\* SpendAttack: the budget, which Character models, has an attack left or not.
SpendAttack(i) ==
    /\ stage[i] = "checked"
    /\ \E left \in BOOLEAN : stage' = [stage EXCEPT ![i] = IF left THEN "spent" ELSE "done"]
    /\ UNCHANGED <<who, bag, row, age, hits, hubVars, sync, spoil, feedVars,
                   raced, faults>>

\* resolvePvPRemote posts the attack and waits.
PostAttack(i) ==
    /\ stage[i] = "spent"
    /\ Remote(i)
    /\ stage' = [stage EXCEPT ![i] = "sent"]
    /\ req' = [req EXCEPT ![i] = "posted"]
    /\ UNCHANGED <<who, bag, row, age, hits, late, malformed, sync, spoil,
                   feedVars, raced, faults>>

\* The answer arrives.  A refusal ends the attack; otherwise the session
\* inserts the 'pending' row, dated now.
PostAnswered(i) ==
    /\ stage[i] = "sent"
    /\ req[i] # "posted"
    /\ stage' = [stage EXCEPT ![i] = "done"]
    /\ IF req[i] = "refused"
       THEN UNCHANGED <<row, age>>
       ELSE /\ row' = [row EXCEPT ![i] = "pending"]
            /\ age' = [age EXCEPT ![i] = 0]
    /\ UNCHANGED <<who, bag, hits, hubVars, sync, spoil, feedVars,
                   raced, faults>>

\* The POST fails on the client's side; the hub may never see it, or serve it later.
PostGivesUp(i) ==
    /\ stage[i] = "sent"
    /\ Fault
    /\ stage' = [stage EXCEPT ![i] = "done"]
    /\ UNCHANGED <<who, bag, row, age, hits, hubVars, sync,
                   spoil, feedVars, raced>>

-----------------------------------------------------------------------------
(* Loot. *)

\* stealLoot of q goods: a fraction in [1/4, 1/2), rounded, and at least one
\* good when there is any.
LootOf(q) ==
    IF q = 0 THEN {0}
    ELSE LET atLeastOne(n) == IF n = 0 THEN 1 ELSE n
         IN  atLeastOne((q + 2) \div 4) .. atLeastOne(q \div 2)

\* The UPDATE, then the DELETE of rows that are not positive.
Left(q, n) == IF q > n THEN q - n ELSE 0

\* Fights between reading v's goods and taking from them.
Robbing(v) ==
    {i \in Attack : stage[i] = "read" /\ Victim(i) = v}
        \cup {sync[n].cur : n \in {m \in Node : sync[m].at = "fought" /\ Victim(sync[m].cur) = v}}

RacedAt(v) == IF Robbing(v) = {} THEN raced ELSE raced \cup {v}

-----------------------------------------------------------------------------
(* resolvePvP: a fight on the attacker's own node. *)

\* What the end of resolvePvP records: the pvp_log row and the local event.
LocalRecord(i) ==
    /\ stage' = [stage EXCEPT ![i] = "done"]
    /\ row' = [row EXCEPT ![i] = "settled"]
    /\ age' = [age EXCEPT ![i] = 0]
    /\ hits' = [hits EXCEPT ![Victim(i)] = @ + 1]
    /\ results' = [results EXCEPT ![Home[Victim(i)]] =
         Append(@, [attack |-> i, local |-> TRUE, loot |-> spoil[i]])]
    /\ spoil' = [spoil EXCEPT ![i] = 0]

\* The bout is lost.
LocalLose(i) ==
    /\ stage[i] = "spent"
    /\ ~Remote(i)
    /\ LocalRecord(i)
    /\ UNCHANGED <<who, bag, hubVars, sync, got, ran, credits, unpaid,
                   raced, faults>>

\* The bout is won; stealLoot lists the goods and decides what to take ...
LocalWin(i) ==
    /\ stage[i] = "spent"
    /\ ~Remote(i)
    /\ \E n \in LootOf(bag[Victim(i)]) : spoil' = [spoil EXCEPT ![i] = n]
    /\ raced' = RacedAt(Victim(i))
    /\ stage' = [stage EXCEPT ![i] = "read"]
    /\ UNCHANGED <<who, bag, row, age, hits, hubVars, sync,
                   feedVars, faults>>

\* ... takes it from the victim ...
LocalTake(i) ==
    /\ stage[i] = "read"
    /\ bag' = [bag EXCEPT ![Victim(i)] = Left(@, spoil[i])]
    /\ stage' = [stage EXCEPT ![i] = "took"]
    /\ UNCHANGED <<who, row, age, hits, hubVars, sync, spoil,
                   feedVars, raced, faults>>

\* ... and transferLoot adds it to the attacker.
LocalGive(i) ==
    /\ stage[i] = "took"
    /\ bag' = [bag EXCEPT ![Attacker(i)] = @ + spoil[i]]
    /\ LocalRecord(i)
    /\ UNCHANGED <<who, hubVars, sync, got, ran, credits, unpaid,
                   raced, faults>>

-----------------------------------------------------------------------------
(* The hub's queue. *)

\* handlePvPQueue commits the request, whether or not the client still waits.
HubQueues(i) ==
    /\ req[i] = "posted"
    /\ req' = [req EXCEPT ![i] = "pending"]
    /\ UNCHANGED <<sessionVars, bag, row, age, hits, late, malformed, sync, spoil, feedVars,
                   raced, faults>>

\* Victim's node unknown, suspended or of another game; the attacker is a
\* visitor here; or the INSERT fails.
HubRefuses(i) ==
    /\ req[i] = "posted"
    /\ req' = [req EXCEPT ![i] = "refused"]
    /\ UNCHANGED <<sessionVars, bag, row, age, hits, late, malformed, sync, spoil, feedVars,
                   raced, faults>>

\* CompletePvP and BlockPvP change a request that is still pending, and
\* answer 404 otherwise.
Settled(i, status) == [req EXCEPT ![i] = IF @ = "pending" THEN status ELSE @]

\* A CompletePvP whose Syncer gave up is served after all.
HubCompletesLate(i) ==
    /\ i \in late
    /\ late' = late \ {i}
    /\ req' = Settled(i, "resolved")
    /\ UNCHANGED <<sessionVars, bag, row, age, hits, malformed, sync, spoil, feedVars,
                   raced, faults>>

\* hubadmin queue-retry pvp.
QueueRetry(i) ==
    /\ req[i] = "blocked"
    /\ req' = [req EXCEPT ![i] = "pending"]
    /\ UNCHANGED <<sessionVars, bag, row, age, hits, late, malformed, sync, spoil, feedVars,
                   raced, faults>>

-----------------------------------------------------------------------------
(* The drain in the victim node's Tick. *)

\* PendingPvP answers the requests on this node's players.
Fetch(n) ==
    /\ sync[n].at = "idle"
    /\ LET pending == {i \in Attack : req[i] = "pending" /\ Home[Victim(i)] = n}
       IN  /\ pending # {}
           /\ sync' = [sync EXCEPT ![n] = [at |-> "drain", todo |-> pending, cur |-> 0]]
    /\ UNCHANGED <<sessionVars, bag, row, age, hits, hubVars, spoil, feedVars, raced, faults>>

\* The loop goes on to the next request, and ends the Tick after the last.
Rest(n, i) ==
    IF sync[n].todo = {i} THEN Idle
    ELSE [at |-> "drain", todo |-> sync[n].todo \ {i}, cur |-> 0]

\* Mutant: a malformed request ends the Tick with an error.
BlockMalformedStops(n, i) ==
    /\ sync[n].at = "drain"
    /\ i \in sync[n].todo \cap malformed
    /\ sync' = [sync EXCEPT ![n] = Idle]
    /\ UNCHANGED <<sessionVars, bag, row, age, hits, hubVars, spoil, feedVars, raced, faults>>

\* A payload that is no JSON object is blocked at the hub, not fought.
BlockMalformed(n, i) ==
    /\ sync[n].at = "drain"
    /\ i \in sync[n].todo \cap malformed
    /\ req' = Settled(i, "blocked")
    /\ sync' = [sync EXCEPT ![n] = Rest(n, i)]
    /\ UNCHANGED <<sessionVars, bag, row, age, hits, late, malformed, spoil, feedVars, raced, faults>>

InWork(n, i, where) == [sync EXCEPT ![n] = [@ EXCEPT !.at = where, !.cur = i]]

\* IncomingPvP: the fight against the stored victim; a win lists the goods.
\* A victim without a character row wins.
Fight(n, i) ==
    /\ sync[n].at = "drain"
    /\ i \in sync[n].todo \ malformed
    /\ IF Victim(i) \in Tested
       THEN /\ \E won \in BOOLEAN : \E loot \in LootOf(bag[Victim(i)]) :
                 spoil' = [spoil EXCEPT ![i] = IF won THEN loot ELSE 0]
            /\ sync' = InWork(n, i, "fought")
            /\ raced' = RacedAt(Victim(i))
       ELSE /\ spoil' = [spoil EXCEPT ![i] = 0]
            /\ sync' = InWork(n, i, "took")
            /\ UNCHANGED raced
    /\ UNCHANGED <<sessionVars, bag, row, age, hits, hubVars, feedVars, faults>>

\* The goods leave the victim and the victim's inbox gets its row.
Take(n) ==
    /\ sync[n].at = "fought"
    /\ LET i == sync[n].cur IN
         /\ bag' = [bag EXCEPT ![Victim(i)] = Left(@, spoil[i])]
         /\ hits' = [hits EXCEPT ![Victim(i)] = @ + 1]
         /\ sync' = InWork(n, i, "took")
    /\ UNCHANGED <<sessionVars, row, age, hubVars, spoil, feedVars, raced, faults>>

\* Emit("pvp.resolved").
EmitResult(n) ==
    /\ sync[n].at = "took"
    /\ LET i == sync[n].cur IN
         /\ results' = [results EXCEPT ![n] =
              Append(@, [attack |-> i, local |-> FALSE, loot |-> spoil[i]])]
         /\ spoil' = [spoil EXCEPT ![i] = 0]
         /\ sync' = InWork(n, i, "report")
    /\ UNCHANGED <<sessionVars, bag, row, age, hits, hubVars, got, ran,
                   credits, unpaid, raced, faults>>

\* Mutant: the drain reports the request although IncomingPvP failed.
EmitFailsReporting(n) ==
    /\ sync[n].at = "took"
    /\ Fault
    /\ sync' = InWork(n, sync[n].cur, "report")
    /\ UNCHANGED <<sessionVars, bag, row, age, hits, hubVars, spoil, feedVars, raced>>

\* Emit fails: IncomingPvP returns the error and the request stays pending.
EmitFails(n) ==
    /\ sync[n].at = "took"
    /\ Fault
    /\ sync' = [sync EXCEPT ![n] = Rest(n, sync[n].cur)]
    /\ UNCHANGED <<sessionVars, bag, row, age, hits, hubVars, spoil, feedVars, raced>>

\* Mutant: the hub answers but leaves the row pending.
CompleteNothing(n) ==
    /\ sync[n].at = "report"
    /\ sync' = [sync EXCEPT ![n] = Rest(n, sync[n].cur)]
    /\ UNCHANGED <<sessionVars, bag, row, age, hits, hubVars, spoil, feedVars, raced, faults>>

\* CompletePvP; that its answer is lost makes no difference to the drain.
Complete(n) ==
    /\ sync[n].at = "report"
    /\ req' = Settled(sync[n].cur, "resolved")
    /\ sync' = [sync EXCEPT ![n] = Rest(n, sync[n].cur)]
    /\ UNCHANGED <<sessionVars, bag, row, age, hits, late, malformed, spoil, feedVars, raced, faults>>

\* The report does not reach the hub, or only later: the error is logged and
\* the drain goes on.
CompleteFails(n) ==
    /\ sync[n].at = "report"
    /\ Fault
    /\ late' \in {late, late \cup {sync[n].cur}}
    /\ sync' = [sync EXCEPT ![n] = Rest(n, sync[n].cur)]
    /\ UNCHANGED <<sessionVars, bag, row, age, hits, req, malformed, spoil, feedVars, raced>>

-----------------------------------------------------------------------------
(* The pvp.resolved handler at the other nodes. *)

\* Mutant: the handler takes every result for its own.
MineAlways(m, e) == TRUE

\* The event is about an attack of a player of m, and was not fought there.
Mine(m, e) == ~e.local /\ Home[Attacker(e.attack)] = m

\* The next event of n's log is there for m, and its handler has not run.
HandlerDue(m, n) == m # n /\ got[m][n] < Len(results[n]) /\ ~ran[m][n]

\* addGoods, and the UPDATE of every pending row of the pair.
Credit(i, loot) ==
    /\ bag' = [bag EXCEPT ![Attacker(i)] = @ + loot]
    /\ credits' = [credits EXCEPT ![i] = @ + 1]

RowsSettled(i) ==
    [j \in Attack |-> IF row[j] = "pending" /\ who[j] = who[i] THEN "settled" ELSE row[j]]

\* The handler runs, on an event of somebody else to no effect.
HandlerRuns(m, n) ==
    /\ HandlerDue(m, n)
    /\ LET e == results[n][got[m][n] + 1]
       IN  IF Mine(m, e)
           THEN /\ ran' = [ran EXCEPT ![m][n] = TRUE]
                /\ Credit(e.attack, e.loot)
                /\ row' = RowsSettled(e.attack)
                /\ UNCHANGED got
           ELSE /\ got' = [got EXCEPT ![m][n] = @ + 1]
                /\ UNCHANGED <<ran, bag, credits, row>>
    /\ UNCHANGED <<sessionVars, age, hits, hubVars, sync, spoil, results, unpaid, raced, faults>>

\* An error of addGoods is only logged and one of the UPDATE ignored: the handler
\* returns nil, and the event is marked as applied.
HandlerFails(m, n) ==
    /\ HandlerDue(m, n)
    /\ Fault
    /\ LET e == results[n][got[m][n] + 1]
           i == e.attack
       IN  /\ Mine(m, e)
           /\ \/ /\ e.loot > 0
                 /\ unpaid' = unpaid \cup {i}
                 /\ row' \in {row, RowsSettled(i)}
                 /\ UNCHANGED <<bag, credits>>
              \/ /\ Credit(i, e.loot)
                 /\ UNCHANGED <<row, unpaid>>
    /\ ran' = [ran EXCEPT ![m][n] = TRUE]
    /\ UNCHANGED <<sessionVars, age, hits, hubVars, sync, spoil, results, got, raced>>

\* markHandler and SetHubCursor.
HandlerMarked(m, n) ==
    /\ ran[m][n]
    /\ ran' = [ran EXCEPT ![m][n] = FALSE]
    /\ got' = [got EXCEPT ![m][n] = @ + 1]
    /\ UNCHANGED <<sessionVars, bag, row, age, hits, hubVars, sync, spoil, results,
                   credits, unpaid, raced, faults>>

-----------------------------------------------------------------------------
\* A node stops and is started again: its sessions, its drain and the handler
\* marks it had not written are gone.
Crash(n) ==
    /\ Fault
    /\ stage' = [i \in Attack |->
         IF stage[i] # "none" /\ Home[Attacker(i)] = n THEN "done" ELSE stage[i]]
    /\ sync' = [sync EXCEPT ![n] = Idle]
    /\ ran' = [ran EXCEPT ![n] = [k \in Node |-> FALSE]]
    /\ late' \in {late, late \cup {i \in {sync[n].cur} : sync[n].at = "report"}}
    /\ UNCHANGED <<who, bag, row, age, hits, req, malformed, spoil,
                   results, got, credits, unpaid, raced>>

\* The drain of n's Tick, one goroutine.
Drain(n) ==
    \/ Fetch(n) \/ Take(n) \/ EmitResult(n) \/ Complete(n)
    \/ \E i \in Attack : BlockMalformed(n, i) \/ Fight(n, i)

\* What the victim's Syncer, the hub's handlers and the feed do by themselves.
Settle ==
    \/ \E i \in Attack : HubQueues(i) \/ HubRefuses(i)
    \/ \E n \in Node : Drain(n)
    \/ \E m, n \in Node : HandlerRuns(m, n) \/ HandlerMarked(m, n)

SessionStep(i) ==
    \/ SpendAttack(i) \/ PostAttack(i) \/ PostAnswered(i)
    \/ LocalLose(i) \/ LocalWin(i) \/ LocalTake(i) \/ LocalGive(i)

Next ==
    \/ Settle
    \/ NextDay
    \/ \E i \in Attack : \E a, v \in Player : Pick(i, a, v)
    \/ \E i \in Attack : SessionStep(i) \/ PostGivesUp(i)
    \/ \E i \in Attack : HubCompletesLate(i) \/ QueueRetry(i)
    \/ \E n \in Node : EmitFails(n) \/ CompleteFails(n) \/ Crash(n)
    \/ \E m, n \in Node : HandlerFails(m, n)

Spec == Init /\ [][Next]_vars

\* The Syncers tick for ever, get as far as the drain (no batch is refused and no
\* handler fails at every Tick) and go through what they fetched, the hub serves
\* what it is sent, and the feed delivers (EventSync!EveryEventArrives).
Fairness ==
    /\ \A i \in Attack : WF_vars(HubQueues(i) \/ HubRefuses(i))
    /\ \A n \in Node : WF_vars(Drain(n))
    /\ \A m \in Node : \A n \in Node \ {m} : WF_vars(HandlerRuns(m, n) \/ HandlerMarked(m, n))

FairSpec == Spec /\ Fairness

-----------------------------------------------------------------------------
(* Properties. *)

\* The type of every variable; inventories are never negative, even when two
\* fights take from the same one (stealLoot's DELETE).
TypeOK ==
    /\ stage \in [Attack -> Stages]
    /\ who \in [Attack -> Player \X Player]
    /\ bag \in [Player -> Nat]
    /\ row \in [Attack -> {"none", "pending", "settled"}]
    /\ age \in [Attack -> 0..2]
    /\ hits \in [Player -> Nat]
    /\ req \in [Attack -> {"none", "posted", "refused", "pending", "resolved", "blocked"}]
    /\ late \in SUBSET Attack
    /\ malformed \in SUBSET Legacy
    /\ sync \in [Node -> [at : {"idle", "drain", "fought", "took", "report"},
                          todo : SUBSET Attack, cur : 0..MaxAttacks]]
    /\ spoil \in [Attack -> Nat]
    /\ results \in [Node -> Seq([attack : Attack, local : BOOLEAN, loot : Nat])]
    /\ got \in [Node -> [Node -> Nat]]
    /\ ran \in [Node -> [Node -> BOOLEAN]]
    /\ credits \in [Attack -> Nat]
    /\ unpaid \in SUBSET Attack
    /\ raced \in SUBSET (Attack \cup Player)
    /\ faults \in 0..MaxFaults

\* Entry k of the log of node n is the result of attack i, fought for another node.
FoughtFor(n, k, i) == results[n][k].attack = i /\ ~results[n][k].local

Announced(i) == \E k \in 1..Len(results[Home[Victim(i)]]) : FoughtFor(Home[Victim(i)], k, i)

\* A request is resolved at the hub only after its result is in the log of the
\* victim's node, whatever fails: Syncer.Tick reports a request after
\* IncomingPvP returned without an error.
ResolvedIsAnnounced == \A i \in Attack : req[i] = "resolved" => Announced(i)

\* The same of a report that is still to be sent, or to be served.
ReportsAreAnnounced ==
    /\ \A i \in late : Announced(i)
    /\ \A n \in Node : sync[n].at = "report" => Announced(sync[n].cur)

\* A drain works on requests the hub has accepted, on players of its node.
DrainsAreOwn ==
    \A n \in Node :
        /\ \A i \in sync[n].todo :
             Home[Victim(i)] = n /\ req[i] \in {"pending", "resolved", "blocked"}
        /\ sync[n].at \notin {"idle", "drain"} => sync[n].cur \in sync[n].todo \ malformed

\* Nothing is at the hub for an attack before the session posts it, and nothing
\* is in a log before the hub accepts it; malformed requests alone are blocked,
\* and they are never fought.
RequestsArePosted ==
    /\ \A i \in Attack :
         /\ stage[i] \in {"none", "checked", "spent", "read", "took"} => req[i] = "none"
         /\ req[i] = "blocked" => i \in malformed
    /\ \A n \in Node : \A k \in 1..Len(results[n]) :
         LET i == results[n][k].attack
         IN  ~results[n][k].local =>
                 /\ Home[Victim(i)] = n /\ i \notin malformed
                 /\ req[i] \in {"pending", "resolved"}

\* The queue at the hub and the log of the victim's node agree, in well-typed
\* states, after every failure of IncomingPvP and of its report.
QueueInv ==
    /\ TypeOK
    /\ ResolvedIsAnnounced /\ ReportsAreAnnounced
    /\ DrainsAreOwn /\ RequestsArePosted

\* The handler credits an attack at most once, and once more for every
\* failure: neither the queue, nor late reports, nor the operator's retries
\* repeat a fight by themselves.
CreditedOncePerFault ==
    \A i \in Attack : credits[i] <= 1 + faults

\* How many events of n the handler of m has run on.
Seen(m, n) == got[m][n] + (IF ran[m][n] THEN 1 ELSE 0)

\* Results of attack i whose handler has still to run.
Uncredited(i) ==
    LET v == Home[Victim(i)]
    IN  {k \in 1..Len(results[v]) : k > Seen(Home[Attacker(i)], v) /\ FoughtFor(v, k, i)}

\* Attack i is still to be fought, or may be fought again.
MayBeFought(i) ==
    /\ i \notin malformed
    /\ req[i] \in {"none", "posted", "pending"} \/ \E n \in Node : i \in sync[n].todo
    /\ ~\E n \in Node : sync[n].at = "report" /\ sync[n].cur = i

\* Credits given, credits to come and a fight to come are one, and one more
\* for every failure.  A node runs no handler on its own events.
CreditBudget ==
    /\ \A n \in Node : ~ran[n][n]
    /\ \A i \in Attack :
         credits[i] + Cardinality(Uncredited(i)) + (IF MayBeFought(i) THEN 1 ELSE 0) <= 1 + faults

\* What a session or a drain has taken for attack i and not handed on.
Taken(i) ==
    IF stage[i] = "took" \/ \E n \in Node : sync[n].at = "took" /\ sync[n].cur = i
    THEN spoil[i] ELSE 0

\* Entry k of n's log is the result of a fight for another node, m, whose
\* handler has still to run.
Due(n, k) ==
    LET m == Home[Attacker(results[n][k].attack)]
    IN  ~results[n][k].local /\ m # n /\ k > Seen(m, n)

\* The loot of all such results of n.
Owed(n) ==
    SumFunctionOnSet([k \in 1..Len(results[n]) |-> results[n][k].loot],
                     {k \in 1..Len(results[n]) : Due(n, k)})

\* Goods on their way from a victim to an attacker.
InTransit ==
    SumFunction([i \in Attack |-> Taken(i)]) + SumFunction([n \in Node |-> Owed(n)])

\* Loot is neither made nor lost: without failures, and as long as no victim
\* is robbed by two fights at once, what left a victim reaches the attacker
\* exactly once, over the queue, the event and the handler.
GoodsConserved ==
    (faults = 0 /\ raced \cap Player = {})
        => SumFunction(bag) + InTransit = Carried * Cardinality(Player)

\* What a fight decided to take from v is there, and no other fight takes from v.
SpoilFits(v) ==
    \A i \in Robbing(v) : spoil[i] <= bag[v] /\ Robbing(v) = {i}

\* What keeps goods together between two steps of a fight: what is to be taken
\* is there, what was fought for the hub is between two nodes, and no handler
\* runs ahead of the log.
LootInv ==
    faults = 0 =>
        /\ \A v \in Player \ raced : SpoilFits(v)
        /\ \A i \in Attack : req[i] # "none" /\ i \notin malformed => Remote(i)
        /\ \A m, n \in Node : Seen(m, n) <= Len(results[n])

\* An attack reaches the pvp_log only when no attack of that player on the
\* same victim is there from today or yesterday, unless two sessions of the
\* player had attacks under way at once: the check comes first, the row is
\* written after the hub's answer.
CooldownHolds ==
    [][\A j \in Attack :
        (row[j] = "none" /\ row'[j] # "none" /\ j \notin raced)
            => \A i \in Logged(Attacker(j), Victim(j)) : age[i] >= 2]_vars

\* What the check of an attack saw holds until its row is written: rows come
\* with the end of their session, and sessions of one player that overlap are
\* in raced.
RestInv ==
    LET underWay(i) == stage[i] \notin {"none", "done"}
    IN  \A i \in Attack :
            /\ row[i] # "none" => stage[i] = "done"
            /\ \A j \in Attack \ {i} :
                 underWay(i) /\ underWay(j) /\ Attacker(i) = Attacker(j) => i \in raced
            /\ underWay(i) /\ i \notin raced =>
                 \A j \in Logged(Attacker(i), Victim(i)) : age[j] >= 2

\* A request the hub accepted is fought, closed at the hub, and credited to
\* the attacker in the end, malformed requests in the same queue, operator
\* retries and a failure at any step notwithstanding, but that of the handler's
\* own addGoods, which nothing tries again: again and again there is a time when
\* none is under way.
AttackReturns ==
    []<>(\A i \in Attack \ malformed :
           req[i] \in {"pending", "resolved"} =>
               req[i] = "resolved" /\ (credits[i] > 0 \/ i \in unpaid))

=============================================================================
