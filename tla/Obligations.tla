----------------------------- MODULE Obligations -----------------------------
(***************************************************************************)
(* One player's debts across the network (engine/obligations.go, and the   *)
(* stall and the Bonesetter of game/module.go).  A purchase the player     *)
(* cannot pay opens an obligation on the node where it happens; debt.*     *)
(* events mirror it into the obligations table of every node; the player   *)
(* pays wherever they are, out of the local mirror.  The table is updated  *)
(* and the event emitted in separate statements, with the lock released in *)
(* between, so other sessions, the Syncer and crashes come between them.   *)
(* The feed is EventSync's: every node's events in order, in one total     *)
(* order for all.                                                          *)
(***************************************************************************)
EXTENDS Integers, Sequences, FiniteSets, SequencesExt

CONSTANTS
    Node,
    Start,      \* the node where the player begins
    Session,    \* sessions of the player
    Goods,      \* trade goods, each once, from the lightest to the heaviest
    Weight,     \* Weight[g]: barter units
    Prices,     \* what wares and the Bonesetter cost
    MaxDebts,   \* bound: obligations
    MaxGoods,   \* bound: goods found
    MaxMoves,   \* bound: travels
    MaxFaults   \* bound: crashes and failed statements

Good == Range(Goods)

\* obligation_id: the source node and its o_N.
Obligation == Node \X (1..MaxDebts)

ASSUME GoodsAssumption ==
    /\ Goods \in Seq(Good)
    /\ Weight \in [Good -> Nat \ {0}]
    /\ \A i, j \in 1..Len(Goods) :
         i < j => Goods[i] # Goods[j] /\ Weight[Goods[i]] <= Weight[Goods[j]]
    /\ Prices \subseteq Nat \ {0}

ASSUME NodesAssumption ==
    /\ Start \in Node
    /\ MaxDebts \in Nat /\ MaxGoods \in Nat /\ MaxMoves \in Nat /\ MaxFaults \in Nat

VARIABLES
    here,      \* the node the player is on
    purse,     \* purse[g]: goods carried
    table,     \* table[n][o]: n's obligations row for o
    oseq,      \* oseq[n]: Store.oseq, in memory
    log,       \* log[n]: debt.* events n emitted
    sent,      \* sent[n]: how many of them are in the feed
    feed,      \* the hub's feed
    cur,       \* cur[n]: feed position n has applied and marked
    ran,       \* ran[n]: the handler ran on the next one, not yet marked
    born,      \* obligations in the order of created_at
    work,      \* work[s]: what session s is in the middle of
    owed,      \* history: owed[o], the weight o was opened with, less payments
    astray,    \* history: why the mirrors may differ: "overlap", "stale", "fault"
    found, moves, faults

sessionVars == <<here, purse, born, work, owed, found, moves>>
feedVars    == <<sent, feed, cur, ran>>
vars == <<here, purse, table, oseq, log, sent, feed, cur, ran, born, work, owed,
          astray, found, moves, faults>>

NoDebt == [status |-> "none", weight |-> 0]

\* A session between operations; in a payment, todo holds the rows that
\* OpenDebts read; emit holds the event of a statement that has committed.
Free == [todo |-> {}, amount |-> 0, emit |-> << >>]

Init ==
    /\ here = Start
    /\ purse = [g \in Good |-> 0]
    /\ table = [n \in Node |-> [o \in Obligation |-> NoDebt]]
    /\ oseq = [n \in Node |-> 0]
    /\ log = [n \in Node |-> << >>]
    /\ sent = [n \in Node |-> 0]
    /\ feed = << >>
    /\ cur = [n \in Node |-> 0]
    /\ ran = [n \in Node |-> FALSE]
    /\ born = << >>
    /\ work = [s \in Session |-> Free]
    /\ owed = [o \in Obligation |-> 0]
    /\ astray = {}
    /\ found = 0
    /\ moves = 0
    /\ faults = 0

Fault == faults < MaxFaults /\ faults' = faults + 1

Lesser(x, y) == IF x <= y THEN x ELSE y

\* f[1] + ... + f[n].
SumTo(f, n) == LET s[i \in 0..n] == IF i = 0 THEN 0 ELSE s[i - 1] + f[i] IN s[n]

-----------------------------------------------------------------------------
(* Barter. *)

\* goodsValue.
Value(p) == SumTo([i \in 1..Len(Goods) |-> p[Goods[i]] * Weight[Goods[i]]], Len(Goods))

\* Mutant: the loop stops one unit late.
UnitsForOneMore(need, w) == (need \div w) + 1

\* Units of weight w that cover need.
UnitsFor(need, w) == IF need <= 0 THEN 0 ELSE (need + w - 1) \div w

\* The inner loop: units of g go until the cost is covered or none is left.
HandOver(r, g, cost) ==
    LET n == Lesser(r.left[g], UnitsFor(cost - r.consumed, Weight[g]))
    IN  [left |-> [r.left EXCEPT ![g] = @ - n], consumed |-> r.consumed + n * Weight[g]]

\* consumeForCost: the lightest goods first.
Consume(p, cost) ==
    LET r[i \in 0..Len(Goods)] ==
          IF i = 0 THEN [left |-> p, consumed |-> 0] ELSE HandOver(r[i - 1], Goods[i], cost)
    IN  r[Len(Goods)]

\* addGood after a won fight.
Find(g) ==
    /\ found < MaxGoods
    /\ found' = found + 1
    /\ purse' = [purse EXCEPT ![g] = @ + 1]
    /\ UNCHANGED <<here, table, oseq, log, feedVars, born, work, owed, astray, moves, faults>>

-----------------------------------------------------------------------------
(* Sessions. *)

Busy == {s \in Session : work[s] # Free}

Overlaps(s) == IF Busy \subseteq {s} THEN {} ELSE {"overlap"}

Event(type, o, w) == [type |-> type, ob |-> o, weight |-> w]

\* The obligation's id is the next o_N of n.
Opened(n, o) == o = <<n, oseq[n] + 1>> /\ Len(born) < MaxDebts

\* buy, and bonesetter with its fee: goods are consumed, and what is missing
\* becomes an obligation: CreateObligation up to its INSERT, which finds the
\* id unused (IdsAreFresh).
Buy(s, price) ==
    LET r == Consume(purse, price) IN
    /\ work[s] = Free
    /\ purse' = r.left
    /\ IF r.consumed >= price
       THEN UNCHANGED <<table, oseq, born, work, owed, astray>>
       ELSE \E o \in Obligation :
              /\ Opened(here, o)
              /\ oseq' = [oseq EXCEPT ![here] = o[2]]
              /\ table' = [table EXCEPT ![here][o] =
                   [status |-> "open", weight |-> price - r.consumed]]
              /\ born' = Append(born, o)
              /\ owed' = [owed EXCEPT ![o] = price - r.consumed]
              /\ work' = [work EXCEPT ![s].emit =
                   <<Event("debt.created", o, price - r.consumed)>>]
              /\ astray' = astray \cup Overlaps(s)
    /\ UNCHANGED <<here, log, feedVars, found, moves, faults>>

\* The INSERT fails: the goods are gone, nothing is owed, and the number is used
\* up in memory alone.
BuyFails(s, price) ==
    LET r == Consume(purse, price) IN
    /\ work[s] = Free
    /\ r.consumed < price
    /\ Fault
    /\ oseq[here] < MaxDebts
    /\ oseq' = [oseq EXCEPT ![here] = @ + 1]
    /\ purse' = r.left
    /\ UNCHANGED <<here, table, log, feedVars, born, work, owed, astray, found, moves>>

\* The rows of node n that OpenDebts reads.
OpenDebts(n) ==
    {[ob |-> o, weight |-> table[n][o].weight] : o \in {x \in Obligation : table[n][x].status = "open"}}

\* DebtLoad.
DebtLoad(n) ==
    LET Open(o) == table[n][o].status = "open"
    IN  SumTo([i \in 1..Len(born) |-> IF Open(born[i]) THEN table[n][born[i]].weight ELSE 0],
              Len(born))

\* Somewhere there is an event on o that n has not applied.
Unseen(n, o) ==
    \/ \E m \in Node \ {n} : \E i \in sent[m] + 1 .. Len(log[m]) : log[m][i].ob = o
    \/ \E i \in cur[n] + 1 .. Len(feed) : feed[i].src # n /\ feed[i].ev.ob = o

\* payDebt: goods worth the debt, or all there is, go to Maren, and PayDebt
\* reads the open debts of this node.
PayDebt(s) ==
    LET target == Lesser(DebtLoad(here), Value(purse))
        r == Consume(purse, target)
    IN
    /\ work[s] = Free
    /\ DebtLoad(here) # 0 /\ Value(purse) # 0
    /\ purse' = r.left
    /\ work' = [work EXCEPT ![s] =
         [todo |-> OpenDebts(here), amount |-> r.consumed, emit |-> << >>]]
    /\ astray' = astray \cup Overlaps(s)
         \cup {x \in {"stale"} : \E i \in 1..Len(born) : Unseen(here, born[i])}
    /\ UNCHANGED <<here, table, oseq, log, feedVars, born, owed, found, moves, faults>>

\* The payment loop has nothing left to pay or to pay with.
PayEnds(s) ==
    /\ work[s] # Free /\ work[s].emit = << >>
    /\ work[s].amount <= 0 \/ work[s].todo = {}
    /\ work' = [work EXCEPT ![s] = Free]
    /\ UNCHANGED <<here, purse, table, oseq, log, feedVars, born, owed, astray, found,
                   moves, faults>>

\* o was created before p.
Older(o, p) == \E i, j \in 1..Len(born) : i < j /\ born[i] = o /\ born[j] = p

\* The loop comes to row d: the oldest is paid first.
PayingNext(s, d) ==
    /\ work[s].emit = << >> /\ work[s].amount > 0
    /\ d \in work[s].todo
    /\ \A e \in work[s].todo : ~Older(e.ob, d.ob)

\* The amount covers the next debt: resolve, whatever the row says by now.
PayResolves(s) ==
    /\ \E d \in work[s].todo :
         /\ PayingNext(s, d)
         /\ work[s].amount >= d.weight
         /\ table' = [table EXCEPT ![here][d.ob].status = "resolved"]
         /\ owed' = [owed EXCEPT ![d.ob] = @ - d.weight]
         /\ work' = [work EXCEPT ![s] =
              [todo |-> @.todo \ {d}, amount |-> @.amount - d.weight,
               emit |-> <<Event("debt.resolved", d.ob, 0)>>]]
    /\ UNCHANGED <<here, purse, oseq, log, feedVars, born, astray, found, moves, faults>>

\* Mutant: the event carries the weight that was read.
PayAdjustsOldWeight(s) ==
    /\ \E d \in work[s].todo :
         /\ PayingNext(s, d)
         /\ work[s].amount < d.weight
         /\ table' = [table EXCEPT ![here][d.ob].weight = @ - work[s].amount]
         /\ owed' = [owed EXCEPT ![d.ob] = @ - work[s].amount]
         /\ work' = [work EXCEPT ![s] =
              [todo |-> @.todo \ {d}, amount |-> 0,
               emit |-> <<Event("debt.adjusted", d.ob, d.weight)>>]]
    /\ UNCHANGED <<here, purse, oseq, log, feedVars, born, astray, found, moves, faults>>

\* It covers a part: the row is reduced by the amount, the event carries the
\* new weight computed from what was read.
PayAdjusts(s) ==
    /\ \E d \in work[s].todo :
         /\ PayingNext(s, d)
         /\ work[s].amount < d.weight
         /\ table' = [table EXCEPT ![here][d.ob].weight = @ - work[s].amount]
         /\ owed' = [owed EXCEPT ![d.ob] = @ - work[s].amount]
         /\ work' = [work EXCEPT ![s] =
              [todo |-> @.todo \ {d}, amount |-> 0,
               emit |-> <<Event("debt.adjusted", d.ob, d.weight - work[s].amount)>>]]
    /\ UNCHANGED <<here, purse, oseq, log, feedVars, born, astray, found, moves, faults>>

\* The UPDATE of the next row fails: PayDebt returns, the goods are gone.
PayFails(s) ==
    /\ \E d \in work[s].todo : PayingNext(s, d)
    /\ Fault
    /\ work' = [work EXCEPT ![s] = Free]
    /\ UNCHANGED <<here, purse, table, oseq, log, feedVars, born, owed, astray, found, moves>>

\* Emit.
EmitEvent(s) ==
    /\ work[s].emit # << >>
    /\ log' = [log EXCEPT ![here] = Append(@, work[s].emit[1])]
    /\ work' = [work EXCEPT ![s].emit = << >>]
    /\ UNCHANGED <<here, purse, table, oseq, feedVars, born, owed, astray, found, moves, faults>>

\* Emit fails and its caller returns: the rest of the payment is dropped.
EmitFails(s) ==
    /\ work[s].emit # << >>
    /\ Fault
    /\ work' = [work EXCEPT ![s] = Free]
    /\ astray' = astray \cup {"fault"}
    /\ UNCHANGED <<here, purse, table, oseq, log, feedVars, born, owed, found, moves>>

\* The player travels; nothing makes the new node's mirror wait for the old
\* node's events.
Move(n) ==
    /\ Busy = {} /\ n # here
    /\ moves < MaxMoves
    /\ moves' = moves + 1
    /\ here' = n
    /\ UNCHANGED <<purse, table, oseq, log, feedVars, born, work, owed, astray, found, faults>>

-----------------------------------------------------------------------------
(* The feed and the handlers of RegisterDebtHandlers. *)

\* What a push of log entry i does.
Pushed(n, i) ==
    /\ sent[n] < Len(log[n])
    /\ feed' = Append(feed, [src |-> n, ev |-> log[n][i]])
    /\ sent' = [sent EXCEPT ![n] = @ + 1]
    /\ UNCHANGED <<sessionVars, table, oseq, log, cur, ran, astray, faults>>

\* Mutants: the newest event first; the last event waits for another.
PushLatest(n) == Pushed(n, Len(log[n]) - sent[n])
PushAllButLast(n) == sent[n] + 1 < Len(log[n]) /\ Pushed(n, sent[n] + 1)

\* The next event of n's log reaches the feed.
Push(n) == Pushed(n, sent[n] + 1)

\* n's own events are left out of what it pulls.
SkipOwn(n) ==
    /\ cur[n] < Len(feed)
    /\ feed[cur[n] + 1].src = n
    /\ cur' = [cur EXCEPT ![n] = @ + 1]
    /\ UNCHANGED <<sessionVars, table, oseq, log, sent, feed, ran, astray, faults>>

\* Mutant: INSERT OR REPLACE, and updates without the status test.
HandledReplacing(d, ev) ==
    CASE ev.type = "debt.created"  -> [status |-> "open", weight |-> ev.weight]
      [] ev.type = "debt.resolved" /\ d.status = "open" -> [d EXCEPT !.status = "resolved"]
      [] ev.type = "debt.adjusted" /\ d.status # "none" -> [status |-> "open", weight |-> ev.weight]
      [] OTHER -> d

\* The three handlers: INSERT OR IGNORE, and two UPDATEs of an open row.
Handled(d, ev) ==
    CASE ev.type = "debt.created"  /\ d.status = "none" -> [status |-> "open", weight |-> ev.weight]
      [] ev.type = "debt.resolved" /\ d.status = "open" -> [d EXCEPT !.status = "resolved"]
      [] ev.type = "debt.adjusted" /\ d.status = "open" -> [d EXCEPT !.weight = ev.weight]
      [] OTHER -> d

HandlerRuns(n) ==
    /\ cur[n] < Len(feed) /\ ~ran[n]
    /\ LET e == feed[cur[n] + 1] IN
         /\ e.src # n
         /\ table' = [table EXCEPT ![n][e.ev.ob] = Handled(@, e.ev)]
    /\ ran' = [ran EXCEPT ![n] = TRUE]
    /\ UNCHANGED <<sessionVars, oseq, log, sent, feed, cur, astray, faults>>

HandlerMarked(n) ==
    /\ ran[n]
    /\ ran' = [ran EXCEPT ![n] = FALSE]
    /\ cur' = [cur EXCEPT ![n] = @ + 1]
    /\ UNCHANGED <<sessionVars, table, oseq, log, sent, feed, astray, faults>>

\* Mutant: Migrate without the query that resumes the counter.
ResumedZero(n) == 0

\* Migrate: MAX of the o_N in n's own rows.
Resumed(n) ==
    CHOOSE k \in 0..MaxDebts :
        /\ k = 0 \/ table[n][<<n, k>>].status # "none"
        /\ \A j \in k + 1 .. MaxDebts : table[n][<<n, j>>].status = "none"

\* The node stops and starts again; sessions on it end where they are.
Crash(n) ==
    /\ Fault
    /\ oseq' = [oseq EXCEPT ![n] = Resumed(n)]
    /\ ran' = [ran EXCEPT ![n] = FALSE]
    /\ work' = IF here = n THEN [s \in Session |-> Free] ELSE work
    /\ astray' = astray \cup {"fault"}
    /\ UNCHANGED <<here, purse, table, log, sent, feed, cur, born, owed, found, moves>>

SessionStep(s) ==
    \/ PayEnds(s) \/ PayResolves(s) \/ PayAdjusts(s) \/ EmitEvent(s)

Deliver(n) == Push(n) \/ SkipOwn(n) \/ HandlerRuns(n) \/ HandlerMarked(n)

Next ==
    \/ \E g \in Good : Find(g)
    \/ \E s \in Session : SessionStep(s) \/ PayDebt(s) \/ PayFails(s) \/ EmitFails(s)
    \/ \E s \in Session : \E price \in Prices : Buy(s, price) \/ BuyFails(s, price)
    \/ \E n \in Node : Move(n) \/ Deliver(n) \/ Crash(n)

Spec == Init /\ [][Next]_vars

\* Operations a session began run to their end, and the Syncers tick for ever.
Fairness ==
    /\ \A s \in Session : WF_vars(SessionStep(s))
    /\ \A n \in Node : WF_vars(Deliver(n))

FairSpec == Spec /\ Fairness

-----------------------------------------------------------------------------
(* Properties. *)

\* A row has a status and a weight.
RowsOK ==
    /\ table = [n \in Node |-> table[n]]
    /\ \A n \in Node :
         /\ table[n] = [o \in Obligation |->
              [status |-> table[n][o].status, weight |-> table[n][o].weight]]
         /\ \A o \in Obligation : table[n][o].status \in {"none", "open", "resolved"}

WorkOK ==
    work = [s \in Session |->
              [todo |-> work[s].todo, amount |-> work[s].amount, emit |-> work[s].emit]]

\* The type of every variable; amounts are in AmountsOK.
TypeOK ==
    /\ here \in Node
    /\ RowsOK /\ WorkOK
    /\ oseq \in [Node -> 0..MaxDebts]
    /\ sent \in [Node -> Nat] /\ \A n \in Node : sent[n] <= Len(log[n])
    /\ \A i \in 1..Len(feed) : feed[i].src \in Node
    /\ cur \in [Node -> 0..Len(feed)]
    /\ ran \in [Node -> BOOLEAN]
    /\ born \in Seq(Obligation)
    /\ astray \subseteq {"overlap", "stale", "fault"}
    /\ found \in 0..MaxGoods /\ moves \in 0..MaxMoves /\ faults \in 0..MaxFaults

\* A node's counter is never behind a row of its own, although it lives in memory
\* and starts again from the rows after a crash between the INSERT and the event:
\* the next o_N has no row.  A number that a failed INSERT used up has none
\* either, and may be the next again after a restart.
IdsAreFresh ==
    \A n \in Node : \A k \in 1..MaxDebts : table[n][<<n, k>>].status # "none" => k <= oseq[n]

IsCreated(ev, o) == ev.type = "debt.created" /\ ev.ob = o

\* The feed has the debt.created of o.
Spread(o) == \E k \in 1..Len(feed) : IsCreated(feed[k].ev, o)

\* A mirror has a row only after the debt.created went through the feed.
RowsAreCreated ==
    \A n \in Node : \A o \in Obligation :
        table[n][o].status # "none" =>
            /\ table[o[1]][o].status # "none"
            /\ n # o[1] => Spread(o)

\* Node n emits events on its own rows, and debt.resolved after the UPDATE.
Backed(n, ev) ==
    /\ ev.ob \in Obligation
    /\ table[n][ev.ob].status # "none"
    /\ ev.type = "debt.created" => ev.ob[1] = n
    /\ ev.type = "debt.resolved" => table[n][ev.ob].status = "resolved"

EventsHaveRows ==
    /\ \A n \in Node : \A i \in 1..Len(log[n]) : Backed(n, log[n][i])
    /\ \A s \in Session :
         /\ work[s].emit # << >> => Backed(here, work[s].emit[1])
         /\ \A d \in work[s].todo : d.ob \in Obligation /\ table[here][d.ob].status # "none"

\* The id of an obligation with a row is not given out again, restarts and failed
\* INSERTs included, and no row and no event is about an obligation that its
\* source node does not have.
IdInv == TypeOK /\ IdsAreFresh /\ RowsAreCreated /\ EventsHaveRows

AmountsOK ==
    /\ purse \in [Good -> Nat]
    /\ owed \in [Obligation -> Int]
    /\ \A n \in Node : \A o \in Obligation : table[n][o].weight \in Int

\* The inductive invariant of AmountsOK: what payments and events carry.
AmountsInv ==
    /\ AmountsOK
    /\ \A s \in Session :
         /\ work[s].amount \in Int /\ \A d \in work[s].todo : d.weight \in Int
         /\ work[s].emit # << >> => work[s].emit[1].weight \in Int
    /\ \A n \in Node : \A i \in 1..Len(log[n]) : log[n][i].weight \in Int

\* consumeForCost hands over goods worth the price, or all there are, loses
\* nothing in between, takes no good the player does not have, and would not
\* have covered the price without the heaviest good it took.
ConsumeIsTight ==
    /\ AmountsOK
    /\ \A price \in Prices :
         LET r == Consume(purse, price)
             taken == {g \in Good : r.left[g] < purse[g]}
         IN  /\ r.consumed >= Lesser(price, Value(purse))
             /\ Value(r.left) + r.consumed = Value(purse)
             /\ \A g \in taken :
                  (\A h \in taken : Weight[h] <= Weight[g]) => r.consumed - Weight[g] < price

\* The debt.created of o will never be emitted: its node crashed, or Emit
\* failed, right after the INSERT.
Unannounced(o) ==
    /\ \A i \in 1..Len(log[o[1]]) : ~IsCreated(log[o[1]][i], o)
    /\ \A s \in Session : work[s].emit = << >> \/ ~IsCreated(work[s].emit[1], o)

\* Delivery is causal: an adjustment or a resolution, by whichever node,
\* follows the obligation's debt.created in the feed, so no handler looks for
\* a row that is still to come.  The exception are two overlapping sessions of
\* the player: one can pay a debt whose event the other has yet to emit.
CreatedFirst ==
    "overlap" \notin astray =>
        \A k \in 1..Len(feed) :
            LET ev == feed[k].ev IN
            ev.type # "debt.created" =>
                \/ \E j \in 1..k - 1 : IsCreated(feed[j].ev, ev.ob)
                \/ Unannounced(ev.ob)

\* "a debt.resolved wins once the hub has it" (FEDERATION_PROTOCOL.md:309): a
\* node that has gone past it in the feed never shows the debt as open again,
\* for all the adjustments from stale mirrors, reruns of handlers and crashes.
ResolutionWins ==
    "overlap" \notin astray =>
        \A n \in Node : \A k \in 1..cur[n] :
            feed[k].ev.type = "debt.resolved" => table[n][feed[k].ev.ob].status # "open"

\* The feed holds what was pushed from each log, and all of it.
FeedIsPushed ==
    /\ \A k \in 1..Len(feed) : \E i \in 1..Len(log[feed[k].src]) : feed[k].ev = log[feed[k].src][i]
    /\ \A n \in Node : \A i \in 1..sent[n] :
         \E k \in 1..Len(feed) : feed[k].src = n /\ feed[k].ev = log[n][i]

\* Whoever has o from node n has its debt.created from the feed, or from the
\* first j events of n's own log.
Follows(n, j, o) ==
    \/ Spread(o) \/ Unannounced(o)
    \/ n = o[1] /\ \E i \in 1..j : IsCreated(log[n][i], o)

\* What makes CreatedFirst hold: events follow their debt.created in the log of
\* their node, and a payment is made on rows whose debt.created is emitted.
PaymentsFollow ==
    "overlap" \notin astray =>
        /\ \A n \in Node : \A j \in 1..Len(log[n]) :
             log[n][j].type # "debt.created" => Follows(n, j - 1, log[n][j].ob)
        /\ \A s \in Session :
             /\ work[s].emit # << >> /\ work[s].emit[1].type # "debt.created"
                    => Follows(here, Len(log[here]), work[s].emit[1].ob)
             /\ \A d \in work[s].todo : Follows(here, Len(log[here]), d.ob)

\* Entries of the feed on which n's handlers have run.
Handling(n) == cur[n] + (IF ran[n] THEN 1 ELSE 0)

\* What makes ResolutionWins hold: a handler that finds no row to resolve will
\* never find one, since the obligation is unannounced.
HandlersKeep ==
    \A n \in Node :
        /\ ran[n] => cur[n] < Len(feed) /\ feed[cur[n] + 1].src # n
        /\ \A k \in 1..Handling(n) :
             LET ev == feed[k].ev IN
             /\ ev.type = "debt.created" => table[n][ev.ob].status # "none"
             /\ "overlap" \notin astray /\ ev.type = "debt.resolved" =>
                  table[n][ev.ob].status = "resolved" \/ (n # ev.ob[1] /\ Unannounced(ev.ob))

\* The inductive invariant of CreatedFirst and ResolutionWins.
DebtInv == IdInv /\ FeedIsPushed /\ PaymentsFollow /\ CreatedFirst /\ HandlersKeep

CaughtUp ==
    /\ Busy = {}
    /\ \A n \in Node : sent[n] = Len(log[n]) /\ cur[n] = Len(feed)

\* Node n shows what is owed: the weight less every payment, or resolved when
\* nothing is left.
Current(n, o) ==
    \/ table[n][o].status = "open" /\ table[n][o].weight = owed[o] /\ owed[o] > 0
    \/ table[n][o].status = "resolved" /\ owed[o] = 0

\* When everything is delivered all mirrors show what is owed.  Three things
\* void this, and only those: overlapping sessions, a payment made from a
\* mirror that still lacked an event, and a failure between an UPDATE and its
\* event.
BooksBalance ==
    (astray = {} /\ CaughtUp) => \A n \in Node : \A i \in 1..Len(born) : Current(n, born[i])

\* The event leaves a row with what is owed.
Carries(ev) ==
    \/ /\ ev.type \in {"debt.created", "debt.adjusted"}
       /\ ev.weight = owed[ev.ob] /\ owed[ev.ob] > 0
    \/ ev.type = "debt.resolved" /\ owed[ev.ob] = 0

\* An event on o that a session has yet to emit, one that n has yet to push,
\* and one on which n's handlers have yet to run.
Emitting(o) == \E s \in Session : work[s].emit # << >> /\ work[s].emit[1].ob = o

Unpushed(n, o) == \E i \in sent[n] + 1 .. Len(log[n]) : log[n][i].ob = o

Unhandled(n, o) ==
    \/ \E m \in Node \ {n} : Unpushed(m, o)
    \/ \E k \in Handling(n) + 1 .. Len(feed) : feed[k].src # n /\ feed[k].ev.ob = o

\* The latest event on o, wherever it is, carries what is owed.
LatestCarries(o) ==
    /\ \A s \in Session : work[s].emit # << >> /\ work[s].emit[1].ob = o => Carries(work[s].emit[1])
    /\ ~Emitting(o) =>
         \A n \in Node : \A i \in sent[n] + 1 .. Len(log[n]) :
             log[n][i].ob = o /\ (\A j \in i + 1 .. Len(log[n]) : log[n][j].ob # o)
                 => Carries(log[n][i])
    /\ ~Emitting(o) /\ (\A n \in Node : ~Unpushed(n, o)) =>
         \A k \in 1..Len(feed) :
             feed[k].ev.ob = o /\ (\A j \in k + 1 .. Len(feed) : feed[j].ev.ob # o)
                 => Carries(feed[k].ev)

\* Who emits an event on o has handled all earlier ones.
AuthorsKnow(o) ==
    /\ Emitting(o) => ~Unhandled(here, o)
    /\ \A n \in Node : Unpushed(n, o) => ~Unhandled(n, o)
    /\ \A k \in 1..Len(feed) : \A j \in 1..k - 1 :
         feed[k].ev.ob = o /\ feed[j].ev.ob = o /\ feed[j].src # feed[k].src
             => j <= Handling(feed[k].src)

\* Nothing is paid on o once it is resolved.
ResolvedIsPaid(o) ==
    /\ \A n \in Node : table[n][o].status = "resolved" => owed[o] = 0
    /\ \A n \in Node : \A i \in 1..Len(log[n]) :
         log[n][i].ob = o /\ log[n][i].type = "debt.resolved" => owed[o] = 0

\* Who has handled all there is on o shows what is owed, and so does the node
\* where a payment runs; the payment goes by that.
ShownIsOwed(o) ==
    /\ table[o[1]][o].status # "none" =>
         /\ ~Unannounced(o)
         /\ \A n \in Node : ~Unhandled(n, o) /\ (Emitting(o) => n = here) => Current(n, o)
    /\ \A n \in Node : n # o[1] /\ table[n][o].status # "none" =>
         \E k \in 1..Handling(n) : IsCreated(feed[k].ev, o)
    /\ \A s \in Session : \A d \in work[s].todo :
         d.ob = o => /\ d = [ob |-> o, weight |-> owed[o]] /\ owed[o] > 0
                     /\ ~Unhandled(here, o)

\* The debt.created of o is emitted once.
CreatedOnce(o) ==
    /\ \A i, j \in 1..Len(log[o[1]]) : IsCreated(log[o[1]][i], o) /\ IsCreated(log[o[1]][j], o) => i = j
    /\ \A s \in Session : work[s].emit # << >> /\ IsCreated(work[s].emit[1], o) =>
         \A i \in 1..Len(log[o[1]]) : ~IsCreated(log[o[1]][i], o)
    /\ \A k \in 1..Len(feed) : IsCreated(feed[k].ev, o) =>
         /\ \E i \in 1..sent[o[1]] : IsCreated(log[o[1]][i], o)
         /\ \A j \in 1..Len(feed) : IsCreated(feed[j].ev, o) => j = k

\* What the mirrors, the logs and the feed say of o.
BookOf(o) ==
    /\ table[o[1]][o].status # "none" <=> \E i \in 1..Len(born) : born[i] = o
    /\ CreatedOnce(o) /\ LatestCarries(o) /\ AuthorsKnow(o) /\ ResolvedIsPaid(o) /\ ShownIsOwed(o)

\* The inductive invariant of BooksBalance.
BooksInv ==
    /\ AmountsInv
    /\ astray = {} => (\A s, t \in Busy : s = t) /\ \A o \in Obligation : BookOf(o)

\* A resolution reaches the table of every node: again and again there is a
\* time when none is on its way.
ResolutionSpreads ==
    []<>(\/ astray \cap {"overlap", "fault"} # {}
         \/ \A o \in Obligation :
              (\E n \in Node : \E i \in 1..Len(log[n]) : log[n][i] = Event("debt.resolved", o, 0))
                  => \A n \in Node : table[n][o].status = "resolved")

=============================================================================
