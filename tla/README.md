# InterDOOR: TLA+ models, checks and proofs

InterDOOR federates independently operated SSH game nodes through one hub. A
node serves sessions of *Ledger of the Low* from its own SQLite database; a
background loop on each node (`Syncer`) exchanges events, attacks, travellers
and rosters with the hub over HTTP. Nodes never talk to each other. All paths
below are under `src/games/ledgerofthelow/` unless they start with `src/`.

## Inventory

| Component | State it keeps | Operations | Interacts with |
|---|---|---|---|
| Event log (`internal/engine/eventlog.go`, `store.go`) | `events`, `event_handler_state`, in-memory `seq` | `Emit`, `EventsSince`, `ApplyEvent` | sessions emit; the Syncer reads, and applies foreign events |
| Sync loop (`internal/fed/fed.go`, `engine/syncstate.go`) | `sync_state` cursors, the Tick in progress | `Tick`: heartbeat, push, pull and apply, PvP drain, travel drain, roster | calls the hub; calls the handlers and hooks of the game |
| Hub feed and Ledger index (`internal/hub`) | `events` by `hub_seq`, `debts` | `handleEventsPush`, `handleEventsPull` | nodes push and pull |
| Hub travel queue (`internal/hub`) | `travel`, `player_locations` | submit, pending, arrived, blocked | origin submits, destination drains and reports |
| Travel on nodes (`cmd/node/main.go`, `engine/snapshot.go`, `game/module.go`) | `players.status`, the character and its inventory | `TravelFn`, `ImportPlayer`, `ImportState` | sessions and Syncer of two nodes through the hub |
| Cross-node PvP | `pvp_requests`, victim's character, `pvp_log` | `QueuePvP`, `IncomingPvP`, `CompletePvP`, `BlockPvP`, handler of `pvp.resolved` | attacker's session, victim's Syncer, event log |
| Obligations (`engine/obligations.go`) | `obligations` mirrored on every node | `CreateObligation`, `PayDebt`, the `debt.*` handlers | sessions, event log, hub index |
| Turn economy (`engine/store.go`) | `turn_state` | `ResetIfNewDay`, `SpendActions`, `SpendAttack` | sessions of one player |
| Game rules (`game/module.go`, `combat.go`) | `char_state`, `inventory` | explore, fight, trade, rest, attack | a session works on its own copy of the character |
| Session server (`engine/server.go`, `auth.go`) | session count, idle clocks | accept, login, create, idle close, shutdown | runs the game |
| Registration and authentication (`hub/server.go`) | `nodes`, tokens, key hashes | register, auth, rotate, suspend, remove | every request |
| Roster and directory | `roster`, `remote_roster` | full push, pull, listing | wanderers and travel screens |
| Operator commands (`cmd/hubadmin`) | the hub's tables, audit rows | suspend, remove, retry, backup, tokens | run beside the hub on the same database |
| Terminal, art, content, portal, configuration | none that outlives a screen or a start | | |
| Empire Ascendant | | Pascal reference and a quarantined port that "must not be" built | none |

What is hard here: several sessions and the Syncer interleave on one database
with one lock per statement, never per operation; every remote effect is a
local statement, a request and another local statement, with a crash or a lost
answer possible at each gap; the hub keeps serving requests whose client has
given up; operators change tables under running requests. `PROJECT.json` lists
each hazard at its line, with the properties that cover it or the reason none
does.

What makes each component correct: the event log is delivered completely, once
in the feed, in source order, and no cursor passes an unhandled event; the
travel queue and the location projection agree and a player is in one place;
travel imports a character once and does not strand it; an attack takes
effect once on both sides; a payment reduces a debt once everywhere; a day's
budget is granted once; sessions stay under the limit and slots come back; a
key works until an operator ends it, and the roster is each node's own.

## Modules

| Module | Models | Composed with |
|---|---|---|
| `ReplicatedLog` | what the event spine promises, abstractly | |
| `EventSync` | event log, sync loop, hub feed, Ledger index | implements `ReplicatedLog` (`EventSyncRefinement`) |
| `HubTravel` | the hub's travel queue and location projection | |
| `Travel` | sessions, Syncers and characters that travel | extends `HubTravel`, implements `HubSpec` |
| `PvP` | attacks on the same node and across nodes | uses the delivery that `EventSync` establishes |
| `Obligations` | debts, barter, payments and the mirrors on every node | uses the delivery that `EventSync` establishes |
| `Character` | turn budget, the saved character and the sessions' copies of it, fights | |
| `SessionServer` | accept loop, session limit, idle watch, shutdown | |
| `HubRegistry` | registration, API keys, tokens, removal, roster exchange | |

Each `MC` module gives its module's constants values; each of the eight
specifications has its theorems in a module named `...Proof`. Definitions
commented "Mutant" are faulty variants of the definition after them; no
specification uses them. Variables are named after the table or field they
stand for. Variables marked *history* record what happened for the properties'
sake; no guard reads them. Recursion over data (barter, sums) is written with
recursive functions and folds, so that every module can be proved about.

**`EventSync`** is the event spine. `Emit`/`EmitFails` are `Store.Emit` with its
counter; `TickPush`, `PushAcked`, `Pull`, `ApplyStores`, `HandlerSkipped`,
`HandlerRuns`, `MarkHandler`, `SetHubCursor`, `TickEnds` are the statements of
`Syncer.Tick` and `ApplyEvent` in their order; `HubServes` is
`handleEventsPush`, one row of `AppendEvents` or `MaterializeEvents` per step,
all appends of a batch before its materializations. `TickAborts` is any error
return; it leaves the request with the hub as a *zombie* (`HubServesZombie`),
because the handlers ignore the request's context. `Crash` keeps what is on
disk, `Restart` is `Migrate`. Event contents come from the constant `Event`, so
that a run can choose debts and fights; handlers are counted, not interpreted.
`FeedSince` uses ranks in the feed as `hub_seq`: the hub deletes feed rows only
in node-remove, which this module leaves out.

**`EventSyncRefinement`** maps `EventSync` to `ReplicatedLog`: a node's log is
what it emitted, the feed is what is published, and an event is consumed at a
node once it is stored there and its last handler is marked. Requests, retries,
zombies, pages, cursors, crashes and restarts are stutters.

**`HubTravel`** is the hub's side of travel. A request is admitted by its
handler (authentication, destination, game) and later committed or refused by
one transaction; `calls` holds the admitted ones. `NodeStatus` and `NodeRemove`
and `QueueRetry` are the operator's commands, `RegisterNode` the hub's. Travel
ids are numbers instead of random strings; a row's `home_node` is its player's.
`reopened` (history) names the players of whom queue-retry made a request
pending that their location row no longer points at.

**`Travel`** extends `HubTravel` by the nodes. A session goes through
`ExportPlayer`, `MarkTraveling`, `Submit`, and `SubmitAccepted` (back to the
menu, still playing) or `SubmitRejected`/`SubmitRefused`/`SubmitLost` followed
by `UndoTraveling`; either `SetPlayerStatus` may fail (`MarkFails`, `UndoFails`:
the second error is ignored, and the row stays locked). A Syncer goes through `DrainFetches`, `ImportPlayer`,
`ImportState`, `ImportHome`, `ReportArrival`, `ArrivalAnswered`. Lost requests
either never reached the hub or remain in `calls` and are finished by
`FinishAbandoned`. A character is its status. Its goods are left out: sessions,
barter and robbers change them on both nodes while the character is away, and
the import adds to what it finds; `imports` (history) counts how often a journey
was imported instead, part of an import included. `Clash` says where the UNIQUE
name column refuses an import. `astray` (history) names the players whose
departure nobody may have undone: they logged in on a second terminal, were in
`TravelFn` when their node stopped, gave a departure up that the hub still had,
or were refused when the undo failed. Operator commands stay in `HubTravel`.

**`PvP`** follows one attack per number through `stage`. `Pick` is `attackMenu`
with `canAttackVictim`; the attack is then local (`LocalWin`/`LocalLose`,
`LocalTake`, `LocalGive`, `LocalRecord`: `resolvePvP`, `stealLoot`,
`transferLoot`) or remote (`PostAttack`, `PostAnswered`, `PostGivesUp`:
`resolvePvPRemote`). `HubQueues`/`HubRefuses` are `handlePvPQueue`. The victim's
Syncer goes through `Fetch`, then per request `BlockMalformed` or `Fight`,
`Take`, `EmitResult`, `Complete`; `EmitFails` and `CompleteFails` are its error
paths, and a report whose sender gave up is served by `HubCompletesLate`.
`HandlerRuns` and `HandlerMarked` are the handler of `pvp.resolved` and
`markHandler`; `HandlerFails` is the handler when its `addGoods` or its UPDATE
fails, which it only logs or ignores, so that the event is marked all the same
(`unpaid`, history). `Drain` collects what the one goroutine of a node's Syncer does
with the queue. The outcome of a bout is a free choice; goods are one kind, and
the loot is any amount the code's fraction and caps allow. `Legacy` are requests
an older hub left in the queue whose payload does not decode: the present hub
refuses them, so only for these is `BlockPvP` reachable. The two statements of
`stealLoot` that take an item are one step; the inbox's "seen" flag is left out.

**`Obligations`** follows one player's debts. `Buy` is `buy` (and the
Bonesetter's fee) up to the INSERT of `CreateObligation`; `PayDebt` is `payDebt`
with the set of rows that `OpenDebts` read; `PayResolves`/`PayAdjusts` are the
UPDATEs of the loop, which takes the oldest row of that set first
(`PayingNext`), and `EmitEvent` the event after each. `BuyFails`, `PayFails` and
`EmitFails` are the errors of the INSERT (whose number the counter has already
counted), the UPDATE and the event. `HandlerRuns` applies
`debt.created`, `debt.adjusted` or `debt.resolved` to a mirror. `Consume` is
`consumeForCost`. `Resumed` is `Migrate`'s query for the id counter. `Move` is
travel, which carries the purse and waits for no event.

**`Character`** is one player of one node. A login is `Enter` (or `Create`),
`LoginRead`, `LoginReset`, `Heal`, `Greet`; at the menu a session works on
`copy`, and every action that calls `saveChar` writes the whole copy. `Explore`,
`FightHit`, `FightWon`, `FightFled`, `Die`, `Drain`, `Rest`, `Mend` and
`AttackRival` are the game's; `RaidLoads`/`RaidSaves` are what an attack by
somebody else does to the row. Days are numbers, hit points and damage are
small; `Creatures` keeps the order of the bands.

**`SessionServer`** has the accept loop (`serve`), the main goroutine (`main`),
connections and their channels. `CheckLimit` and `AcceptChannel` are the check
of `handleConn` and the increment after it; `Server` collects what goroutines do
by themselves, `Key`, `Quit`, `Hangup`, `Vanish` what clients do. `Idles` is the
passing of the idle timeout. `IdleWatch` calls `ch.Close`, which only sends a
message: the pending read ends when the client answers it (`ClientAnswers`) or
the connection fails, which it does when the client is gone and nobody
acknowledges the message (`TransportFails`).

**`HubRegistry`** has the hub's `nodes`, `roster` and token file, and each node's
stored key, players and remote cache. A request is checked (`CheckRegister`,
`Auth`) and executed (`InsertNode`, `UpsertRoster`) in separate steps, outlives
a client that gives up, and is answered by `Reply`. `RotateKey`, `NodeRemove`,
`NodeStatus`, `TokenIssue`, `TokenRevoke` are the operator's, `InstallKey` is the
sysop who copies a rotated key. A player row is a version number, which
`PlayerChanges` raises. What a heartbeat stores is left out; it authenticates,
and its failure ends the Tick. Between the heartbeat and the roster a Tick pushes
and handles events and drains two queues; `EventsFail` is any of the early
returns there, as often as it likes.

## Runs

| Run | Checks | Bounds |
|---|---|---|
| `event_sync` | the inductive invariant (types, a feed without duplicates and in source order among its parts); the feed is complete; no cursor passes an unhandled event or moves back; handlers repeat only after faults; a resolved debt stays resolved in the hub's index; the refinement of `ReplicatedLog` | 2 nodes, 2 events each, pages of 1, 2 faults |
| `event_sync_live` | every event arrives at the other node | as above with 1 fault, fairness |
| `hub_travel` | queue and projection agree, one pending request, moves only by arrival, but for players whose old request an operator reopened | 2 players, 3 nodes of 2 games, 3 journeys, 2 requests at a time |
| `hub_travel_retry` (violation) | one pending request per player, after queue-retry too | 1 player, 2 nodes, 2 journeys, 1 request at a time |
| `travel` | the hub locates a player only where the character was imported; who is not astray can log in where located; a journey is imported once, and again only after a failure; the composition implements `HubSpec` | 2 sessions, 2 nodes, 2 journeys, 1 fault |
| `travel_live` | departures arrive | 2 players, 2 journeys, 1 fault, fairness |
| `travel_two_nodes` (violation) | a character is played on one node | 2 sessions |
| `pvp` | a result is announced before its request is closed; one credit per attack and fault; loot is conserved; the cooldown; accepted attacks come back, credited unless `addGoods` failed | 4 players on 2 nodes, 2 attacks, victims hit once a day, 1 malformed request, 1 fault, fairness |
| `obligations` | ids are fresh; barter is tight; `debt.created` comes first; a resolution wins and spreads; the books balance | 1 session, 2 nodes, 2 debts, 2 goods of 2 weights, 1 move, 2 faults, fairness |
| `character` | budget, rests, death and depth record over sessions, days and raids; nothing unsaved at the menu | 2 sessions, 3 calendar days, 4 actions, 1 fault |
| `session_server` | the counter is right, the limit overrun is bounded, slots come back, a shutdown is clean | 2 connections, 3 channels, limit 1, 1 fault, fairness |
| `hub_registry` | keys hold, lock-outs need a fault, the roster is owned, cleared by removal, and converges between nodes whose Ticks reach it | 2 nodes, 1 player, 3 keys, 2 tokens, 1 change, 1 operator command, 1 fault, fairness |

Type invariants are checked as the first part of a module's main invariant
(`IndInv`, `TravelInv`, `QueueInv`, `IdInv`, `TurnInv`, `SlotInv`, `KeyInv`), whose
other parts carry its weight: `LocatedWhereImported` and that sessions, drains
and reports refer to rows that exist; `ResolvedIsAnnounced`, the same of reports
still under way, and that drains work on their own node's posted requests;
`IdsAreFresh`, and that no mirror and no event is about an obligation its source
lacks; `BudgetHolds` and `SingleReset`; `CountMatches` and `SlotsBounded`;
`GrantHolds` and `LockOutNeedsFault`. `RosterInv` is `RosterOwned`,
`RemovedLeavesNoRows` and `PushesAreOwn`. These parts are what makes the
invariants inductive; they were checked by TLC before they were proved.

Why the bounds are enough. Two events per node and pages of one make every
pair of consecutive events cross a page, a retry and a crash; two faults allow
an abandoned request and a second failure while it is still served. Two
journeys are there and back, the third in `hub_travel` makes reports of a former
journey late.
One player suffices in `Travel` because rows of different players share nothing
but the drain, and the second one in `travel_live` exists for the name clash.
In `pvp` two attacks cover a local and a remote one on one victim, two at once
in one drain, and one after the other across the cooldown; a cap of one hit a
day makes the daily cap bite. In `obligations` the
lighter good pays a debt in part and the heavier in full, one move is to the
mirror that may be stale, and two faults are a failed INSERT and the restart that
forgets its number, or a lost event and a lost handler. In `character` four actions are an expedition with its fight and a rest,
or the day after it, and three days let midnight fall between the read and the
UPDATE of a reset and once more after it; sessions are interchangeable there
and in `travel`, whose safety runs use symmetry. Three channels on two connections race for one slot
within and across connections. In `hub_registry` one fault and one command are a
lost registration and its repair, or a removal under a request in flight.

The invariant behind `CanLoginWhereLocated` (`LoginInv`) was also checked with two
faults and three journeys on one terminal.

## What the models show of the code

Two findings in `PROJECT.json`, each with its run and the sentence it
contradicts: a session keeps playing after its departure (`travel_two_nodes`), and
hubadmin's queue-retry can leave a player with two pending requests
(`hub_travel_retry`). The properties are stated as strongly as the code
allows, and their exceptions are behaviours a maintainer should know.

- Events. `HandlerRerunNeedsFault` is as much as holds of `eventlog.go:22`,
  "Handlers run only the first time an event is applied": after a crash between
  a handler and its mark it runs again. A weight in the hub's Ledger can go back
  when a push that was given up re-materializes an old `debt.adjusted`
  (`hub/server.go:184`); a resolution cannot.
- Travel. A refused second departure makes the player active at the origin again
  (`cmd/node/main.go:120`). Four things can lock a player out where the hub
  says the player is, and `CanLoginWhereLocated` names exactly these: a node that
  stops after the status and before the answer (`main.go:116`); two terminals at
  once, of which one exports the locked row while the player is away and submits
  it, status `traveling` and all, after the return; a departure given up
  while the hub has it, which may commit later and carry such a snapshot; and a
  refused departure whose `SetPlayerStatus("active")` fails, since that error is
  ignored. A lost answer to the arrival's report imports the character again over
  what was played since; `ImportsNeedFaults` says that each repetition takes a
  failure. Two things the models leave out, from reading the code: a journey and
  back doubles the goods, because the import adds to what departure left
  (`module.go:154`), and what a departed session still finds at the origin stays
  behind.
- PvP. The victim's daily cap and the cooldown are checked where the attack
  starts, never where it is resolved (`IncomingPvP`); a lost answer to the
  request leaves no row, so the cooldown does not see that attack; a result that
  is handled before the attacker's INSERT leaves that row pending. Two fights on
  one victim at once can make goods; a crash between taking and emitting loses
  them, and so does a failing `addGoods` in the attacker's handler, which is
  logged and not tried again (`module.go:1474`); a lost `CompletePvP` repeats the
  fight. A visitor's attack is spent and
  then refused by the hub.
- Obligations. The row is reduced relatively and the event carries an absolute
  weight computed from an earlier read, so a payment from a stale mirror makes
  the mirrors differ for ever and can make a weight negative; a failure between
  UPDATE and event does so too; overlapping sessions can emit a resolution
  before its creation. `BooksBalance` names exactly these three. A failed INSERT uses an
  id up in memory only (`obligations.go:29`): after a restart the next obligation
  gets that id, which no row and no event ever had (`IdInv`).
- Character. Two logins that race at a new day reset twice, after one has
  already spent; a login whose `ResetIfNewDay` reads before midnight and updates
  after it dates the reset before midnight, so that the next login resets again; a stale copy saved over a newer row loses depth, rests or the
  mark of death; a disconnect in a fight counts as fled; a crash between a lost
  fight and its save undoes the death; a session past midnight goes on with the
  old budget and gets the new one at its next login.
- Session server. The limit is overrun by up to one session per other
  connection; a channel that never asks for a shell keeps its slot, since
  `idleWatch` starts afterwards, and so does a client that is connected and never
  answers the watch's CLOSE: the watch tries once, and `ch.Close` does not by
  itself end the pending read, as the comment at `server.go:176` has it
  (`SlotsComeBack` is about clients that are gone). A client that is gone
  gives its slot back because the message that nobody acknowledges makes the
  connection fail. `main` starts the server before
  `SetCrossNodeAttack` and `SetTravelFn`, which `server.go:34` and `:38` want
  called before.
- Registry. A lost answer to the first registration locks the node out (409)
  until rotate-key or node-remove; a revoked token works until the hub restarts,
  and with an empty token file the hub does not start; a push authenticated
  before a removal brings roster rows back, and an abandoned push sets the
  roster back until the next Tick. A node whose batch the hub refuses
  (`hub/server.go:335`), or of whose handlers one fails at every Tick
  (`fed.go:343`), is in touch with the hub and still exchanges no roster, no
  attack and no traveller: `RosterConverges` is about nodes whose Ticks get past
  their events again and again.

## Fairness

Failures are finite in every module, but for the early returns of a Tick in
`HubRegistry`, which are not counted. Nothing is assumed of players, operators and
clients of the session server, and of the network only what is said below.

`EventSync`: weak fairness of `Sync(n)`: `Run` fires its ticker until the
process ends, the hub answers requests, and an operator restarts a node. The
HTTP client has no timeout, so a call that hangs for ever is outside this
assumption. `Travel`: weak fairness of each drain, of a session that has entered
`TravelFn` (it waits for no input there) and of the hub finishing what reached
it. In `Travel` and `PvP` a Tick thereby gets as far as its drain: a batch that is
refused or a handler that fails for ever is left out there. `PvP`: each node's Syncer ticks and goes through what it fetched (weak fairness
of its `Drain`, one goroutine), the hub serves what it is sent, the feed delivers (which `event_sync_live` checks).
`Obligations`: an operation that a session began runs to its end, and the
Syncers tick. `SessionServer`: goroutines run and time passes, and TCP gives a
connection up when a packet stays unacknowledged. `HubRegistry`: the hub serves
what reached it and a running node's Syncer its ticker; starts, restarts and
installing a key are not assumed, and that Ticks reach the roster again and again
is a premise of `RosterConverges` (`GetsPastEvents`), not of the specification.

## Proofs

TLAPS checks every obligation of the eight `...Proof` modules, for all values of
the constants under the named assumptions of the modules (bounds are naturals,
pages are not empty, events, homes and goods are well typed; `PvP` also says that
there are finitely many nodes and players, since it sums over them). Nothing else
is assumed about the number of nodes, players, sessions, attacks, debts or faults. None of
the properties is inductive alone; what each proof adds is named here, and TLC
checked it on the module's run before it was proved.

`EventSync`. `IndInv` adds: the counter is ahead of the log while a node runs
(so `Emit` reuses nothing); a request, live or abandoned, leaves no hole before
a row it still has to append, and the live one covers everything up to its last
seq (so the cursor may move there); the feed is closed downwards for each
source; a page contains every foreign row between the cursor and its own rows;
the event being handled is stored and its earlier handlers are marked; a stored
event has everything before it handled; executions of a handler are paid for by
faults. `Invariance` proves it action by action; `TypeCorrect`,
`FeedIsFaithful`, `FeedListsOnce`, `FeedIsOrdered`, `CursorIsSafe`,
`SourceOrderIsKept`, `RerunsNeedFaults` are read off, `CursorsAreMonotone` and
`ResolvedIsFinal` (the hub's Ledger) are action properties.

`ReplicatedLog`. `Implementation` proves that `EventSync` implements it under
the mapping of `EventSyncRefinement`: a logged event is `Emit`, a row appended at
the hub is `Publish` (the feed is closed downwards for its source, so it is the
first that is missing), and a stored row or the mark of a last handler consumes
its event or nothing. It is the event `Consume` takes since the row is the first
of its page and everything before a page is applied (`NoGapBelowCursor`).
Everything else, retries, zombies, crashes and restarts included, is a stutter.

`HubTravel`. `HubInd` says that ids at or above `nextId` are unused and that a
pending row and its player's location row point at each other, unless an
operator has reopened a request the player had left behind (`HubInvariance`,
`PendingLocated`). `OnePending` follows since a location row holds one id;
`MovesByArrival` is the action property. The proof of `NodeRemove` is where the
columns of the two DELETE statements matter: a location deleted for its
current or home node takes the pending row along.

`Travel`. `NodesUseTheHub` proves that every step of the composition is a step
of `HubTravel` or a stutter, so the four theorems above hold of it; it needs
`TravelInd`, which is `HubInd` with `TravelInv`: what a session submits and what
a drain reports are arguments `HubTravel` allows only because the rows they come
from exist. `RowsExist` is that invariant itself: a journey is reported arrived
after its import, and rows are never deleted, so the hub locates a player only
where a row is. `ImportsArePaid` (`ImportsNeedFaults`) needs `ImportBudget`: an
import that may still come, because the hub lists the journey or a drain has
fetched it, has been left room for, and only a failure makes an import come that
was not expected, or come again.
`TravelersCanLogin` needs `LoginInv`, six facts about each player who is not
astray. The player is on one terminal; snapshots in the travel table are
`active`; the hub works on a departure only while its session waits; a session
that sees or carries a locked row is at a node the character has left (`Gone`),
so the hub refuses what it submits and the undo makes a row active that nobody
needs; and where the hub locates the player, or a drain is importing the
player, the row is active or locked by a session that will undo it (`Usable`).
The proof takes one lemma per kind of step: what a session does to its own
player, what it does to others, a drain, an arrival, an accepted departure, a
stop, and a request whose client is gone.

`PvP`. `QueueAgrees` proves `QueueInv`: what is resolved, or reported by a live
or abandoned call, is in the victim's log, because a drain reports after
`IncomingPvP` returned without error. `CooldownIsKept` needs `RestInv`: between
the check and the row of an attack no other row of that pair appears, unless the
player has another attack under way. `CreditsAreBounded` needs `CreditBudget`:
credits given, results whose handler has still to run and a fight that may still
come are at most one together, and one more for every fault. Each failure buys
one of them (a repeated fight after a lost report, a repeated handler after a
lost mark), and no other step adds to the sum.
`LootIsConserved` (`GoodsConserved`) needs `LootInv`: what a fight decided to
take from a victim outside `raced` is in the inventory and no other fight takes
from it, so `stealLoot` takes all of it; a request the hub has seen is between
two nodes, so its result is due at another node; and no handler runs ahead of
the log, so a new result is still to be handled. Then each step moves an amount
between three sums, the inventories, what fights hold (`Taken`) and what results
announce (`Owed`), and changes one term of each. That a fold over a finite set
of integers is an integer, and changes by what one term changes, is proved in
the module for every set and function (`SumTakesAny`, `SumChanged`), by
induction over subsets as the search for a least counterexample.

`Obligations`. `DebtInv` relates the logs, the feed and the mirrors. A row at a
mirror has its `debt.created` in the feed; an event has a row at the node that
emits it (`IdInv`, which also holds the counter of ids: `CounterResumes` shows
that what `Migrate` finds is not behind any row of the node). `PaymentsFollow` says that
whatever a node adjusts or resolves, or is about to, has its `debt.created`
earlier in the same log, in the feed already, or lost for good because the crash
came between the INSERT and the event; `Push` then gives
`PaymentsComeAfterDebts`. `HandlersKeep` says that a handler that has gone past
a resolution left a resolved row, or found no row of an obligation whose
`debt.created` will never come; with it `ResolutionIsFinal` follows, since a row
that is open at a mirror came from the feed. `MirrorsShowWhatIsOwed`
(`BooksBalance`) needs `BooksInv`: the latest event about a debt carries what is
owed on it, its author had handled everything before it, and whoever has
handled all shows that weight; a payment from such a row is exact, and any other
puts the debt among the exceptions the property names. `AmountsInv` types the
weights. `GoodsAreHandedOverTightly` (`ConsumeIsTight`) is about `consumeForCost`
for any goods and any cost: an induction over the turns of its loop, carried out
as the search for a least counterexample (`WFMin` on the naturals), says that
what is handed over covers the price or is all there is, and would not cover it
without the heaviest good taken.

`Character`. `CharInv` adds to the properties: what a session holds is alive and
in bounds, days in the character's fields are never ahead of `day_index`, a copy
that nobody has overwritten agrees with the row, rests of the day are counted in
the row and in every fresh copy, a death of the day is marked in both, and
without a race one login at a time is about to reset. `BudgetIsKept`,
`StoredAlive`, `RestsAreBounded` and `MenusAreSaved` are read off;
`DepthOnlyGrows` and `DeadStayHome` are action properties.

`SessionServer`. `SlotsHold`: each connection has at most one admitted channel,
and admitted channels count against the overrun, so the increment after the
check keeps the bound. `ShutdownIsClean`: the flag is set before the listener is
closed, so the loop that finds it closed returns nil.

`HubRegistry`. `RegistryInv` is `KeyInv` and `RosterInv` together: it says where
the key of a node is while the node starts, registers and runs, that a node
waits for one answer at a time, that without a failure nobody gives up on a
request, and that a push under way carries its sender's own players. `KeysAgree`
and `RosterIsOwned` are read off.

Only model-checked:

- the liveness properties (`EveryEventArrives`, `DeparturesArrive`,
  `AttackReturns`, `ResolutionSpreads`, `SlotsComeBack`, `RosterConverges`):
  liveness under fairness and ENABLED are out of the prover's reach;
- the two violation runs.

## Not modelled

- The schema and compatibility checks of a pushed batch (EventSync takes batches
  that pass them), and JSON decoding as such.
- hubadmin's node-title and backup; audit rows.
- The inventory in travel: `ImportState` adds the snapshot's goods to what is
  there, while sessions, barter and robbers change it on both nodes.
- Errors the code ignores in places where no property reads the result: the
  statements of `MaterializeEvents` (`hub/sqlite.go:365`, `:378`, `:389`: the
  Ledger then shows an older state of a debt), of `consumeForCost`, and of
  `saveChar` (`Character` has every save succeed).
- What heartbeats store, the directory, the portal's pages.
- Password hashing, rendering, art and text, the effect of gear on fights.
- Configuration, beyond the token file read at the hub's start.
- The day marks (`dead_day`, `rest_day`) that travel carries to a node with
  another `day_index`.
- Empire Ascendant: reference material and quarantined code that is not built.

## Plan

The checks of a pushed batch against the decoders of the handlers, and
node-remove's effect on the feed, in `EventSync`, so that a batch that is refused
and a handler that fails at every Tick have their causes in the model.
