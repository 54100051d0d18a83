------------------------------- MODULE Travel -------------------------------
(***************************************************************************)
(* A character's journey between nodes: the sessions that depart           *)
(* (game/module.go travelScreen and departScreen, the TravelFn hook of     *)
(* cmd/node/main.go), the hub's travel queue (HubTravel) and the drain of  *)
(* Syncer.Tick that imports arrivals (fed/fed.go, engine/snapshot.go,      *)
(* game ImportState).                                                      *)
(*                                                                         *)
(* A character, in a row or a snapshot, is its status; of the game state   *)
(* the model counts the imports.  A step is one statement on a node's      *)
(* database or one step of a request at the hub.  ExportPlayer's reads,    *)
(* ImportPlayer's writes of the player and turn rows, and the writes of    *)
(* ImportState are one step each.                                          *)
(***************************************************************************)
EXTENDS HubTravel

CONSTANTS
    Clash,     \* pairs <<n, p>>: n has another player with p's name
    Session,   \* terminals through which players connect
    MaxFaults  \* bound: crashes, failed statements and lost answers

Status == {"active", "traveling"}

ASSUME TravelAssumption ==
    /\ Snapshot = [status : Status]
    /\ Clash \subseteq Node \X Player
    /\ Session \cup Node \subseteq Caller
    /\ MaxFaults \in Nat

VARIABLES
    char,    \* char[n][p]: n's row of players for p
    sess,    \* sess[s]: the session on terminal s
    tick,    \* tick[n]: the travel drain of n's Syncer
    imports, \* history: imports[i], how often ImportState wrote i's snapshot
    astray,  \* history: players whose departure nobody may have undone
    faults   \* failures so far

nodeVars == <<char, sess, tick, imports, astray, faults>>
travelVars == <<hubTravelVars, nodeVars>>

-----------------------------------------------------------------------------
Offline == [pc |-> "off"]

\* A session by the step of TravelFn it has reached; req is the request it
\* makes of the hub.
Playing(n, p) == [pc |-> "play", at |-> n, who |-> p]
InTravelFn(pc, c) == [pc |-> pc, at |-> c.from, who |-> c.player, req |-> c]

Idle == [pc |-> "idle", todo |-> {}, id |-> 0]

Init ==
    /\ HubInit
    /\ char = [n \in Node |-> [p \in Player |->
         IF Home[p] = n THEN [status |-> "active"] ELSE NoRow]]
    /\ sess = [s \in Session |-> Offline]
    /\ tick = [n \in Node |-> Idle]
    /\ imports = [i \in Id |-> 0]
    /\ astray = {}
    /\ faults = 0

Fault == faults < MaxFaults /\ faults' = faults + 1

\* Store.SetPlayerStatus.
SetPlayerStatus(n, p, st) == char' = [char EXCEPT ![n][p].status = st]

-----------------------------------------------------------------------------
(* Sessions. *)

\* Somebody plays, or departs with, p on terminal t.
LoggedIn(t, p) == sess[t] # Offline /\ sess[t].who = p

\* p's session on t is between MarkTraveling and the end of TravelFn, at n.
InDeparture(t, p, n) ==
    LoggedIn(t, p) /\ sess[t].at = n /\ sess[t].pc \in {"marked", "waiting", "failed"}

\* doLogin: the player's row exists here and is not traveling.
Login(s, n, p) ==
    /\ sess[s] = Offline
    /\ char[n][p].status = "active"
    /\ sess' = [sess EXCEPT ![s] = Playing(n, p)]
    /\ astray' = IF \E t \in Session : LoggedIn(t, p) THEN astray \cup {p} ELSE astray
    /\ UNCHANGED <<hubTravelVars, char, tick, imports, faults>>

Logout(s) ==
    /\ sess[s].pc = "play"
    /\ sess' = [sess EXCEPT ![s] = Offline]
    /\ UNCHANGED <<hubTravelVars, char, tick, imports, astray, faults>>

\* Where travelScreen and departScreen lead: any other node from home, and
\* only home from elsewhere.
Reachable(n, p) == IF Home[p] = n THEN Node \ {n} ELSE {Home[p]}

\* TravelFn: ExportPlayer reads the row and the game state ...
ExportPlayer(s, d) ==
    LET n == sess[s].at
        p == sess[s].who
    IN  /\ sess[s].pc = "play"
        /\ d \in Reachable(n, p)
        /\ sess' = [sess EXCEPT ![s] = InTravelFn("exported",
             [op |-> "submit", by |-> s, from |-> n, player |-> p, dest |-> d,
              snap |-> char[n][p]])]
        /\ UNCHANGED <<hubTravelVars, char, tick, imports, astray, faults>>

\* ... the row is locked against logins ...
MarkTraveling(s) ==
    /\ sess[s].pc = "exported"
    /\ SetPlayerStatus(sess[s].at, sess[s].who, "traveling")
    /\ sess' = [sess EXCEPT ![s].pc = "marked"]
    /\ UNCHANGED <<hubTravelVars, tick, imports, astray, faults>>

\* SetPlayerStatus fails: TravelFn returns before anything has changed.
MarkFails(s) ==
    /\ sess[s].pc = "exported"
    /\ Fault
    /\ sess' = [sess EXCEPT ![s] = Playing(sess[s].at, sess[s].who)]
    /\ UNCHANGED <<hubTravelVars, char, tick, imports, astray>>

\* ... and the snapshot is posted to the hub.
Submit(s) ==
    /\ sess[s].pc = "marked"
    /\ TravelSubmit(sess[s].req)
    /\ sess' = [sess EXCEPT ![s].pc = "waiting"]
    /\ UNCHANGED <<char, tick, imports, astray, faults>>

\* The handler refuses the destination, which the roster may offer although
\* it runs another game.
SubmitRejected(s) ==
    /\ sess[s].pc = "marked"
    /\ Game[sess[s].req.dest] # Game[sess[s].at]
    /\ sess' = [sess EXCEPT ![s].pc = "failed"]
    /\ UNCHANGED <<hubTravelVars, char, tick, imports, astray, faults>>

\* The transaction commits: showTraveling, and the session returns to the
\* threshold menu, still playing.
SubmitAccepted(s) ==
    /\ sess[s].pc = "waiting"
    /\ SubmitTravel(sess[s].req)
    /\ sess' = [sess EXCEPT ![s] = Playing(sess[s].at, sess[s].who)]
    /\ UNCHANGED <<char, tick, imports, astray, faults>>

\* 409 or 403.
SubmitRefused(s) ==
    /\ sess[s].pc = "waiting"
    /\ Refuses(sess[s].req)
    /\ sess' = [sess EXCEPT ![s].pc = "failed"]
    /\ UNCHANGED <<char, tick, imports, astray, faults>>

\* No answer: the request never arrived, or the hub still works on it.
SubmitLost(s) ==
    /\ sess[s].pc = "waiting"
    /\ Fault
    /\ calls' \in {calls, calls \ {sess[s].req}}
    /\ sess' = [sess EXCEPT ![s].pc = "failed"]
    /\ astray' = IF sess[s].req \in calls' THEN astray \cup {sess[s].who} ELSE astray
    /\ UNCHANGED <<nodes, travel, nextId, loc, reopened, char, tick, imports>>

\* Mutant: an error leaves the player locked out.
UndoForgotten(s) ==
    /\ sess[s].pc = "failed"
    /\ sess' = [sess EXCEPT ![s] = Playing(sess[s].at, sess[s].who)]
    /\ UNCHANGED <<hubTravelVars, char, tick, imports, astray, faults>>

\* Any error of SubmitTravel makes the player active here again.
UndoTraveling(s) ==
    /\ sess[s].pc = "failed"
    /\ SetPlayerStatus(sess[s].at, sess[s].who, "active")
    /\ sess' = [sess EXCEPT ![s] = Playing(sess[s].at, sess[s].who)]
    /\ UNCHANGED <<hubTravelVars, tick, imports, astray, faults>>

\* The error of that SetPlayerStatus is ignored: the row stays locked.
UndoFails(s) ==
    /\ sess[s].pc = "failed"
    /\ Fault
    /\ sess' = [sess EXCEPT ![s] = Playing(sess[s].at, sess[s].who)]
    /\ astray' = astray \cup {sess[s].who}
    /\ UNCHANGED <<hubTravelVars, char, tick, imports>>

-----------------------------------------------------------------------------
(* The travel drain of Syncer.Tick. *)

\* Mutant: the drain asks for the departures instead of the arrivals.
PendingFrom(n) == {i \in Id : Pending(i) /\ travel[i].from = n}

\* Mutant: the drain gets the arrivals that it has reported, too.
TravelTo(n) == {i \in Id : travel[i] # NoRow /\ travel[i].dest = n}

\* PendingTravel(n): the rows GET /v1/travel/pending returns.
PendingTravel(n) == {i \in Id : Pending(i) /\ travel[i].dest = n}

\* Mutant: the hub counts a delivered row as arrived.
DrainClaims(n) ==
    /\ tick[n] = Idle
    /\ tick' = [tick EXCEPT ![n] = [pc |-> "drain", todo |-> PendingTravel(n), id |-> 0]]
    /\ travel' = [i \in Id |->
         IF i \in PendingTravel(n) THEN [travel[i] EXCEPT !.status = "arrived"] ELSE travel[i]]
    /\ UNCHANGED <<nodes, nextId, loc, calls, reopened, char, sess, imports, astray, faults>>

DrainFetches(n) ==
    /\ tick[n] = Idle
    /\ tick' = [tick EXCEPT ![n] = [pc |-> "drain", todo |-> PendingTravel(n), id |-> 0]]
    /\ UNCHANGED <<hubTravelVars, char, sess, imports, astray, faults>>

DrainEnds(n) ==
    /\ tick[n].pc = "drain" /\ tick[n].todo = {}
    /\ tick' = [tick EXCEPT ![n] = Idle]
    /\ UNCHANGED <<hubTravelVars, char, sess, imports, astray, faults>>

\* ImportPlayer: the players row takes the snapshot's status.
ImportPlayer(n, i) ==
    LET p == travel[i].player
    IN  /\ tick[n].pc = "drain" /\ i \in tick[n].todo
        /\ <<n, p>> \notin Clash
        /\ char' = [char EXCEPT ![n][p] = travel[i].snap]
        /\ tick' = [tick EXCEPT ![n].pc = "row", ![n].id = i]
        /\ UNCHANGED <<hubTravelVars, sess, imports, astray, faults>>

\* bound: the history counts no further than would refute ImportsNeedFaults.
Counted(i) == [imports EXCEPT ![i] = IF @ < MaxFaults + 2 THEN @ + 1 ELSE @]

\* Ledger.ImportState writes the snapshot's character over what is there and
\* adds its goods to what is there.
ImportState(n) ==
    /\ tick[n].pc = "row"
    /\ imports' = Counted(tick[n].id)
    /\ tick' = [tick EXCEPT ![n].pc = "state"]
    /\ UNCHANGED <<hubTravelVars, char, sess, astray, faults>>

\* TravelImport: a returned player is active, and player.traveled is emitted.
ImportHome(n) ==
    LET p == travel[tick[n].id].player
    IN  /\ tick[n].pc = "state"
        /\ char' = [char EXCEPT ![n][p].status = IF Home[p] = n THEN "active" ELSE @]
        /\ tick' = [tick EXCEPT ![n].pc = "imported"]
        /\ UNCHANGED <<hubTravelVars, sess, imports, astray, faults>>

Arrival(n, i) == [op |-> "arrived", by |-> n, from |-> n, id |-> i]

\* What sending ArriveTravel from step pc does.
ReportsFrom(n, pc, i) ==
    /\ tick[n].pc = pc
    /\ TravelReport(Arrival(n, i))
    /\ tick' = [tick EXCEPT ![n].pc = "waiting", ![n].id = i]
    /\ UNCHANGED <<char, sess, imports, astray, faults>>

\* Mutant: the arrival is acknowledged before the import.
ReportArrivalFirst(n) == \E i \in tick[n].todo : ReportsFrom(n, "drain", i)

\* Client.ArriveTravel.
ReportArrival(n) == ReportsFrom(n, "imported", tick[n].id)

Dropped(n, i) ==
    tick' = [tick EXCEPT ![n] = [pc |-> "drain", todo |-> @.todo \ {i}, id |-> 0]]

NextArrival(n) == Dropped(n, tick[n].id)

\* The answer, an error included, only moves the drain on.
ArrivalAnswered(n) ==
    LET c == Arrival(n, tick[n].id)
    IN  /\ tick[n].pc = "waiting"
        /\ ArriveTravel(c) \/ Refuses(c)
        /\ NextArrival(n)
        /\ UNCHANGED <<char, sess, imports, astray, faults>>

ArrivalLost(n) ==
    /\ tick[n].pc = "waiting"
    /\ Fault
    /\ calls' \in {calls, calls \ {Arrival(n, tick[n].id)}}
    /\ NextArrival(n)
    /\ UNCHANGED <<nodes, travel, nextId, loc, reopened, char, sess, imports, astray>>

\* The UNIQUE name column refuses the row, now and at every later Tick.
ImportClashes(n, i) ==
    /\ tick[n].pc = "drain" /\ i \in tick[n].todo
    /\ <<n, travel[i].player>> \in Clash
    /\ Dropped(n, i)
    /\ UNCHANGED <<hubTravelVars, char, sess, imports, astray, faults>>

\* ImportState fails, before its first write or after some, or Emit does: the
\* request stays pending for the next Tick.
ImportFails(n) ==
    /\ tick[n].pc \in {"row", "imported"}
    /\ Fault
    /\ imports' \in {imports} \cup (IF tick[n].pc = "row" THEN {Counted(tick[n].id)} ELSE {})
    /\ NextArrival(n)
    /\ UNCHANGED <<hubTravelVars, char, sess, astray>>

\* An error of SetPlayerStatus is ignored.
ImportHomeFails(n) ==
    /\ tick[n].pc = "state"
    /\ Fault
    /\ tick' = [tick EXCEPT ![n].pc = "imported"]
    /\ UNCHANGED <<hubTravelVars, char, sess, imports, astray>>

-----------------------------------------------------------------------------
\* The requests somebody still waits for.
Awaited ==
    {sess[s].req : s \in {t \in Session : sess[t].pc = "waiting"}} \cup
    {Arrival(n, tick[n].id) : n \in {m \in Node : tick[m].pc = "waiting"}}

\* The hub finishes a request whose client is gone.
FinishAbandoned ==
    /\ \E c \in calls \ Awaited : Transaction(c)
    /\ UNCHANGED nodeVars

\* Node n stops with all its sessions and is started again.
Crash(n) ==
    /\ Fault
    /\ tick' = [tick EXCEPT ![n] = Idle]
    /\ sess' = [s \in Session |->
         IF sess[s] # Offline /\ sess[s].at = n THEN Offline ELSE sess[s]]
    /\ astray' = astray \cup {p \in Player : \E s \in Session : InDeparture(s, p, n)}
    /\ UNCHANGED <<hubTravelVars, char, imports>>

TravelFn(s) ==
    \/ MarkTraveling(s) \/ Submit(s) \/ SubmitRejected(s)
    \/ SubmitAccepted(s) \/ SubmitRefused(s) \/ UndoTraveling(s)

Drain(n) ==
    \/ DrainFetches(n) \/ DrainEnds(n)
    \/ \E i \in Id : ImportPlayer(n, i) \/ ImportClashes(n, i)
    \/ ImportState(n) \/ ImportHome(n)
    \/ ReportArrival(n) \/ ArrivalAnswered(n)

Next ==
    \/ \E s \in Session :
         \/ \E n \in Node, p \in Player : Login(s, n, p)
         \/ Logout(s)
         \/ \E d \in Node : ExportPlayer(s, d)
         \/ TravelFn(s) \/ MarkFails(s) \/ SubmitLost(s) \/ UndoFails(s)
    \/ \E n \in Node : Drain(n) \/ ArrivalLost(n) \/ ImportFails(n) \/ ImportHomeFails(n) \/ Crash(n)
    \/ FinishAbandoned

Spec == Init /\ [][Next]_travelVars

\* Tick runs for ever and gets as far as the drain (no batch is refused and no
\* handler fails at every Tick), a session that entered TravelFn goes on, and the
\* hub finishes what it works on.  Nothing is assumed of players or failures.
Fairness ==
    /\ \A n \in Node : WF_travelVars(Drain(n))
    /\ \A s \in Session : WF_travelVars(TravelFn(s))
    /\ WF_travelVars(FinishAbandoned)

FairSpec == Spec /\ Fairness

-----------------------------------------------------------------------------
(* Properties. *)

\* A row of players.
CharRow == [status : Status]

SessionState ==
    {Offline} \cup [pc : {"play"}, at : Node, who : Player]
        \cup [pc : {"exported", "marked", "waiting", "failed"}, at : Node, who : Player,
              req : SubmitCall]

\* The type of every variable of the hub and of the nodes.
TravelTypeOK ==
    /\ HubTypeOK /\ reopened = {}
    /\ char \in [Node -> [Player -> CharRow \cup {NoRow}]]
    /\ sess \in [Session -> SessionState]
    /\ tick \in [Node -> [pc : {"idle", "drain", "row", "state", "imported", "waiting"},
                          todo : SUBSET Id, id : 0..MaxTravels]]
    /\ imports \in [Id -> 0..MaxFaults + 2]
    /\ astray \subseteq Player
    /\ faults \in 0..MaxFaults

\* Whoever plays, or departs, has a row on that node, and departs in person.
SessionsHaveRows ==
    \A s \in Session : sess[s] # Offline =>
        /\ char[sess[s].at][sess[s].who] # NoRow
        /\ sess[s].pc # "play" => /\ sess[s].req.from = sess[s].at
                                  /\ sess[s].req.player = sess[s].who

\* n has imported travel i, at least the player's row.
Imported(n, i) ==
    travel[i] # NoRow /\ travel[i].dest = n /\ char[n][travel[i].player] # NoRow

\* A drain works on arrivals at its node, and past ImportPlayer on one whose
\* row is there.
DrainsHaveRows ==
    \A n \in Node :
        /\ \A i \in tick[n].todo : travel[i] # NoRow /\ travel[i].dest = n
        /\ tick[n].pc \notin {"idle", "drain"} => tick[n].id \in Id /\ Imported(n, tick[n].id)

\* No arrival is reported before its import, by a drain that is gone neither.
ReportsHaveRows ==
    \A c \in calls : c.op # "submit" => c.op = "arrived" /\ Imported(c.from, c.id)

\* Where the hub locates a player, that player's row exists: an arrival is
\* reported only after its import, and no abandoned or repeated report
\* overtakes one.
LocatedWhereImported ==
    \A p \in Player : char[CurrentNode(p)][p] # NoRow

\* Sessions, drains and the hub's projection always refer to rows that exist:
\* whoever plays has a row on that node, and so has whoever is located there.
TravelInv ==
    /\ TravelTypeOK /\ LocatedWhereImported
    /\ SessionsHaveRows /\ DrainsHaveRows /\ ReportsHaveRows

\* No session is inside TravelFn, no drain is at work and no request is open.
Quiet ==
    /\ calls = {}
    /\ \A s \in Session : sess[s].pc \in {"off", "play"}
    /\ \A n \in Node : tick[n] = Idle
    /\ \A i \in Id : ~Pending(i)

\* With nothing in progress every player can log in at the node where the hub
\* locates the player, however many travel, whatever departures were refused or
\* repeated from the origin's menu, and whatever failed at the nodes' Syncers.
\* Excepted is who was on two terminals at once, who was departing when the
\* node stopped, whose departure was given up while the hub had the request, and
\* whose refused departure could not be undone.
CanLoginWhereLocated ==
    Quiet => \A p \in Player \ astray : char[CurrentNode(p)][p].status = "active"

\* p's character is neither at n nor on the way to n: it has left, or another
\* node has it.
Gone(p, n) ==
    /\ \A i \in Id : Pending(i) /\ travel[i].player = p => travel[i].dest # n
    /\ \/ CurrentNode(p) # n
       \/ \E i \in Id : Pending(i) /\ travel[i].player = p /\ travel[i].from = n

\* p's row at n is active, or the session that marked it will undo that unless
\* it departs.
Usable(n, p) == char[n][p].status = "active" \/ \E t \in Session : InDeparture(t, p, n)

\* n's drain has imported arrival i, or the hub has a report of that, the report
\* of a drain that is gone included.
Importing(n, i) ==
    \/ tick[n].pc \notin {"idle", "drain"} /\ tick[n].id = i
    \/ \E c \in calls : c.op = "arrived" /\ c.from = n /\ c.id = i

PlaysOnce(p) == \A s, t \in Session : LoggedIn(s, p) /\ LoggedIn(t, p) => s = t

CarriesActive(p) ==
    \A i \in Id : travel[i] # NoRow /\ travel[i].player = p => travel[i].snap.status = "active"

\* A session that stays at the origin's menu after its departure can only
\* export a locked row while the hub refuses it.
LockedIsGone(p) ==
    \A t \in Session : LoggedIn(t, p) =>
        /\ sess[t].pc \in {"play", "exported"} /\ char[sess[t].at][p].status = "traveling"
             => Gone(p, sess[t].at)
        /\ sess[t].pc \in {"exported", "marked", "waiting"} /\ sess[t].req.snap.status = "traveling"
             => Gone(p, sess[t].at)

UsableWhereLocated(p) ==
    (\A i \in Id : Pending(i) => travel[i].player # p) => Usable(CurrentNode(p), p)

UsableWhereImported(p) ==
    \A n \in Node : \A i \in Id :
        Pending(i) /\ travel[i].player = p /\ Importing(n, i) => Usable(n, p)

\* Somebody waits for every departure of p that the hub still works on.
DeparturesAwaited(p) ==
    \A c \in calls : c.op = "submit" /\ c.player = p =>
        \E s \in Session : sess[s].pc = "waiting" /\ sess[s].req = c

\* What holds at every step for CanLoginWhereLocated to hold when all is quiet:
\* a locked row is left behind only where the player is not.
LoginOf(p) ==
    /\ PlaysOnce(p) /\ CarriesActive(p) /\ LockedIsGone(p) /\ DeparturesAwaited(p)
    /\ UsableWhereLocated(p) /\ UsableWhereImported(p)

LoginInv == \A p \in Player \ astray : LoginOf(p)

\* What a departure carried is written over the destination's character once,
\* and once more for each failure: no Tick imports a journey again, with the
\* goods a second time and over what has been played since, unless a statement
\* failed, an answer was lost or the node stopped.
ImportsNeedFaults ==
    \A i \in Id : imports[i] <= 1 + faults

\* n's drain may still import journey i: the hub lists it, or did when the drain
\* asked, and the drain is not between i's import and the hub's answer.
Due(n, i) ==
    /\ i \in tick[n].todo \/ (Pending(i) /\ travel[i].dest = n)
    /\ tick[n].pc \in {"state", "imported", "waiting"} => tick[n].id # i

\* What makes it inductive: an import that is still due has been left room for.
ImportBudget ==
    /\ ImportsNeedFaults
    /\ \A i \in Id : travel[i] = NoRow => imports[i] = 0
    /\ \A n \in Node, i \in Id : Due(n, i) => imports[i] <= faults
    /\ \A n \in Node : tick[n].pc # "idle" /\ tick[n].pc # "drain" => tick[n].id \in tick[n].todo

\* Every accepted departure arrives, after crashes, failed imports and lost
\* answers too, unless the destination knows the name already: the drain asks
\* again for what is still pending.
DeparturesArrive ==
    \A i \in Id :
        (Pending(i) /\ <<travel[i].dest, travel[i].player>> \notin Clash)
            ~> (travel[i].status = "arrived")

\* The hub enforces "that a character is active on exactly one node at a time"
\* (docs/FEDERATION_PROTOCOL.md:279): nobody plays it on two nodes.
PlayedOnOneNode ==
    \A s, t \in Session :
        (sess[s].pc = "play" /\ sess[t].pc = "play" /\ sess[s].who = sess[t].who)
            => sess[s].at = sess[t].at

=============================================================================
