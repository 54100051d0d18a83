------------------------------ MODULE HubTravel ------------------------------
(***************************************************************************)
(* The hub's travel queue and its player-location projection               *)
(* (hub/server.go handleTravel*, hub/sqlite.go SubmitTravel, ArriveTravel, *)
(* BlockTravel), with the operator commands that touch the same rows       *)
(* (cmd/hubadmin).                                                         *)
(*                                                                         *)
(* A request is served in two steps: the handler authenticates the caller  *)
(* and checks the destination, and then one SQL transaction does the work. *)
(* Between the two the operator may suspend or remove a node and other     *)
(* requests may commit, and the caller may be gone.  A transaction is one  *)
(* step: the hub has one database connection, and SQLite serialises it     *)
(* with the connection of hubadmin.                                        *)
(***************************************************************************)
EXTENDS Integers, FiniteSets

CONSTANTS
    Node,       \* node ids
    Player,     \* global player ids
    Home,       \* Home[p]: the node id before ":" in p, p's home_node
    Game,       \* Game[n]: the game_id node n is registered with
    Snapshot,   \* character snapshots; opaque to the hub
    Caller,     \* who waits for the answer to a request
    MaxTravels, \* bound: travel requests accepted
    MaxCalls    \* bound: requests in progress at the hub

Id == 1..MaxTravels

ASSUME HubTravelAssumption ==
    /\ Home \in [Player -> Node]
    /\ MaxTravels \in Nat
    /\ MaxCalls \in Nat

VARIABLES
    nodes,   \* nodes[n]: n's row in the nodes table, by status
    travel,  \* travel[i]: the travel table by travel_id
    nextId,  \* travel ids below are used; stands for the random 64-bit ids
    loc,     \* loc[p]: the player_locations table by global_id
    calls,   \* requests whose handler has passed its checks
    reopened \* history: players of whom an operator reopened an old request

hubTravelVars == <<nodes, travel, nextId, loc, calls, reopened>>

-----------------------------------------------------------------------------
NoRow == [status |-> "none"]

\* A row's home_node is Home[player]: every node sends it with the snapshot.
Row == [player : Player, from : Node, dest : Node, snap : Snapshot,
        status : {"pending", "arrived", "blocked"}]

\* A player_locations row; travel_id 0 is NULL.
Location == [status : {"active", "traveling"}, at : Node, id : 0..MaxTravels]

SubmitCall == [op : {"submit"}, by : Caller, from : Node, player : Player,
               dest : Node, snap : Snapshot]

\* POST /v1/travel/{id}/arrived and /blocked.
ReportCall == [op : {"arrived", "blocked"}, by : Caller, from : Node, id : Id]

Call == SubmitCall \cup ReportCall

Pending(i) == travel[i].status = "pending"

\* currentLocation, with the id's prefix for a player who never travelled.
CurrentNode(p) == IF loc[p] = NoRow THEN Home[p] ELSE loc[p].at

HubInit ==
    /\ nodes = [n \in Node |-> "active"]
    /\ travel = [i \in Id |-> NoRow]
    /\ nextId = 1
    /\ loc = [p \in Player |-> NoRow]
    /\ calls = {}
    /\ reopened = {}

-----------------------------------------------------------------------------
(* The handlers: auth, then the checks made outside the transaction. *)

\* auth: the key belongs to a registered node that is active.
Auth(n) == nodes[n] = "active"

Admit(c) ==
    /\ c \notin calls
    /\ calls' = calls \cup {c}
    /\ Cardinality(calls) < MaxCalls

\* handleTravelSubmit up to the call of SubmitTravel.
TravelSubmit(c) ==
    /\ Admit(c)
    /\ Auth(c.from)
    /\ nodes[c.dest] = "active"
    /\ Game[c.dest] = Game[c.from]
    /\ UNCHANGED <<nodes, travel, nextId, loc, reopened>>

\* handleTravelArrived and handleTravelBlocked.  The caller knows the id from
\* an answer to GET /v1/travel/pending.
TravelReport(c) ==
    /\ Admit(c)
    /\ Auth(c.from)
    /\ c.id < nextId
    /\ UNCHANGED <<nodes, travel, nextId, loc, reopened>>

-----------------------------------------------------------------------------
(* The transactions. *)

\* Mutant: the check for a pending request is dropped.
AcceptsInTransit(c) == CurrentNode(c.player) = c.from /\ c.dest # c.from

\* Mutant: nobody compares the sender with the player's location.
AcceptsAnySender(c) ==
    (\A i \in Id : Pending(i) => travel[i].player # c.player) /\ c.dest # c.from

\* SubmitTravel's checks: ErrTravelActive, then ErrLocationMismatch twice.
Accepts(c) ==
    /\ \A i \in Id : Pending(i) => travel[i].player # c.player
    /\ CurrentNode(c.player) = c.from
    /\ c.dest # c.from

Departs(c) ==
    /\ travel' = [travel EXCEPT ![nextId] =
         [player |-> c.player, from |-> c.from, dest |-> c.dest,
          snap |-> c.snap, status |-> "pending"]]
    /\ loc' = [loc EXCEPT ![c.player] =
         [status |-> "traveling", at |-> c.from, id |-> nextId]]
    /\ nextId' = nextId + 1

\* SubmitTravel commits.
SubmitTravel(c) ==
    /\ c \in calls /\ c.op = "submit"
    /\ Accepts(c)
    /\ nextId <= MaxTravels
    /\ Departs(c)
    /\ calls' = calls \ {c}
    /\ UNCHANGED <<nodes, reopened>>

\* SubmitTravel or the answer to a report is an error; nothing is written.
Refuses(c) ==
    /\ c \in calls
    /\ IF c.op = "submit" THEN ~Accepts(c)
       ELSE ~(Pending(c.id) /\ travel[c.id].dest = c.from)
    /\ calls' = calls \ {c}
    /\ UNCHANGED <<nodes, travel, nextId, loc, reopened>>

Arrives(i, n) ==
    /\ travel' = [travel EXCEPT ![i].status = "arrived"]
    /\ loc' = [loc EXCEPT ![travel[i].player] = [status |-> "active", at |-> n, id |-> 0]]

\* ArriveTravel commits: the row and the player's location in one transaction.
ArriveTravel(c) ==
    /\ c \in calls /\ c.op = "arrived"
    /\ Pending(c.id) /\ travel[c.id].dest = c.from
    /\ Arrives(c.id, c.from)
    /\ calls' = calls \ {c}
    /\ UNCHANGED <<nodes, nextId, reopened>>

\* BlockTravel: the travel row alone; the location stays "traveling".
BlockTravel(c) ==
    /\ c \in calls /\ c.op = "blocked"
    /\ Pending(c.id) /\ travel[c.id].dest = c.from
    /\ travel' = [travel EXCEPT ![c.id].status = "blocked"]
    /\ calls' = calls \ {c}
    /\ UNCHANGED <<nodes, nextId, loc, reopened>>

\* The hub stops, or its database fails, before the commit: 500 or no answer.
Fails(c) ==
    /\ c \in calls
    /\ calls' = calls \ {c}
    /\ UNCHANGED <<nodes, travel, nextId, loc, reopened>>

-----------------------------------------------------------------------------
(* Registration and the operator's commands. *)

\* POST /v1/register: RegisterNode refuses an id that has a row.
RegisterNode(n) ==
    /\ nodes[n] = "absent"
    /\ nodes' = [nodes EXCEPT ![n] = "active"]
    /\ UNCHANGED <<travel, nextId, loc, calls, reopened>>

\* hubadmin node-suspend and node-reactivate.
NodeStatus(n, st) ==
    /\ nodes[n] # "absent"
    /\ nodes' = [nodes EXCEPT ![n] = st]
    /\ UNCHANGED <<travel, nextId, loc, calls, reopened>>

\* DELETE FROM player_locations WHERE current_node=? OR home_node=?
LocationsOf(n, p) == loc[p] # NoRow /\ (loc[p].at = n \/ Home[p] = n)

\* Mutant: the travel rows that start at n are forgotten.
TravelsTo(n, i) == travel[i] # NoRow /\ n \in {travel[i].dest, Home[travel[i].player]}

\* DELETE FROM travel WHERE from_node=? OR dest_node=? OR home_node=?
TravelsOf(n, i) ==
    travel[i] # NoRow /\ n \in {travel[i].from, travel[i].dest, Home[travel[i].player]}

\* hubadmin node-remove, one transaction.
NodeRemove(n) ==
    /\ nodes[n] # "absent"
    /\ nodes' = [nodes EXCEPT ![n] = "absent"]
    /\ loc' = [p \in Player |-> IF LocationsOf(n, p) THEN NoRow ELSE loc[p]]
    /\ travel' = [i \in Id |-> IF TravelsOf(n, i) THEN NoRow ELSE travel[i]]
    /\ UNCHANGED <<nextId, calls, reopened>>

\* The location row of request i's player is the one that i's departure wrote.
LocatedBy(i) ==
    loc[travel[i].player] = [status |-> "traveling", at |-> travel[i].from, id |-> i]

\* hubadmin queue-retry travel: a blocked request is pending again.  Neither
\* another pending request nor the player's location is looked at, although the
\* player may have departed again since.
QueueRetry(i) ==
    /\ travel[i].status = "blocked"
    /\ travel' = [travel EXCEPT ![i].status = "pending"]
    /\ reopened' = IF LocatedBy(i) THEN reopened ELSE reopened \cup {travel[i].player}
    /\ UNCHANGED <<nodes, nextId, loc, calls>>

-----------------------------------------------------------------------------
Transaction(c) == SubmitTravel(c) \/ ArriveTravel(c) \/ BlockTravel(c) \/ Refuses(c)

Admin(n) ==
    \/ RegisterNode(n)
    \/ \E st \in {"active", "suspended"} : NodeStatus(n, st)
    \/ NodeRemove(n)

HubNext ==
    \/ \E c \in SubmitCall : TravelSubmit(c)
    \/ \E c \in ReportCall : TravelReport(c)
    \/ \E c \in calls : Transaction(c) \/ Fails(c)
    \/ \E n \in Node : Admin(n)
    \/ \E i \in Id : QueueRetry(i)

HubSpec == HubInit /\ [][HubNext]_hubTravelVars

-----------------------------------------------------------------------------
(* Properties. *)

HubTypeOK ==
    /\ nodes \in [Node -> {"absent", "active", "suspended"}]
    /\ travel \in [Id -> Row \cup {NoRow}]
    /\ nextId \in 1..MaxTravels + 1
    /\ loc \in [Player -> Location \cup {NoRow}]
    /\ calls \in SUBSET Call
    /\ reopened \in SUBSET Player

\* "The hub enforces one pending travel request per global player ID"
\* (04_Federation_Protocol.md:267), although handlers and operator commands
\* interleave between a request's checks and its transaction.  It holds of every
\* player of whom queue-retry has not reopened a request that the player had
\* left behind for another one.
OnePendingPerPlayer ==
    \A i, j \in Id :
        (Pending(i) /\ Pending(j) /\ travel[i].player = travel[j].player
           /\ travel[i].player \notin reopened) => i = j

\* The same sentence without that exception, which queueRetry breaks.
OnePendingAfterRetry ==
    \A i, j \in Id :
        Pending(i) /\ Pending(j) /\ travel[i].player = travel[j].player => i = j

\* The two tables agree: while a request is pending the projection keeps its
\* player at the origin, traveling with that request, whatever nodes are
\* suspended or removed and whatever other requests are retried meanwhile.
PendingIsLocated ==
    \A i \in Id : Pending(i) /\ travel[i].player \notin reopened => LocatedBy(i)

\* A location row changes node only by an arrival at that node, and, unless an
\* operator reopened an old request of the player, from the node where the hub
\* accepted the departure: no late or repeated report teleports a player.
MovesOnlyByArrival ==
    [][\A p \in Player :
         (loc[p] # NoRow /\ loc'[p] # NoRow /\ loc'[p].at # loc[p].at) =>
            \E i \in Id :
                /\ Pending(i) /\ travel'[i].status = "arrived"
                /\ travel[i].player = p /\ travel[i].dest = loc'[p].at
                /\ p \in reopened \/ travel[i].from = loc[p].at]_hubTravelVars

\* The inductive invariant: ids are fresh, and the properties above.
IdsAreFresh ==
    /\ \A i \in Id : travel[i] # NoRow => i < nextId
    /\ \A i \in Id : travel[i] # NoRow => travel[i].dest # travel[i].from

HubInd ==
    /\ HubTypeOK
    /\ IdsAreFresh
    /\ PendingIsLocated

=============================================================================
