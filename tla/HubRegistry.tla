----------------------------- MODULE HubRegistry -----------------------------
(***************************************************************************)
(* Who may talk to the hub, and the roster they exchange: the registration *)
(* of a node (cmd/node, handleRegister), its API key, auth, the operator   *)
(* commands on nodes and tokens (cmd/hubadmin), and the part of            *)
(* Syncer.Tick that sends a heartbeat, pushes the node's own players and   *)
(* caches everyone else's.                                                 *)
(*                                                                         *)
(* A registration and a push are checked (the token and the SELECT of      *)
(* RegisterNode, or auth) in one step and take effect in another.  A       *)
(* client that gives up leaves its request with the hub.  Keys and tokens  *)
(* are numbers, 0 for none; a player's spine (level, status, last_seen) is *)
(* a version, 0 for no row.                                                *)
(***************************************************************************)
EXTENDS Integers

CONSTANTS
    Node,
    Player,
    Home,        \* Home[p]: the home_node of player p
    NoRow,
    MaxKey,      \* bound: keys generated
    MaxToken,    \* bound: registration tokens issued
    MaxChanges,  \* bound: changes of players' rows
    MaxOps,      \* bound: operator commands
    MaxFaults    \* bound: crashes and lost requests or answers

ASSUME HubRegistryAssumption ==
    /\ Home \in [Player -> Node]
    /\ MaxKey \in Nat /\ MaxToken \in Nat \ {0}
    /\ MaxChanges \in Nat /\ MaxOps \in Nat /\ MaxFaults \in Nat

\* A row of the hub's nodes table.
Rows == [key : 1..MaxKey, status : {"active", "suspended"}]

ASSUME NoRowAssumption == NoRow \notin Rows

VARIABLES
    file,     \* the registration token file
    issued,   \* the last token written to it
    token,    \* Server.regToken, 0 while the hub is down
    nodes,    \* nodes[n]: the hub's row of n, or NoRow
    keys,     \* keys[n]: the last key generated for n
    roster,   \* roster[p]: the hub's row of p
    calls,    \* requests at the hub, and answers on their way
    stored,   \* stored[n]: sync_state.api_key
    pc,       \* pc[n]: "down", "registering", "keyed" (not stored yet) or "up"
    client,   \* client[n]: Client.APIKey
    players,  \* players[n][p]: the row of p in n's players table
    remote,   \* remote[n][p]: the row of p in n's remote_roster
    printed,  \* printed[n]: a key that rotate-key printed for n and nobody stored yet
    ended,    \* ended[n]: the keys of n that rotate-key and node-remove put out of use
    raced,    \* nodes removed while a push of theirs was past auth
    changes, ops, faults

hubVars == <<file, issued, token, nodes, keys, roster>>
nodeVars == <<stored, pc, client, players, remote>>
opVars == <<printed, ended, raced, ops>>
vars == <<hubVars, calls, nodeVars, opVars, changes, faults>>

NoRows == [p \in Player |-> 0]

HubRow == [node : Node, ver : 1..MaxChanges]

\* A request; cred is the token or key presented, and the key a registration
\* is about to grant; rows are the roster pushed or pulled.
Call ==
    [node : Node, op : {"register", "heartbeat", "push", "pull"},
     stage : {"sent", "admitted", "answered", "error"},
     cred : 0..(MaxKey + MaxToken), rows : [Player -> 0..MaxChanges], live : BOOLEAN]

Init ==
    /\ file = 1 /\ issued = 1 /\ token = 1
    /\ nodes = [n \in Node |-> NoRow]
    /\ keys = [n \in Node |-> 0]
    /\ roster = [p \in Player |-> NoRow]
    /\ calls = {}
    /\ stored = [n \in Node |-> 0]
    /\ pc = [n \in Node |-> "down"]
    /\ client = [n \in Node |-> 0]
    /\ players = [n \in Node |-> NoRows]
    /\ remote = [n \in Node |-> NoRows]
    /\ printed = [n \in Node |-> 0]
    /\ ended = [n \in Node |-> {}] /\ raced = {}
    /\ changes = 0 /\ ops = 0 /\ faults = 0

HubUp == token # 0

Fault == faults < MaxFaults /\ faults' = faults + 1

Operator == ops < MaxOps /\ ops' = ops + 1

LiveOf(n) == {c \in calls : c.node = n /\ c.live}

\* The request of n with this operation.
Request(n, op, cred, rows) ==
    [node |-> n, op |-> op, stage |-> "sent", cred |-> cred, rows |-> rows, live |-> TRUE]

\* What remains of the requests cs when their client is gone: those that can
\* still change the hub.
Abandoned(cs) ==
    {[c EXCEPT !.live = FALSE] :
        c \in {d \in cs : d.stage \in {"sent", "admitted"} /\ d.op \in {"register", "push"}}}

-----------------------------------------------------------------------------
(* The hub: handleRegister, auth, and the statements behind them. *)

\* The hub is done with c; d is what its client will see.
Reply(c, d) == calls' = (calls \ {c}) \cup (IF c.live THEN {d} ELSE {})

\* newAPIKey and newSecret: random, so no two nodes ever have the same key; here
\* each node's keys are counted.
NewKey(n) == keys[n] < MaxKey /\ keys' = [keys EXCEPT ![n] = @ + 1]

\* Token, fresh key, and the SELECT of RegisterNode; 401 or 409.
CheckRegister(c) ==
    /\ HubUp /\ c.op = "register" /\ c.stage = "sent"
    /\ IF c.cred = token /\ nodes[c.node] = NoRow
       THEN /\ NewKey(c.node)
            /\ calls' = (calls \ {c}) \cup {[c EXCEPT !.stage = "admitted", !.cred = keys'[c.node]]}
       ELSE Reply(c, [c EXCEPT !.stage = "error"]) /\ UNCHANGED keys
    /\ UNCHANGED <<file, issued, token, nodes, roster, nodeVars, opVars, changes, faults>>

Row(key) == [key |-> key, status |-> "active"]

\* Mutant: INSERT OR REPLACE.
InsertNodeReplaces(c) ==
    /\ HubUp /\ c.op = "register" /\ c.stage = "admitted"
    /\ nodes' = [nodes EXCEPT ![c.node] = Row(c.cred)]
    /\ Reply(c, [c EXCEPT !.stage = "answered"])
    /\ UNCHANGED <<file, issued, token, keys, roster, nodeVars, opVars, changes, faults>>

\* The INSERT of RegisterNode: the primary key decides between two requests
\* that both saw no row.
InsertNode(c) ==
    /\ HubUp /\ c.op = "register" /\ c.stage = "admitted"
    /\ IF nodes[c.node] = NoRow
       THEN /\ nodes' = [nodes EXCEPT ![c.node] = Row(c.cred)]
            /\ Reply(c, [c EXCEPT !.stage = "answered"])
       ELSE Reply(c, [c EXCEPT !.stage = "error"]) /\ UNCHANGED nodes
    /\ UNCHANGED <<file, issued, token, keys, roster, nodeVars, opVars, changes, faults>>

\* The node whose key this is, as NodeByAPIKeyHash finds it.
Authentic(n, key) == nodes[n] # NoRow /\ nodes[n].key = key /\ nodes[n].status = "active"

\* auth: 401 or 403 ...
AuthFails(c) ==
    /\ HubUp /\ c.op # "register" /\ c.stage = "sent"
    /\ ~Authentic(c.node, c.cred)
    /\ Reply(c, [c EXCEPT !.stage = "error"])
    /\ UNCHANGED <<hubVars, nodeVars, opVars, changes, faults>>

\* ... or the handler runs.  A push is the one that writes a table of this
\* module: other requests may come between its auth and its transaction.
Auth(c) ==
    /\ HubUp /\ c.op = "push" /\ c.stage = "sent"
    /\ Authentic(c.node, c.cred)
    /\ calls' = (calls \ {c}) \cup {[c EXCEPT !.stage = "admitted"]}
    /\ UNCHANGED <<hubVars, nodeVars, opVars, changes, faults>>

\* handleHeartbeat.
Heartbeat(c) ==
    /\ HubUp /\ c.op = "heartbeat" /\ c.stage = "sent"
    /\ Authentic(c.node, c.cred)
    /\ Reply(c, [c EXCEPT !.stage = "answered"])
    /\ UNCHANGED <<hubVars, nodeVars, opVars, changes, faults>>

\* DELETE FROM roster WHERE node_id = n.
Without(n) ==
    [p \in Player |-> IF roster[p] # NoRow /\ roster[p].node = n THEN NoRow ELSE roster[p]]

\* UpsertRoster: the node's rows are deleted and the new ones inserted in one
\* transaction; global_id is the primary key.
UpsertRoster(c) ==
    /\ HubUp /\ c.op = "push" /\ c.stage = "admitted"
    /\ LET sent == {p \in Player : c.rows[p] # 0}
           kept == Without(c.node)
       IN IF \A p \in sent : kept[p] = NoRow
          THEN /\ roster' = [p \in Player |->
                    IF p \in sent THEN [node |-> c.node, ver |-> c.rows[p]] ELSE kept[p]]
               /\ Reply(c, [c EXCEPT !.stage = "answered", !.rows = NoRows])
          ELSE /\ Reply(c, [c EXCEPT !.stage = "error", !.rows = NoRows])
               /\ UNCHANGED roster
    /\ UNCHANGED <<file, issued, token, nodes, keys, nodeVars, opVars, changes, faults>>

\* GetRoster with exclude_self.
GetRoster(c) ==
    /\ HubUp /\ c.op = "pull" /\ c.stage = "sent"
    /\ Authentic(c.node, c.cred)
    /\ LET others == [p \in Player |->
               IF roster[p] # NoRow /\ roster[p].node # c.node THEN roster[p].ver ELSE 0]
       IN Reply(c, [c EXCEPT !.stage = "answered", !.rows = others])
    /\ UNCHANGED <<hubVars, nodeVars, opVars, changes, faults>>

\* Nobody listens: the client's connection is refused.
Unreachable(c) ==
    /\ ~HubUp /\ c.stage = "sent"
    /\ Reply(c, [c EXCEPT !.stage = "error"])
    /\ UNCHANGED <<hubVars, nodeVars, opVars, changes, faults>>

Hub(c) ==
    \/ Unreachable(c) \/ CheckRegister(c) \/ InsertNode(c) \/ AuthFails(c) \/ Auth(c)
    \/ Heartbeat(c) \/ UpsertRoster(c) \/ GetRoster(c)

\* The hub stops: its requests die with it.
HubStops ==
    /\ HubUp /\ Fault
    /\ token' = 0
    /\ calls' = {[c EXCEPT !.stage = "error"] : c \in {d \in calls : d.live /\ d.stage # "answered"}}
                \cup {c \in calls : c.stage = "answered"}
    /\ UNCHANGED <<file, issued, nodes, keys, roster, nodeVars, opVars, changes>>

\* cmd/hub reads the token file, and does not start on an empty one.
HubStarts ==
    /\ ~HubUp /\ file # 0
    /\ token' = file
    /\ UNCHANGED <<file, issued, nodes, keys, roster, calls, nodeVars, opVars, changes, faults>>

-----------------------------------------------------------------------------
(* A node: the start of cmd/node, and Tick. *)

\* A stored key is used; without one the node registers with a token that its
\* sysop was given.
Start(n) ==
    /\ pc[n] = "down"
    /\ IF stored[n] # 0
       THEN /\ pc' = [pc EXCEPT ![n] = "up"]
            /\ client' = [client EXCEPT ![n] = stored[n]]
            /\ UNCHANGED calls
       ELSE /\ \E t \in 1..issued : calls' = calls \cup {Request(n, "register", t, NoRows)}
            /\ pc' = [pc EXCEPT ![n] = "registering"]
            /\ UNCHANGED client
    /\ UNCHANGED <<hubVars, stored, players, remote, opVars, changes, faults>>

\* The answer to Register.  An error is fatal.
Registered(n) ==
    /\ pc[n] = "registering"
    /\ \E c \in LiveOf(n) :
         /\ c.stage \in {"answered", "error"}
         /\ calls' = calls \ {c}
         /\ IF c.stage = "answered"
            THEN /\ pc' = [pc EXCEPT ![n] = "keyed"]
                 /\ client' = [client EXCEPT ![n] = c.cred]
            ELSE pc' = [pc EXCEPT ![n] = "down"] /\ UNCHANGED client
    /\ UNCHANGED <<hubVars, stored, players, remote, opVars, changes, faults>>

SetAPIKey(n) ==
    /\ pc[n] = "keyed"
    /\ pc' = [pc EXCEPT ![n] = "up"]
    /\ stored' = [stored EXCEPT ![n] = client[n]]
    /\ UNCHANGED <<hubVars, calls, client, players, remote, opVars, changes, faults>>

\* Tick begins with the heartbeat.
TickStarts(n) ==
    /\ pc[n] = "up" /\ LiveOf(n) = {}
    /\ calls' = calls \cup {Request(n, "heartbeat", client[n], NoRows)}
    /\ UNCHANGED <<hubVars, nodeVars, opVars, changes, faults>>

\* Mutant: every row of the players table.
LocalPlayersAll(n) == players[n]

\* LocalPlayers: the rows with home_node = n.
LocalPlayers(n) == [p \in Player |-> IF Home[p] = n THEN players[n][p] ELSE 0]

\* The answer to the request of n's Tick has come.
Answered(n, op) == {c \in LiveOf(n) : pc[n] = "up" /\ c.op = op /\ c.stage = "answered"}

\* After the heartbeat Tick deals with events, attacks and travellers.  Any error
\* there ends it, for a Tick or for ever: a request or a statement that fails, a
\* batch that the hub refuses, an event whose handler fails.
EventsFail(n) ==
    /\ \E c \in Answered(n, "heartbeat") : calls' = calls \ {c}
    /\ UNCHANGED <<hubVars, nodeVars, opVars, changes, faults>>

\* A Tick that gets past them pushes the roster ...
PushRoster(n) ==
    /\ \E c \in Answered(n, "heartbeat") :
         calls' = (calls \ {c}) \cup {Request(n, "push", client[n], LocalPlayers(n))}
    /\ UNCHANGED <<hubVars, nodeVars, opVars, changes, faults>>

\* Mutant: a node without players of its own is done.
PullRosterOwners(n) ==
    /\ \E c \in Answered(n, "push") :
         calls' = (calls \ {c}) \cup
             (IF LocalPlayers(n) = NoRows THEN {} ELSE {Request(n, "pull", client[n], NoRows)})
    /\ UNCHANGED <<hubVars, nodeVars, opVars, changes, faults>>

\* ... pulls it ...
PullRoster(n) ==
    /\ \E c \in Answered(n, "push") :
         calls' = (calls \ {c}) \cup {Request(n, "pull", client[n], NoRows)}
    /\ UNCHANGED <<hubVars, nodeVars, opVars, changes, faults>>

\* ... and replaces its cache.
UpsertRemoteRoster(n) ==
    /\ \E c \in Answered(n, "pull") :
         /\ calls' = calls \ {c}
         /\ remote' = [remote EXCEPT ![n] = c.rows]
    /\ UNCHANGED <<hubVars, stored, pc, client, players, opVars, changes, faults>>

\* An error ends the Tick.
TickFails(n) ==
    /\ pc[n] = "up"
    /\ \E c \in LiveOf(n) : c.stage = "error" /\ calls' = calls \ {c}
    /\ UNCHANGED <<hubVars, nodeVars, opVars, changes, faults>>

\* The connection breaks: the request may still reach the hub, an answer does
\* not reach the client.  Fatal during Register, the end of a Tick otherwise.
ConnectionLost(n) ==
    /\ LiveOf(n) # {} /\ Fault
    /\ calls' = (calls \ LiveOf(n)) \cup Abandoned(LiveOf(n))
    /\ pc' = [pc EXCEPT ![n] = IF @ = "registering" THEN "down" ELSE @]
    /\ UNCHANGED <<hubVars, stored, client, players, remote, opVars, changes>>

\* The process ends: between Ticks it was stopped, otherwise that is a fault.
Stop(n) ==
    /\ pc[n] # "down"
    /\ IF pc[n] = "up" /\ LiveOf(n) = {} THEN UNCHANGED faults ELSE Fault
    /\ pc' = [pc EXCEPT ![n] = "down"]
    /\ client' = [client EXCEPT ![n] = 0]
    /\ calls' = (calls \ LiveOf(n)) \cup Abandoned(LiveOf(n))
    /\ UNCHANGED <<hubVars, stored, players, remote, opVars, changes>>

\* A session creates its player or changes the spine (InsertPlayer,
\* TouchLastSeen, the game's updates).
PlayerChanges(p) ==
    /\ pc[Home[p]] = "up" /\ changes < MaxChanges
    /\ changes' = changes + 1
    /\ players' = [players EXCEPT ![Home[p]][p] = changes + 1]
    /\ UNCHANGED <<hubVars, calls, stored, pc, client, remote, opVars, faults>>

\* p travels: the players table of n has a row of p too (see Travel).
PlayerVisits(p, n) ==
    /\ n # Home[p] /\ pc[n] = "up" /\ players[n][p] = 0
    /\ players[Home[p]][p] # 0
    /\ players' = [players EXCEPT ![n][p] = players[Home[p]][p]]
    /\ UNCHANGED <<hubVars, calls, stored, pc, client, remote, opVars, changes, faults>>

-----------------------------------------------------------------------------
(* The operators: cmd/hubadmin beside the hub, and the node's sysop. *)

KeyOf(n) == IF nodes[n] = NoRow THEN {} ELSE {nodes[n].key}

\* node-suspend and node-activate; activations need no bound of their own.
NodeStatus(n, status) ==
    /\ IF status = "suspended" THEN Operator ELSE UNCHANGED ops
    /\ nodes[n] # NoRow
    /\ nodes' = [nodes EXCEPT ![n].status = status]
    /\ UNCHANGED <<file, issued, token, keys, roster, calls, nodeVars, printed, ended, raced, changes, faults>>

\* rotate-key: the UPDATE, the audit row, and only then the new key is shown.
RotateKey(n) ==
    /\ Operator
    /\ nodes[n] # NoRow
    /\ NewKey(n)
    /\ nodes' = [nodes EXCEPT ![n].key = keys'[n]]
    /\ ended' = [ended EXCEPT ![n] = @ \cup KeyOf(n)]
    /\ \/ printed' = [printed EXCEPT ![n] = keys'[n]] /\ UNCHANGED faults
       \/ Fault /\ UNCHANGED printed
    /\ UNCHANGED <<file, issued, token, roster, calls, nodeVars, raced, changes>>

\* node-remove: one transaction over the tables of the hub.
NodeRemove(n) ==
    /\ Operator
    /\ nodes' = [nodes EXCEPT ![n] = NoRow]
    /\ ended' = [ended EXCEPT ![n] = @ \cup KeyOf(n)]
    /\ printed' = [printed EXCEPT ![n] = 0]
    /\ roster' = Without(n)
    /\ raced' = IF \E c \in calls : c.node = n /\ c.op = "push" /\ c.stage = "admitted"
                THEN raced \cup {n} ELSE raced \ {n}
    /\ UNCHANGED <<file, issued, token, keys, calls, nodeVars, changes, faults>>

TokenIssue ==
    /\ Operator
    /\ issued < MaxToken
    /\ issued' = issued + 1
    /\ file' = issued + 1
    /\ UNCHANGED <<token, nodes, keys, roster, calls, nodeVars, printed, ended, raced, changes, faults>>

TokenRevoke ==
    /\ Operator
    /\ file' = 0
    /\ UNCHANGED <<issued, token, nodes, keys, roster, calls, nodeVars, printed, ended, raced, changes, faults>>

\* "store this in the node database ... before restarting the node"; the key
\* is cleared to register again.
InstallKey(n) ==
    /\ pc[n] = "down"
    /\ \E k \in {printed[n], 0} \ {stored[n]} :
         /\ k = 0 => nodes[n] = NoRow
         /\ stored' = [stored EXCEPT ![n] = k]
    /\ printed' = [printed EXCEPT ![n] = 0]
    /\ UNCHANGED <<hubVars, calls, pc, client, players, remote, ended, raced, ops, changes, faults>>

-----------------------------------------------------------------------------
NodeSteps(n) ==
    \/ Registered(n) \/ SetAPIKey(n) \/ TickStarts(n) \/ EventsFail(n)
    \/ PushRoster(n) \/ PullRoster(n) \/ UpsertRemoteRoster(n) \/ TickFails(n)

Next ==
    \/ \E c \in calls : Hub(c)
    \/ HubStops \/ HubStarts \/ TokenIssue \/ TokenRevoke
    \/ \E p \in Player : PlayerChanges(p) \/ \E n \in Node : PlayerVisits(p, n)
    \/ \E n \in Node :
         \/ NodeSteps(n) \/ Start(n) \/ ConnectionLost(n) \/ Stop(n)
         \/ RotateKey(n) \/ NodeRemove(n) \/ InstallKey(n)
         \/ \E status \in {"active", "suspended"} : NodeStatus(n, status)

Spec == Init /\ [][Next]_vars

\* The hub serves what reached it, and a running node's Syncer its ticker.
\* Nothing is assumed of starts, players and operators.
Fairness ==
    \A n \in Node :
        /\ WF_vars(\E c \in calls : c.node = n /\ Hub(c))
        /\ WF_vars(NodeSteps(n))

FairSpec == Spec /\ Fairness

-----------------------------------------------------------------------------
(* Properties. *)

\* The type of every variable.
TypeOK ==
    /\ file \in 0..issued /\ issued \in 1..MaxToken /\ token \in 0..issued
    /\ nodes \in [Node -> Rows \cup {NoRow}]
    /\ keys \in [Node -> 0..MaxKey]
    /\ roster \in [Player -> HubRow \cup {NoRow}]
    /\ calls \subseteq Call
    /\ stored \in [Node -> 0..MaxKey]
    /\ pc \in [Node -> {"down", "registering", "keyed", "up"}]
    /\ client \in [Node -> 0..MaxKey]
    /\ players \in [Node -> [Player -> 0..MaxChanges]]
    /\ remote \in [Node -> [Player -> 0..MaxChanges]]
    /\ printed \in [Node -> 0..MaxKey]
    /\ ended \in [Node -> SUBSET (1..MaxKey)] /\ raced \subseteq Node
    /\ changes \in 0..MaxChanges /\ ops \in 0..MaxOps /\ faults \in 0..MaxFaults

\* The keys on their way to n, in its memory, in its database, or printed for it.
KeysHeld(n) ==
    ({stored[n], client[n], printed[n]} \ {0})
    \cup {c.cred : c \in {d \in LiveOf(n) : d.op = "register" /\ d.stage = "answered"}}

\* A key that was granted works until an operator ends it: RegisterNode grants a
\* node_id once, although an abandoned registration of the node may have passed
\* its SELECT too and insert later.
GrantHolds == \A n \in Node : KeysHeld(n) \subseteq ended[n] \cup KeyOf(n)

\* A node is locked out of its own id (409, and no key that works) only after a
\* failure: otherwise the key of its row is one that it holds.
LockOutNeedsFault == \A n \in Node : faults = 0 => KeyOf(n) \subseteq KeysHeld(n)

\* A node waits for one answer at a time: for that of Register before it has a
\* key, for those of a Tick once it is up.
OneCallPerNode ==
    \A n \in Node :
        /\ \A c, d \in LiveOf(n) : c = d
        /\ \A c \in LiveOf(n) : pc[n] = IF c.op = "register" THEN "registering" ELSE "up"

\* Where the key of a node is while it starts, registers and runs.
KeyPlaces ==
    \A n \in Node :
        /\ pc[n] \in {"down", "registering"} => client[n] = 0
        /\ pc[n] \in {"registering", "keyed"} => stored[n] = 0
        /\ pc[n] = "up" => client[n] = stored[n]

\* A registration past its SELECT carries a key.
GrantsAreKeys ==
    \A c \in calls : c.op = "register" /\ c.stage \in {"admitted", "answered"} => c.cred \in 1..MaxKey

\* Without a failure nobody gives up on a request, and a key that rotate-key
\* printed is the one of the row.
NothingLostWithoutFault ==
    faults = 0 =>
        /\ \A c \in calls : c.live
        /\ \A n \in Node : printed[n] # 0 => KeyOf(n) = {printed[n]}

\* The hub's rows and the nodes' keys agree, through lost answers, abandoned
\* registrations, rotations and removals: what a node was given works, and what
\* the hub expects the node has.
KeyInv ==
    /\ TypeOK
    /\ GrantHolds
    /\ LockOutNeedsFault
    /\ OneCallPerNode
    /\ KeyPlaces
    /\ GrantsAreKeys
    /\ NothingLostWithoutFault

\* "we must never claim another node's players as our own" (store.go): visitors
\* of a node stay out of the roster it pushes, so a row is its home's.
RosterOwned == \A p \in Player : roster[p] # NoRow => roster[p].node = Home[p]

\* node-remove leaves no roster rows of the node behind; only a push that was
\* past auth when the node was removed can bring them back.
RemovedLeavesNoRows ==
    \A n \in Node : nodes[n] = NoRow /\ n \notin raced =>
        \A p \in Player : roster[p] # NoRow => roster[p].node # n

\* A push carries rows of its node's own players only, and one that is past auth
\* is of a node with a row, or of one removed since.
PushesAreOwn ==
    \A c \in calls : c.op = "push" =>
        /\ \A p \in Player : c.rows[p] # 0 => Home[p] = c.node
        /\ c.stage = "admitted" => nodes[c.node] # NoRow \/ c.node \in raced

\* Every roster row is its home node's, and goes with it, in spite of visitors
\* and of pushes that overlap a removal.
RosterInv ==
    /\ RosterOwned
    /\ RemovedLeavesNoRows
    /\ PushesAreOwn

\* A node that runs with the key of its active row.
InTouch(n) == HubUp /\ pc[n] = "up" /\ Authentic(n, client[n])

\* The Ticks of n get past their events again and again.  No code ensures it: a
\* refused batch or a failing handler comes back at every Tick.
GetsPastEvents(n) == []<><<PushRoster(n)>>_vars

\* The roster converges: between nodes that stay in touch and whose Ticks get as
\* far as the roster again and again, however many end before it, every player's
\* home row reaches the other node's cache, whatever was lost, abandoned, rotated
\* or removed before.
RosterConverges ==
    \A p \in Player, n \in Node :
        /\ n # Home[p]
        /\ <>[](InTouch(n) /\ InTouch(Home[p]))
        /\ GetsPastEvents(n) /\ GetsPastEvents(Home[p])
        => <>[](remote[n][p] = players[Home[p]][p])

=============================================================================
