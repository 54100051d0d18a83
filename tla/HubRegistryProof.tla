--------------------------- MODULE HubRegistryProof ---------------------------
(***************************************************************************)
(* The keys of the nodes and the owners of the roster rows stay right, for *)
(* any number of nodes, players, keys, operator commands and failures.     *)
(***************************************************************************)
EXTENDS HubRegistry, TLAPS

RegistryInv == KeyInv /\ RosterInv

USE HubRegistryAssumption, NoRowAssumption

LEMMA InitRegistry == Init => RegistryInv
<1>. SUFFICES ASSUME Init PROVE RegistryInv
  OBVIOUS
<1>1. TypeOK
  BY DEF Init, TypeOK, NoRows
<1>2. \A n \in Node : LiveOf(n) = {} /\ KeyOf(n) = {} /\ KeysHeld(n) = {}
  BY DEF Init, LiveOf, KeyOf, KeysHeld
<1>3. GrantHolds /\ LockOutNeedsFault
  BY <1>2 DEF GrantHolds, LockOutNeedsFault
<1>4. OneCallPerNode /\ KeyPlaces /\ GrantsAreKeys /\ NothingLostWithoutFault
  BY <1>2 DEF Init, OneCallPerNode, KeyPlaces, GrantsAreKeys, NothingLostWithoutFault
<1>5. RosterInv
  BY DEF Init, RosterInv, RosterOwned, RemovedLeavesNoRows, PushesAreOwn
<1>. QED
  BY <1>1, <1>3, <1>4, <1>5 DEF RegistryInv, KeyInv

-----------------------------------------------------------------------------
(* What a step of the hub does to the request it serves. *)

\* Request c becomes d, or disappears if its client is gone.
Serves(c, d) ==
    /\ c \in calls /\ c.stage \in {"sent", "admitted"}
    /\ d \in Call /\ d.node = c.node /\ d.op = c.op /\ d.live = c.live
    /\ d.op = "register" /\ d.stage \in {"admitted", "answered"} => d.cred \in 1..MaxKey
    /\ d.op = "push" => \A p \in Player : d.rows[p] # 0 => d.rows[p] = c.rows[p]
    /\ d.op = "push" /\ d.stage = "admitted" => nodes[c.node] # NoRow
    /\ \/ calls' = (calls \ {c}) \cup {d}
       \/ ~c.live /\ calls' = calls \ {c}
    /\ IF d.op = "register" /\ d.stage = "answered"
       THEN /\ c.stage = "admitted" /\ nodes[c.node] = NoRow /\ d.cred = c.cred
            /\ nodes' = [nodes EXCEPT ![c.node] = Row(c.cred)]
       ELSE nodes' = nodes
    /\ UNCHANGED <<file, issued, token, nodeVars, opVars, changes, faults>>

LEMMA HubServes ==
    ASSUME RegistryInv, NEW c \in calls, Hub(c)
    PROVE  \E d \in Call : Serves(c, d)
<1>. USE DEF RegistryInv, KeyInv, TypeOK, hubVars, Serves
<1>1. /\ c \in Call
      /\ c.node \in Node /\ c.rows \in [Player -> 0..MaxChanges]
      /\ c.cred \in 0..(MaxKey + MaxToken)
  BY DEF Call
<1>2. ASSUME NEW st \in {"sent", "admitted", "answered", "error"}
      PROVE  LET d == [c EXCEPT !.stage = st]
             IN  /\ d \in Call /\ d.node = c.node /\ d.op = c.op /\ d.live = c.live
                 /\ d.stage = st /\ d.cred = c.cred /\ d.rows = c.rows
  BY <1>1 DEF Call
<1>3. ASSUME NEW st \in {"answered", "error"}, NEW rs \in [Player -> 0..MaxChanges]
      PROVE  LET d == [c EXCEPT !.stage = st, !.rows = rs]
             IN  /\ d \in Call /\ d.node = c.node /\ d.op = c.op /\ d.live = c.live
                 /\ d.stage = st /\ d.rows = rs
  BY <1>1 DEF Call
<1>. USE <1>1
<1>4. CASE Unreachable(c)
  BY <1>2, <1>4 DEF Unreachable, Reply
<1>5. CASE CheckRegister(c)
  <2>1. CASE c.cred = token /\ nodes[c.node] = NoRow
    <3>. DEFINE k == keys[c.node] + 1
                d == [c EXCEPT !.stage = "admitted", !.cred = k]
    <3>1. k \in 1..MaxKey /\ keys'[c.node] = k
      BY <1>5, <2>1 DEF CheckRegister, NewKey
    <3>2. /\ d \in Call /\ d.node = c.node /\ d.op = c.op /\ d.live = c.live
          /\ d.stage = "admitted" /\ d.cred = k /\ d.rows = c.rows
      <4>1. k \in 0..(MaxKey + MaxToken)
        BY <3>1
      <4>. HIDE DEF k
      <4>. QED
        BY <4>1 DEF Call
    <3>3. calls' = (calls \ {c}) \cup {d}
      BY <1>5, <2>1, <3>1 DEF CheckRegister
    <3>. HIDE DEF d, k
    <3>. QED
      BY <1>5, <3>1, <3>2, <3>3 DEF CheckRegister
  <2>2. CASE ~(c.cred = token /\ nodes[c.node] = NoRow)
    BY <1>2, <1>5, <2>2 DEF CheckRegister, Reply
  <2>. QED
    BY <2>1, <2>2
<1>6. CASE InsertNode(c)
  BY <1>2, <1>6 DEF InsertNode, Reply, GrantsAreKeys
<1>7. CASE AuthFails(c)
  BY <1>2, <1>7 DEF AuthFails, Reply
<1>8. CASE Auth(c)
  BY <1>2, <1>8 DEF Auth, Authentic
<1>9. CASE Heartbeat(c)
  BY <1>2, <1>9 DEF Heartbeat, Reply
<1>10. CASE UpsertRoster(c)
  <2>1. NoRows \in [Player -> 0..MaxChanges] /\ \A p \in Player : NoRows[p] = 0
    BY DEF NoRows
  <2>2. PICK st \in {"answered", "error"} : Reply(c, [c EXCEPT !.stage = st, !.rows = NoRows])
    BY <1>10 DEF UpsertRoster
  <2>. DEFINE d == [c EXCEPT !.stage = st, !.rows = NoRows]
  <2>3. /\ d \in Call /\ d.node = c.node /\ d.op = c.op /\ d.live = c.live
        /\ d.stage = st /\ d.rows = NoRows
    <3>. HIDE DEF TypeOK, Serves
    <3>. QED
      BY <2>1 DEF Call
  <2>4. Reply(c, d) /\ c.op = "push" /\ c.stage = "admitted"
    BY <1>10, <2>2 DEF UpsertRoster
  <2>. HIDE DEF d
  <2>. QED
    BY <1>10, <2>1, <2>3, <2>4 DEF UpsertRoster, Reply
<1>11. CASE GetRoster(c)
  <2>. DEFINE others == [p \in Player |->
                  IF roster[p] # NoRow /\ roster[p].node # c.node THEN roster[p].ver ELSE 0]
  <2>1. others \in [Player -> 0..MaxChanges]
    BY DEF HubRow
  <2>2. Reply(c, [c EXCEPT !.stage = "answered", !.rows = others])
    BY <1>11 DEF GetRoster
  <2>. HIDE DEF others
  <2>. DEFINE d == [c EXCEPT !.stage = "answered", !.rows = others]
  <2>3. /\ d \in Call /\ d.node = c.node /\ d.op = c.op /\ d.live = c.live
        /\ d.stage = "answered"
    BY <1>3, <2>1
  <2>4. Reply(c, d) /\ c.op = "pull" /\ c.stage = "sent"
    BY <1>11, <2>2 DEF GetRoster
  <2>. HIDE DEF d
  <2>. QED
    BY <1>11, <2>3, <2>4 DEF GetRoster, Reply
<1>. QED
  BY <1>4, <1>5, <1>6, <1>7, <1>8, <1>9, <1>10, <1>11 DEF Hub

LEMMA NewKeyType ==
    ASSUME TypeOK, NEW n \in Node, NewKey(n)
    PROVE  keys' \in [Node -> 0..MaxKey] /\ keys'[n] \in 1..MaxKey /\ keys'[n] = keys[n] + 1
<1>1. keys[n] + 1 \in 1..MaxKey
  BY DEF TypeOK, NewKey
<1>2. keys' = [keys EXCEPT ![n] = keys[n] + 1] /\ keys \in [Node -> 0..MaxKey]
  BY DEF TypeOK, NewKey
<1>. QED
  BY <1>1, <1>2

\* What the hub writes when it serves c.
LEMMA HubTables ==
    ASSUME RegistryInv, NEW c \in calls, Hub(c)
    PROVE  /\ keys' \in [Node -> 0..MaxKey]
           /\ roster' \in [Player -> HubRow \cup {NoRow}]
           /\ roster' = roster \/ (UpsertRoster(c) /\ UNCHANGED nodes)
<1>. USE DEF RegistryInv, KeyInv, TypeOK, hubVars
<1>1. c.node \in Node /\ c.rows \in [Player -> 0..MaxChanges]
  BY DEF Call
<1>2. CASE CheckRegister(c)
  <2>1. keys' \in [Node -> 0..MaxKey]
    <3>1. NewKey(c.node) \/ UNCHANGED keys
      BY <1>2 DEF CheckRegister
    <3>. QED
      BY <1>1, <3>1, NewKeyType
  <2>2. UNCHANGED <<nodes, roster>>
    BY <1>2 DEF CheckRegister
  <2>. QED
    BY <2>1, <2>2
<1>3. CASE InsertNode(c)
  BY <1>3 DEF InsertNode
<1>4. CASE UpsertRoster(c)
  <2>1. Without(c.node) \in [Player -> HubRow \cup {NoRow}]
    BY DEF Without
  <2>2. \A p \in Player : c.rows[p] # 0 => [node |-> c.node, ver |-> c.rows[p]] \in HubRow
    BY <1>1 DEF HubRow
  <2>3. roster' \in [Player -> HubRow \cup {NoRow}]
    BY <1>4, <2>1, <2>2 DEF UpsertRoster
  <2>. QED
    BY <1>4, <2>3 DEF UpsertRoster
<1>. QED
  BY <1>2, <1>3, <1>4 DEF Hub, Unreachable, AuthFails, Auth, Heartbeat, GetRoster

LEMMA RequestType ==
    ASSUME NEW n \in Node, NEW op \in {"register", "heartbeat", "push", "pull"},
           NEW k \in 0..(MaxKey + MaxToken), NEW rs \in [Player -> 0..MaxChanges]
    PROVE  /\ Request(n, op, k, rs) \in Call
           /\ Request(n, op, k, rs).node = n /\ Request(n, op, k, rs).op = op
           /\ Request(n, op, k, rs).stage = "sent" /\ Request(n, op, k, rs).rows = rs
           /\ Request(n, op, k, rs).live
BY DEF Request, Call

\* A request whose client is gone is the same request otherwise.
LEMMA AbandonedType ==
    ASSUME NEW cs \in SUBSET Call
    PROVE  \A a \in Abandoned(cs) : \E c \in cs :
             /\ a \in Call /\ ~a.live
             /\ a.node = c.node /\ a.op = c.op /\ a.stage = c.stage /\ a.cred = c.cred
             /\ a.rows = c.rows
             /\ a.stage \in {"sent", "admitted"}
<1>. SUFFICES ASSUME NEW a \in Abandoned(cs)
              PROVE  \E c \in cs :
                       /\ a \in Call /\ ~a.live
                       /\ a.node = c.node /\ a.op = c.op /\ a.stage = c.stage /\ a.cred = c.cred
                       /\ a.rows = c.rows
                       /\ a.stage \in {"sent", "admitted"}
  OBVIOUS
<1>1. PICK c \in {d \in cs : d.stage \in {"sent", "admitted"} /\ d.op \in {"register", "push"}} :
        a = [c EXCEPT !.live = FALSE]
  BY Zenon DEF Abandoned
<1>2. c \in cs /\ c \in Call /\ c.stage \in {"sent", "admitted"}
  OBVIOUS
<1>. QED
  BY <1>1, <1>2 DEF Call

-----------------------------------------------------------------------------
(* Type correctness. *)

LEMMA NextType == RegistryInv /\ [Next]_vars => TypeOK'
<1>. SUFFICES ASSUME RegistryInv, [Next]_vars PROVE TypeOK'
  OBVIOUS
<1>0. TypeOK /\ GrantsAreKeys
  BY DEF RegistryInv, KeyInv
<1>. USE <1>0 DEF TypeOK, hubVars, nodeVars, opVars
<1>1. \A n \in Node : LiveOf(n) \subseteq calls /\ LiveOf(n) \subseteq Call
  BY DEF LiveOf
<1>2. ASSUME NEW c \in calls, Hub(c) PROVE TypeOK'
  <2>1. PICK d \in Call : Serves(c, d)
    BY <1>2, HubServes
  <2>2. calls' \subseteq Call
    BY <2>1 DEF Serves
  <2>3. Row(c.cred) \in Rows \/ c.cred \notin 1..MaxKey
    BY DEF Row, Rows
  <2>4. nodes' \in [Node -> Rows \cup {NoRow}]
    <3>1. c.node \in Node
      BY DEF Call
    <3>2. nodes' = nodes \/ (c.cred \in 1..MaxKey /\ nodes' = [nodes EXCEPT ![c.node] = Row(c.cred)])
      BY <2>1 DEF Serves
    <3>. QED
      BY <2>3, <3>1, <3>2
  <2>5. keys' \in [Node -> 0..MaxKey] /\ roster' \in [Player -> HubRow \cup {NoRow}]
    BY <1>2, HubTables
  <2>. QED
    BY <2>1, <2>2, <2>4, <2>5 DEF Serves
<1>3. CASE HubStops
  <2>1. ASSUME NEW c \in calls PROVE [c EXCEPT !.stage = "error"] \in Call
    BY DEF Call
  <2>2. calls' \subseteq Call
    BY <1>3, <2>1 DEF HubStops
  <2>. QED
    BY <1>3, <2>2 DEF HubStops, Fault
<1>4. CASE HubStarts \/ TokenIssue \/ TokenRevoke
  BY <1>4 DEF HubStarts, TokenIssue, TokenRevoke, Operator
<1>5. ASSUME NEW p \in Player, PlayerChanges(p) PROVE TypeOK'
  <2>1. [players[Home[p]] EXCEPT ![p] = changes + 1] \in [Player -> 0..MaxChanges]
    BY <1>5 DEF PlayerChanges
  <2>2. players' \in [Node -> [Player -> 0..MaxChanges]] /\ changes' \in 0..MaxChanges
    BY <1>5, <2>1 DEF PlayerChanges
  <2>. QED
    BY <1>5, <2>2 DEF PlayerChanges
<1>6. ASSUME NEW p \in Player, NEW n \in Node, PlayerVisits(p, n) PROVE TypeOK'
  <2>1. [players[n] EXCEPT ![p] = players[Home[p]][p]] \in [Player -> 0..MaxChanges]
    OBVIOUS
  <2>2. players' \in [Node -> [Player -> 0..MaxChanges]]
    BY <1>6, <2>1 DEF PlayerVisits
  <2>. QED
    BY <1>6, <2>2 DEF PlayerVisits
<1>7. NoRows \in [Player -> 0..MaxChanges]
  BY DEF NoRows
<1>8. ASSUME NEW n \in Node, Start(n) PROVE TypeOK'
  <2>1. \A t \in 1..issued : Request(n, "register", t, NoRows) \in Call
    <3>1. \A t \in 1..issued : t \in 0..(MaxKey + MaxToken)
      OBVIOUS
    <3>. QED
      BY <1>7, <3>1, RequestType
  <2>2. /\ calls' \subseteq Call
        /\ pc' \in [Node -> {"down", "registering", "keyed", "up"}]
        /\ client' \in [Node -> 0..MaxKey]
    <3>1. CASE stored[n] # 0
      BY <1>8, <3>1 DEF Start
    <3>2. CASE stored[n] = 0
      <4>1. PICK t \in 1..issued : calls' = calls \cup {Request(n, "register", t, NoRows)}
        BY <1>8, <3>2 DEF Start
      <4>2. pc' = [pc EXCEPT ![n] = "registering"] /\ client' = client
        BY <1>8, <3>2 DEF Start
      <4>. QED
        BY <2>1, <4>1, <4>2
    <3>. QED
      BY <3>1, <3>2
  <2>. QED
    BY <1>8, <2>2 DEF Start
<1>9. ASSUME NEW n \in Node, Registered(n) PROVE TypeOK'
  <2>1. PICK c \in LiveOf(n) :
          /\ calls' = calls \ {c}
          /\ IF c.stage = "answered"
             THEN /\ pc' = [pc EXCEPT ![n] = "keyed"]
                  /\ client' = [client EXCEPT ![n] = c.cred]
             ELSE pc' = [pc EXCEPT ![n] = "down"] /\ UNCHANGED client
    BY <1>9 DEF Registered
  <2>2. c.op = "register"
    BY <1>9 DEF Registered, RegistryInv, KeyInv, OneCallPerNode
  <2>3. c.stage = "answered" => c.cred \in 0..MaxKey
    BY <1>1, <2>2 DEF GrantsAreKeys
  <2>. QED
    BY <1>9, <2>1, <2>3 DEF Registered
<1>10. ASSUME NEW n \in Node, SetAPIKey(n) PROVE TypeOK'
  BY <1>10 DEF SetAPIKey
<1>11. ASSUME NEW n \in Node, TickStarts(n) \/ PushRoster(n) \/ PullRoster(n) PROVE TypeOK'
  <2>1. LocalPlayers(n) \in [Player -> 0..MaxChanges] /\ client[n] \in 0..(MaxKey + MaxToken)
    BY DEF LocalPlayers
  <2>2. /\ Request(n, "heartbeat", client[n], NoRows) \in Call
        /\ Request(n, "push", client[n], LocalPlayers(n)) \in Call
        /\ Request(n, "pull", client[n], NoRows) \in Call
    BY <1>7, <2>1, RequestType
  <2>3. calls' \subseteq Call
    BY <1>11, <2>2 DEF TickStarts, PushRoster, PullRoster
  <2>. QED
    BY <1>11, <2>3 DEF TickStarts, PushRoster, PullRoster
<1>12. ASSUME NEW n \in Node, UpsertRemoteRoster(n) PROVE TypeOK'
  <2>1. PICK c \in LiveOf(n) : calls' = calls \ {c} /\ remote' = [remote EXCEPT ![n] = c.rows]
    BY <1>12 DEF UpsertRemoteRoster, Answered
  <2>2. c.rows \in [Player -> 0..MaxChanges]
    BY <1>1 DEF Call
  <2>. QED
    BY <1>12, <2>1, <2>2 DEF UpsertRemoteRoster
<1>13. ASSUME NEW n \in Node, TickFails(n) \/ EventsFail(n) PROVE TypeOK'
  BY <1>13 DEF TickFails, EventsFail
<1>14. ASSUME NEW n \in Node, ConnectionLost(n) \/ Stop(n) PROVE TypeOK'
  <2>1. Abandoned(LiveOf(n)) \subseteq Call
    BY <1>1, AbandonedType
  <2>2. calls' \subseteq Call
    BY <1>14, <2>1 DEF ConnectionLost, Stop
  <2>3. /\ pc' \in [Node -> {"down", "registering", "keyed", "up"}]
        /\ client' \in [Node -> 0..MaxKey]
        /\ faults' \in 0..MaxFaults
    <3>1. CASE ConnectionLost(n)
      <4>1. pc' = [pc EXCEPT ![n] = "down"] \/ pc' = [pc EXCEPT ![n] = pc[n]]
        BY <3>1 DEF ConnectionLost
      <4>. QED
        BY <3>1, <4>1 DEF ConnectionLost, Fault
    <3>2. CASE Stop(n)
      BY <3>2 DEF Stop, Fault
    <3>. QED
      BY <1>14, <3>1, <3>2
  <2>. QED
    BY <1>14, <2>2, <2>3 DEF ConnectionLost, Stop
<1>15. ASSUME NEW n \in Node, NEW status \in {"active", "suspended"}, NodeStatus(n, status) PROVE TypeOK'
  <2>1. [nodes[n] EXCEPT !.status = status] \in Rows
    BY <1>15 DEF NodeStatus, Rows
  <2>. QED
    BY <1>15, <2>1 DEF NodeStatus, Operator
<1>16. \A n \in Node : KeyOf(n) \subseteq 1..MaxKey
  BY DEF KeyOf, Rows
<1>17. ASSUME NEW n \in Node, RotateKey(n) PROVE TypeOK'
  <2>1. keys' \in [Node -> 0..MaxKey] /\ keys'[n] \in 1..MaxKey
    BY <1>17 DEF RotateKey, NewKey
  <2>2. [nodes[n] EXCEPT !.key = keys'[n]] \in Rows
    <3>1. nodes[n] \in Rows
      BY <1>17 DEF RotateKey
    <3>. QED
      BY <2>1, <3>1 DEF Rows
  <2>3. /\ ended' \in [Node -> SUBSET (1..MaxKey)]
        /\ nodes' \in [Node -> Rows \cup {NoRow}]
        /\ printed' \in [Node -> 0..MaxKey]
        /\ faults' \in 0..MaxFaults
    BY <1>16, <1>17, <2>1, <2>2 DEF RotateKey, Fault
  <2>. QED
    BY <1>17, <2>1, <2>3 DEF RotateKey, Operator
<1>18. ASSUME NEW n \in Node, NodeRemove(n) PROVE TypeOK'
  <2>1. Without(n) \in [Player -> HubRow \cup {NoRow}]
    BY DEF Without
  <2>. QED
    BY <1>16, <1>18, <2>1 DEF NodeRemove, Operator
<1>19. ASSUME NEW n \in Node, InstallKey(n) PROVE TypeOK'
  BY <1>19 DEF InstallKey
<1>20. CASE UNCHANGED vars
  BY <1>20 DEF vars
<1>. QED
  BY <1>2, <1>3, <1>4, <1>5, <1>6, <1>8, <1>9, <1>10, <1>11, <1>12, <1>13, <1>14, <1>15, <1>17,
     <1>18, <1>19, <1>20 DEF Next, NodeSteps

-----------------------------------------------------------------------------
(* The requests: one live request per node, and what the requests carry. *)

CallInv ==
    /\ OneCallPerNode
    /\ GrantsAreKeys
    /\ faults = 0 => \A c \in calls : c.live
    /\ PushesAreOwn

\* Requests may disappear, and lose their client if there was a fault.
LEMMA FewerCalls ==
    ASSUME RegistryInv, CallInv, TypeOK', faults' \in {faults, faults + 1},
           \A d \in calls' : \E c \in calls :
               /\ d.node = c.node /\ d.op = c.op /\ d.rows = c.rows /\ d.cred = c.cred
               /\ d.stage \in {c.stage, "error"}
               /\ d.live => c.live
               /\ faults' = 0 => d.live,
           \A n \in Node : \A c, d \in LiveOf(n)' : c = d,
           \A n \in Node : \A c \in LiveOf(n)' : pc'[n] = pc[n],
           UNCHANGED <<nodes, raced>>
    PROVE  CallInv'
<1>. USE DEF CallInv
<1>0. calls \subseteq Call /\ calls' \subseteq Call
  BY DEF RegistryInv, KeyInv, TypeOK
<1>1. OneCallPerNode'
  BY DEF OneCallPerNode, LiveOf
<1>2. GrantsAreKeys'
  BY DEF GrantsAreKeys
<1>3. (faults = 0 => \A c \in calls : c.live)'
  OBVIOUS
<1>4. PushesAreOwn'
  BY DEF PushesAreOwn
<1>. QED
  BY <1>1, <1>2, <1>3, <1>4

LEMMA ServesCalls ==
    ASSUME RegistryInv, CallInv, NEW c \in calls, NEW d \in Call, Serves(c, d)
    PROVE  CallInv'
<1>. USE DEF CallInv
<1>0. c \in Call /\ c.node \in Node /\ UNCHANGED <<pc, faults, raced>>
  BY DEF RegistryInv, KeyInv, TypeOK, Call, Serves, nodeVars, opVars
<1>1. \A e \in calls' : e \in calls \/ e = d
  BY DEF Serves
<1>2. OneCallPerNode'
  BY <1>0, <1>1 DEF OneCallPerNode, LiveOf, Serves
<1>3. GrantsAreKeys'
  BY <1>1 DEF GrantsAreKeys, Serves
<1>4. (faults = 0 => \A e \in calls : e.live)'
  BY <1>0, <1>1 DEF Serves
<1>5. \A n \in Node : nodes[n] # NoRow => nodes'[n] = nodes[n]
  BY <1>0 DEF Serves, RegistryInv, KeyInv, TypeOK
<1>6. PushesAreOwn'
  <2>1. calls \subseteq Call
    BY DEF RegistryInv, KeyInv, TypeOK
  <2>. QED
    BY <1>0, <1>1, <1>5, <2>1 DEF PushesAreOwn, Serves, Call
<1>. QED
  BY <1>2, <1>3, <1>4, <1>6

LEMMA NextCalls == RegistryInv /\ [Next]_vars => CallInv'
<1>. SUFFICES ASSUME RegistryInv, [Next]_vars PROVE CallInv'
  OBVIOUS
<1>0. /\ CallInv /\ TypeOK /\ TypeOK' /\ calls \subseteq Call /\ faults \in Nat
      /\ \A n \in Node : LiveOf(n) \subseteq calls
  BY NextType DEF RegistryInv, KeyInv, RosterInv, CallInv, NothingLostWithoutFault, TypeOK, LiveOf
<1>a. /\ pc \in [Node -> {"down", "registering", "keyed", "up"}]
      /\ nodes \in [Node -> Rows \cup {NoRow}]
      /\ client \in [Node -> 0..MaxKey]
  BY <1>0 DEF TypeOK
<1>1. ASSUME NEW c \in calls, Hub(c) PROVE CallInv'
  BY <1>0, <1>1, HubServes, ServesCalls
<1>2. CASE HubStops
  <2>1. faults' = faults + 1 /\ UNCHANGED <<nodes, raced, pc>>
    BY <1>2 DEF HubStops, Fault, nodeVars, opVars
  <2>2. ASSUME NEW d \in calls'
        PROVE  \E c \in calls :
                 /\ d.node = c.node /\ d.op = c.op /\ d.rows = c.rows /\ d.cred = c.cred
                 /\ d.stage \in {c.stage, "error"} /\ d.live = c.live
                 /\ c.stage = "answered" => d = c
                 /\ c.stage # "answered" => d = [c EXCEPT !.stage = "error"]
    <3>1. CASE d \in calls /\ d.stage = "answered"
      BY <3>1
    <3>2. ASSUME NEW c \in calls, c.stage # "answered", d = [c EXCEPT !.stage = "error"]
          PROVE  \E e \in calls :
                   /\ d.node = e.node /\ d.op = e.op /\ d.rows = e.rows /\ d.cred = e.cred
                   /\ d.stage \in {e.stage, "error"} /\ d.live = e.live
                   /\ e.stage = "answered" => d = e
                   /\ e.stage # "answered" => d = [e EXCEPT !.stage = "error"]
      <4>1. c \in Call
        BY <1>0
      <4>. QED
        BY <3>2, <4>1 DEF Call
    <3>. QED
      BY <1>2, <3>1, <3>2 DEF HubStops
  <2>3. \A n \in Node : \A c, d \in LiveOf(n)' : c = d
    <3>. SUFFICES ASSUME NEW n \in Node, NEW e \in calls', NEW f \in calls',
                         e.node = n, e.live, f.node = n, f.live
                  PROVE  e = f
      BY DEF LiveOf
    <3>1. PICK c \in calls : /\ e.node = c.node /\ e.live = c.live
                             /\ c.stage = "answered" => e = c
                             /\ c.stage # "answered" => e = [c EXCEPT !.stage = "error"]
      BY <2>2
    <3>2. PICK d \in calls : /\ f.node = d.node /\ f.live = d.live
                             /\ d.stage = "answered" => f = d
                             /\ d.stage # "answered" => f = [d EXCEPT !.stage = "error"]
      BY <2>2
    <3>3. c = d
      BY <1>0, <3>1, <3>2 DEF CallInv, OneCallPerNode, LiveOf
    <3>. QED
      BY <3>1, <3>2, <3>3
  <2>4. \A d \in calls' : \E c \in calls :
               /\ d.node = c.node /\ d.op = c.op /\ d.rows = c.rows /\ d.cred = c.cred
               /\ d.stage \in {c.stage, "error"}
               /\ d.live => c.live
               /\ faults' = 0 => d.live
    BY <1>0, <2>1, <2>2
  <2>. QED
    BY <1>0, <2>1, <2>3, <2>4, FewerCalls
<1>3. ASSUME NEW n \in Node, UNCHANGED <<nodes, raced, faults>>,
             NEW c \in LiveOf(n), calls' = calls \ {c},
             \A m \in Node \ {n} : pc'[m] = pc[m]
      PROVE  CallInv'
  <2>1. \A m \in Node : \A d \in LiveOf(m)' : m # n /\ d \in LiveOf(m)
    BY <1>0, <1>3 DEF LiveOf, CallInv, OneCallPerNode
  <2>. QED
    BY <1>0, <1>3, <2>1 DEF CallInv, OneCallPerNode, GrantsAreKeys, PushesAreOwn
<1>4. ASSUME NEW n \in Node, UNCHANGED <<calls, nodes, raced, faults>>, LiveOf(n) = {},
             \A m \in Node \ {n} : pc'[m] = pc[m]
      PROVE  CallInv'
  <2>1. \A m \in Node : LiveOf(m)' = LiveOf(m)
    BY <1>4 DEF LiveOf
  <2>. QED
    BY <1>0, <1>4, <2>1 DEF CallInv, OneCallPerNode, GrantsAreKeys, PushesAreOwn
<1>5. ASSUME UNCHANGED <<calls, pc>>, faults' \in {faults, faults + 1},
             \A n \in Node : nodes[n] # NoRow => nodes'[n] # NoRow,
             raced' = raced
      PROVE  CallInv'
  <2>1. \A m \in Node : LiveOf(m)' = LiveOf(m)
    BY <1>5 DEF LiveOf
  <2>2. \A c \in calls : c.node \in Node
    BY <1>0 DEF Call
  <2>. QED
    BY <1>0, <1>5, <2>1, <2>2 DEF CallInv, OneCallPerNode, GrantsAreKeys, PushesAreOwn
<1>6. ASSUME NEW n \in Node, NodeRemove(n) PROVE CallInv'
  <2>1. \A m \in Node : LiveOf(m)' = LiveOf(m)
    BY <1>6 DEF LiveOf, NodeRemove
  <2>2. UNCHANGED <<calls, pc, faults>> /\ \A m \in Node \ {n} : nodes'[m] = nodes[m]
    BY <1>a, <1>6 DEF NodeRemove, nodeVars
  <2>3. ASSUME NEW c \in calls, c.op = "push", c.stage = "admitted"
        PROVE  nodes'[c.node] # NoRow \/ c.node \in raced'
    <3>1. c.node \in Node /\ (nodes[c.node] # NoRow \/ c.node \in raced)
      BY <1>0, <2>3 DEF Call, CallInv, PushesAreOwn
    <3>2. CASE c.node = n
      BY <1>6, <2>3, <3>2 DEF NodeRemove
    <3>3. CASE c.node # n
      BY <1>6, <2>2, <3>1, <3>3 DEF NodeRemove
    <3>. QED
      BY <3>2, <3>3
  <2>. QED
    BY <1>0, <2>1, <2>2, <2>3 DEF CallInv, OneCallPerNode, GrantsAreKeys, PushesAreOwn
<1>7. ASSUME NEW n \in Node, NEW op \in {"register", "heartbeat", "push", "pull"},
             NEW k \in 0..(MaxKey + MaxToken), NEW rs \in [Player -> 0..MaxChanges],
             op = "push" => \A p \in Player : rs[p] # 0 => Home[p] = n,
             calls' = (calls \ LiveOf(n)) \cup {Request(n, op, k, rs)},
             pc'[n] = IF op = "register" THEN "registering" ELSE "up",
             \A m \in Node \ {n} : pc'[m] = pc[m],
             UNCHANGED <<nodes, raced, faults>>
      PROVE  CallInv'
  <2>. DEFINE r == Request(n, op, k, rs)
  <2>1. r \in Call /\ r.node = n /\ r.op = op /\ r.stage = "sent" /\ r.rows = rs /\ r.live
    BY RequestType
  <2>2. calls' = (calls \ LiveOf(n)) \cup {r}
    BY <1>7
  <2>. HIDE DEF r
  <2>3. \A m \in Node : \A d \in LiveOf(m)' : (m = n /\ d = r) \/ (m # n /\ d \in LiveOf(m))
    BY <2>1, <2>2 DEF LiveOf
  <2>4. OneCallPerNode'
    BY <1>0, <1>7, <2>1, <2>3 DEF CallInv, OneCallPerNode
  <2>5. GrantsAreKeys' /\ PushesAreOwn' /\ (faults = 0 => \A c \in calls : c.live)'
    BY <1>0, <1>7, <2>1, <2>2 DEF CallInv, GrantsAreKeys, PushesAreOwn
  <2>. QED
    BY <2>4, <2>5 DEF CallInv
<1>8. NoRows \in [Player -> 0..MaxChanges]
  BY DEF NoRows
<1>9. ASSUME NEW n \in Node, Start(n) PROVE CallInv'
  <2>1. LiveOf(n) = {}
    BY <1>0, <1>9 DEF Start, CallInv, OneCallPerNode
  <2>2. UNCHANGED <<nodes, raced, faults>>
    BY <1>9 DEF Start, hubVars, opVars
  <2>3. CASE stored[n] # 0
    BY <1>4, <1>9, <1>a, <2>1, <2>2, <2>3 DEF Start
  <2>4. CASE stored[n] = 0
    <3>1. PICK t \in 1..issued : calls' = calls \cup {Request(n, "register", t, NoRows)}
      BY <1>9, <2>4 DEF Start
    <3>2. t \in 0..(MaxKey + MaxToken)
      BY <1>0 DEF TypeOK
    <3>3. pc'[n] = "registering" /\ \A m \in Node \ {n} : pc'[m] = pc[m]
      BY <1>9, <1>a, <2>4 DEF Start
    <3>. QED
      BY <1>7, <1>8, <2>1, <2>2, <3>1, <3>2, <3>3
  <2>. QED
    BY <2>3, <2>4
<1>10. ASSUME NEW n \in Node, Registered(n) PROVE CallInv'
  <2>1. PICK c \in LiveOf(n) : calls' = calls \ {c}
    BY <1>10 DEF Registered
  <2>2. UNCHANGED <<nodes, raced, faults>> /\ \A m \in Node \ {n} : pc'[m] = pc[m]
    BY <1>10, <1>a DEF Registered, hubVars, opVars
  <2>. QED
    BY <1>3, <2>1, <2>2
<1>11. ASSUME NEW n \in Node, SetAPIKey(n) PROVE CallInv'
  <2>1. LiveOf(n) = {}
    BY <1>0, <1>11 DEF SetAPIKey, CallInv, OneCallPerNode
  <2>. QED
    BY <1>4, <1>11, <1>a, <2>1 DEF SetAPIKey, hubVars, opVars
<1>12. ASSUME NEW n \in Node, TickStarts(n) \/ PushRoster(n) \/ PullRoster(n) PROVE CallInv'
  <2>1. LocalPlayers(n) \in [Player -> 0..MaxChanges] /\ client[n] \in 0..(MaxKey + MaxToken)
    BY <1>0 DEF LocalPlayers, TypeOK
  <2>2. \A p \in Player : LocalPlayers(n)[p] # 0 => Home[p] = n
    BY DEF LocalPlayers
  <2>3. pc[n] = "up" /\ UNCHANGED <<pc, nodes, raced, faults>>
    BY <1>12 DEF TickStarts, PushRoster, PullRoster, Answered, nodeVars, hubVars, opVars
  <2>4. \A c \in LiveOf(n) : LiveOf(n) = {c}
    BY <1>0 DEF CallInv, OneCallPerNode
  <2>5. \/ calls' = (calls \ LiveOf(n)) \cup {Request(n, "heartbeat", client[n], NoRows)}
        \/ calls' = (calls \ LiveOf(n)) \cup {Request(n, "push", client[n], LocalPlayers(n))}
        \/ calls' = (calls \ LiveOf(n)) \cup {Request(n, "pull", client[n], NoRows)}
    BY <1>12, <2>4 DEF TickStarts, PushRoster, PullRoster, Answered
  <2>. QED
    BY <1>7, <1>8, <2>1, <2>2, <2>3, <2>5
<1>13. ASSUME NEW n \in Node, UpsertRemoteRoster(n) \/ TickFails(n) \/ EventsFail(n) PROVE CallInv'
  <2>1. PICK c \in LiveOf(n) : calls' = calls \ {c}
    BY <1>13 DEF UpsertRemoteRoster, TickFails, EventsFail, Answered
  <2>2. UNCHANGED <<pc, nodes, raced, faults>>
    BY <1>13 DEF UpsertRemoteRoster, TickFails, EventsFail, nodeVars, hubVars, opVars
  <2>. QED
    BY <1>3, <2>1, <2>2
<1>14. ASSUME NEW n \in Node, ConnectionLost(n) \/ Stop(n) PROVE CallInv'
  <2>1. /\ calls' = (calls \ LiveOf(n)) \cup Abandoned(LiveOf(n))
        /\ UNCHANGED <<nodes, raced>> /\ \A m \in Node \ {n} : pc'[m] = pc[m]
    BY <1>14, <1>a DEF ConnectionLost, Stop, hubVars, opVars
  <2>2. faults' = faults + 1 \/ (faults' = faults /\ LiveOf(n) = {})
    BY <1>14 DEF ConnectionLost, Stop, Fault
  <2>3. \A a \in Abandoned(LiveOf(n)) : \E c \in LiveOf(n) :
             /\ ~a.live
             /\ a.node = c.node /\ a.op = c.op /\ a.stage = c.stage /\ a.cred = c.cred
             /\ a.rows = c.rows
    BY <1>0, AbandonedType
  <2>4. \A m \in Node : \A d \in LiveOf(m)' : m # n /\ d \in LiveOf(m)
    BY <2>1, <2>3 DEF LiveOf
  <2>5. ASSUME NEW d \in calls'
        PROVE  \E c \in calls :
               /\ d.node = c.node /\ d.op = c.op /\ d.rows = c.rows /\ d.cred = c.cred
               /\ d.stage \in {c.stage, "error"}
               /\ d.live => c.live
               /\ faults' = 0 => d.live
    <3>1. CASE d \in calls
      BY <1>0, <2>2, <3>1 DEF CallInv
    <3>2. CASE d \in Abandoned(LiveOf(n))
      BY <1>0, <2>2, <2>3, <3>2
    <3>. QED
      BY <2>1, <3>1, <3>2
  <2>6. \A m \in Node : \A c, d \in LiveOf(m)' : c = d
    BY <1>0, <2>4 DEF CallInv, OneCallPerNode
  <2>7. \A m \in Node : \A c \in LiveOf(m)' : pc'[m] = pc[m]
    BY <2>1, <2>4
  <2>. QED
    BY <1>0, <2>1, <2>2, <2>5, <2>6, <2>7, FewerCalls
<1>15. ASSUME NEW n \in Node, NEW status \in {"active", "suspended"}, NodeStatus(n, status)
       PROVE  CallInv'
  <2>1. [nodes[n] EXCEPT !.status = status] \in Rows
    <3>1. nodes[n] \in Rows
      BY <1>15, <1>a DEF NodeStatus
    <3>. QED
      BY <3>1 DEF Rows
  <2>. QED
    BY <1>5, <1>15, <1>a, <2>1 DEF NodeStatus, nodeVars
<1>16. ASSUME NEW n \in Node, RotateKey(n) PROVE CallInv'
  <2>1. [nodes[n] EXCEPT !.key = keys'[n]] \in Rows
    <3>1. nodes[n] \in Rows /\ keys'[n] \in 1..MaxKey
      BY <1>0, <1>16, <1>a, NewKeyType DEF RotateKey
    <3>. QED
      BY <3>1 DEF Rows
  <2>2. UNCHANGED <<calls, pc, raced>> /\ faults' \in {faults, faults + 1}
    BY <1>16 DEF RotateKey, nodeVars, Fault
  <2>. QED
    BY <1>5, <1>16, <1>a, <2>1, <2>2 DEF RotateKey
<1>17. CASE \/ HubStarts \/ TokenIssue \/ TokenRevoke \/ UNCHANGED vars
            \/ \E p \in Player : PlayerChanges(p) \/ \E n \in Node : PlayerVisits(p, n)
            \/ \E n \in Node : InstallKey(n)
  <2>1. UNCHANGED <<calls, pc, nodes, raced, faults>>
    BY <1>17 DEF HubStarts, TokenIssue, TokenRevoke, vars, PlayerChanges, PlayerVisits, InstallKey,
                 nodeVars, hubVars, opVars
  <2>. QED
    BY <1>5, <2>1
<1>. QED
  BY <1>1, <1>2, <1>6, <1>9, <1>10, <1>11, <1>12, <1>13, <1>14, <1>15, <1>16, <1>17
  DEF Next, NodeSteps


-----------------------------------------------------------------------------
(* The keys. *)

KeysRight ==
    /\ GrantHolds
    /\ LockOutNeedsFault
    /\ KeyPlaces
    /\ faults = 0 => \A n \in Node : printed[n] # 0 => KeyOf(n) = {printed[n]}

\* The answer to a registration of n that grants k is on its way.
GrantOnItsWay(n, k) ==
    \E c \in LiveOf(n) : c.op = "register" /\ c.stage = "answered" /\ c.cred = k

LEMMA HeldKeys ==
    ASSUME NEW n, NEW k
    PROVE  /\ k \in KeysHeld(n) <=> \/ k # 0 /\ k \in {stored[n], client[n], printed[n]}
                                    \/ GrantOnItsWay(n, k)
           /\ k \in KeysHeld(n)' <=> \/ k # 0 /\ k \in {stored'[n], client'[n], printed'[n]}
                                     \/ GrantOnItsWay(n, k)'
BY DEF KeysHeld, GrantOnItsWay

\* A step after which a node holds what it held, and the hub has its rows.
LEMMA KeysKept ==
    ASSUME RegistryInv, faults' \in {faults, faults + 1},
           \A n \in Node : /\ KeysHeld(n)' \subseteq KeysHeld(n)
                           /\ faults' = 0 => KeysHeld(n) \subseteq KeysHeld(n)'
                           /\ printed'[n] \in {0, printed[n]},
           UNCHANGED <<nodes, ended>>
    PROVE  (/\ GrantHolds /\ LockOutNeedsFault
            /\ faults = 0 => \A n \in Node : printed[n] # 0 => KeyOf(n) = {printed[n]})'
<1>1. \A n \in Node : KeyOf(n)' = KeyOf(n)
  BY DEF KeyOf
<1>2. faults' = 0 => faults = 0
  BY DEF RegistryInv, KeyInv, TypeOK
<1>. QED
  BY <1>1, <1>2
  DEF RegistryInv, KeyInv, GrantHolds, LockOutNeedsFault, NothingLostWithoutFault

LEMMA NextKeys == RegistryInv /\ [Next]_vars => KeysRight'
<1>. SUFFICES ASSUME RegistryInv, [Next]_vars PROVE KeysRight'
  OBVIOUS
<1>0. /\ TypeOK /\ TypeOK' /\ faults \in Nat /\ calls \subseteq Call
      /\ GrantHolds /\ LockOutNeedsFault /\ OneCallPerNode /\ KeyPlaces /\ GrantsAreKeys
      /\ NothingLostWithoutFault /\ OneCallPerNode'
  BY NextType, NextCalls DEF RegistryInv, KeyInv, TypeOK, CallInv
<1>a. /\ pc \in [Node -> {"down", "registering", "keyed", "up"}]
      /\ nodes \in [Node -> Rows \cup {NoRow}]
      /\ client \in [Node -> 0..MaxKey]
      /\ stored \in [Node -> 0..MaxKey]
      /\ printed \in [Node -> 0..MaxKey]
      /\ ended \in [Node -> SUBSET (1..MaxKey)]
  BY <1>0 DEF TypeOK
<1>1. ASSUME NEW c \in calls, Hub(c) PROVE KeysRight'
  <2>1. PICK d \in Call : Serves(c, d)
    BY <1>1, HubServes
  <2>2. UNCHANGED <<stored, client, printed, pc, ended, faults>>
    BY <2>1 DEF Serves, nodeVars, opVars
  <2>3. KeyPlaces'
    BY <1>0, <2>2 DEF KeyPlaces
  <2>4. c \in Call /\ c.node \in Node
    BY <1>0 DEF Call
  <2>5. \A e \in calls' : e \in calls \/ e = d
    BY <2>1 DEF Serves
  <2>6. \A e \in calls : e.stage = "answered" => e \in calls'
    BY <2>1 DEF Serves
  <2>7. CASE ~(d.op = "register" /\ d.stage = "answered")
    <3>1. \A n \in Node : \A k : GrantOnItsWay(n, k)' <=> GrantOnItsWay(n, k)
      BY <2>5, <2>6, <2>7 DEF GrantOnItsWay, LiveOf
    <3>2. \A n \in Node : KeysHeld(n)' \subseteq KeysHeld(n) /\ KeysHeld(n) \subseteq KeysHeld(n)'
      BY <2>2, <3>1, HeldKeys
    <3>3. nodes' = nodes
      BY <2>1, <2>7 DEF Serves
    <3>. QED
      BY <2>2, <2>3, <3>2, <3>3, KeysKept DEF KeysRight
  <2>8. CASE d.op = "register" /\ d.stage = "answered"
    <3>1. /\ nodes[c.node] = NoRow /\ d.cred = c.cred /\ c.cred \in 1..MaxKey /\ d.node = c.node
          /\ nodes' = [nodes EXCEPT ![c.node] = Row(c.cred)]
          /\ faults = 0 => d \in calls' /\ d.live
      BY <1>0, <2>1, <2>8 DEF Serves, NothingLostWithoutFault
    <3>2. KeyOf(c.node) = {} /\ KeyOf(c.node)' = {c.cred}
      <4>1. Row(c.cred) \in Rows /\ Row(c.cred).key = c.cred
        BY <3>1 DEF Row, Rows
      <4>. QED
        BY <1>a, <2>4, <3>1, <4>1 DEF KeyOf
    <3>3. \A n \in Node \ {c.node} : KeyOf(n)' = KeyOf(n)
      BY <1>a, <3>1 DEF KeyOf
    <3>4. \A n \in Node : \A k :
            /\ GrantOnItsWay(n, k)' => GrantOnItsWay(n, k) \/ (n = c.node /\ k = c.cred)
            /\ GrantOnItsWay(n, k) => GrantOnItsWay(n, k)'
      BY <2>5, <2>6, <3>1 DEF GrantOnItsWay, LiveOf
    <3>5. faults = 0 => GrantOnItsWay(c.node, c.cred)'
      BY <2>8, <3>1 DEF GrantOnItsWay, LiveOf
    <3>6. \A n \in Node :
            /\ KeysHeld(n)' \subseteq KeysHeld(n) \cup (IF n = c.node THEN {c.cred} ELSE {})
            /\ KeysHeld(n) \subseteq KeysHeld(n)'
      BY <2>2, <3>4, HeldKeys
    <3>7. faults = 0 => c.cred \in KeysHeld(c.node)'
      BY <3>5, HeldKeys
    <3>8. GrantHolds'
      BY <1>0, <2>2, <3>2, <3>3, <3>6 DEF GrantHolds
    <3>9. LockOutNeedsFault'
      BY <1>0, <2>2, <3>2, <3>3, <3>6, <3>7 DEF LockOutNeedsFault
    <3>10. (faults = 0 => \A n \in Node : printed[n] # 0 => KeyOf(n) = {printed[n]})'
      BY <1>0, <2>2, <3>2, <3>3 DEF NothingLostWithoutFault
    <3>. QED
      BY <2>3, <3>8, <3>9, <3>10 DEF KeysRight
  <2>. QED
    BY <2>7, <2>8
<1>2. ASSUME UNCHANGED <<stored, client, printed, pc, ended, nodes>>,
             faults' \in {faults, faults + 1},
             \A n \in Node : \A k : GrantOnItsWay(n, k)' <=> GrantOnItsWay(n, k)
      PROVE  KeysRight'
  <2>1. \A n \in Node : KeysHeld(n)' \subseteq KeysHeld(n) /\ KeysHeld(n) \subseteq KeysHeld(n)'
    BY <1>2, HeldKeys
  <2>2. KeyPlaces'
    BY <1>0, <1>2 DEF KeyPlaces
  <2>. QED
    BY <1>2, <2>1, <2>2, KeysKept DEF KeysRight
<1>3. CASE HubStops
  <2>1. \A n \in Node : \A k : GrantOnItsWay(n, k)' <=> GrantOnItsWay(n, k)
    <3>1. ASSUME NEW c \in calls PROVE [c EXCEPT !.stage = "error"].stage = "error"
      BY <1>0 DEF Call
    <3>2. \A e \in calls' : e.stage = "answered" => e \in calls
      BY <1>3, <3>1 DEF HubStops
    <3>3. \A e \in calls : e.stage = "answered" => e \in calls'
      BY <1>3 DEF HubStops
    <3>. QED
      BY <3>2, <3>3 DEF GrantOnItsWay, LiveOf
  <2>. QED
    BY <1>2, <1>3, <2>1 DEF HubStops, Fault, nodeVars, opVars
\* Requests that are no answers to Register come and go.
<1>4. ASSUME UNCHANGED <<stored, client, printed, pc, ended, nodes, faults>>,
             \A n \in Node : \A c \in LiveOf(n) : c \notin calls' => c.op # "register",
             \A n \in Node : \A c \in LiveOf(n)' : c \notin calls => c.stage # "answered"
      PROVE  KeysRight'
  <2>1. \A n \in Node : \A k : GrantOnItsWay(n, k)' <=> GrantOnItsWay(n, k)
    BY <1>4 DEF GrantOnItsWay, LiveOf
  <2>. QED
    BY <1>2, <1>4, <2>1
<1>5. CASE \/ HubStarts \/ TokenIssue \/ TokenRevoke \/ UNCHANGED vars
           \/ \E p \in Player : PlayerChanges(p) \/ \E n \in Node : PlayerVisits(p, n)
  <2>1. UNCHANGED <<calls, pc, nodes, stored, client, printed, ended, faults>>
    BY <1>5 DEF HubStarts, TokenIssue, TokenRevoke, vars, PlayerChanges, PlayerVisits,
                nodeVars, hubVars, opVars
  <2>. QED
    BY <1>4, <2>1 DEF LiveOf
<1>6. ASSUME NEW n \in Node, TickStarts(n) \/ PushRoster(n) \/ PullRoster(n) PROVE KeysRight'
  <2>1. UNCHANGED <<pc, nodes, stored, client, printed, ended, faults>>
    BY <1>6 DEF TickStarts, PushRoster, PullRoster, nodeVars, hubVars, opVars
  <2>2. \A c \in calls' : c \notin calls => c.stage = "sent"
    BY <1>6 DEF TickStarts, PushRoster, PullRoster, Request
  <2>3. \A c \in calls : c \notin calls' => c.op # "register"
    BY <1>6 DEF TickStarts, PushRoster, PullRoster, Answered
  <2>. QED
    BY <1>4, <2>1, <2>2, <2>3 DEF LiveOf
<1>7. ASSUME NEW n \in Node, UpsertRemoteRoster(n) \/ TickFails(n) \/ EventsFail(n) PROVE KeysRight'
  <2>1. UNCHANGED <<pc, nodes, stored, client, printed, ended, faults>>
    BY <1>7 DEF UpsertRemoteRoster, TickFails, EventsFail, nodeVars, hubVars, opVars
  <2>2. PICK c \in LiveOf(n) : calls' = calls \ {c} /\ pc[n] = "up"
    BY <1>7 DEF UpsertRemoteRoster, TickFails, EventsFail, Answered
  <2>3. c.op # "register"
    BY <1>0, <2>2 DEF OneCallPerNode
  <2>. QED
    BY <1>4, <2>1, <2>2, <2>3 DEF LiveOf
\* Keys change hands at one node; the hub's rows stay.
<1>8. ASSUME NEW n \in Node, UNCHANGED <<nodes, ended>>, faults' \in {faults, faults + 1},
             \A m \in Node \ {n} :
                 /\ stored'[m] = stored[m] /\ client'[m] = client[m] /\ printed'[m] = printed[m]
                 /\ pc'[m] = pc[m] /\ \A c : c \in LiveOf(m)' <=> c \in LiveOf(m),
             KeysHeld(n)' \subseteq KeysHeld(n),
             faults' = 0 => KeysHeld(n) \subseteq KeysHeld(n)',
             printed'[n] \in {0, printed[n]},
             pc'[n] \in {"down", "registering"} => client'[n] = 0,
             pc'[n] \in {"registering", "keyed"} => stored'[n] = 0,
             pc'[n] = "up" => client'[n] = stored'[n]
      PROVE  KeysRight'
  <2>1. \A m \in Node \ {n} : \A k : GrantOnItsWay(m, k)' <=> GrantOnItsWay(m, k)
    BY <1>8 DEF GrantOnItsWay
  <2>2. \A m \in Node \ {n} : KeysHeld(m)' \subseteq KeysHeld(m) /\ KeysHeld(m) \subseteq KeysHeld(m)'
    BY <1>8, <2>1, HeldKeys
  <2>3. \A m \in Node : /\ KeysHeld(m)' \subseteq KeysHeld(m)
                        /\ faults' = 0 => KeysHeld(m) \subseteq KeysHeld(m)'
                        /\ printed'[m] \in {0, printed[m]}
    BY <1>8, <2>2
  <2>4. KeyPlaces'
    BY <1>0, <1>8 DEF KeyPlaces
  <2>. QED
    BY <1>8, <2>3, <2>4, KeysKept DEF KeysRight
<1>9. ASSUME NEW n \in Node, Start(n) PROVE KeysRight'
  <2>1. LiveOf(n) = {} /\ client[n] = 0
    BY <1>0, <1>9 DEF Start, OneCallPerNode, KeyPlaces
  <2>2. UNCHANGED <<nodes, ended, printed, stored, faults>>
    BY <1>9 DEF Start, hubVars, opVars
  <2>3. \A k : ~GrantOnItsWay(n, k)
    BY <2>1 DEF GrantOnItsWay
  <2>4. CASE stored[n] # 0
    <3>1. calls' = calls /\ pc'[n] = "up" /\ client'[n] = stored[n]
      BY <1>9, <1>a, <2>4 DEF Start
    <3>2. \A m \in Node \ {n} : pc'[m] = pc[m] /\ client'[m] = client[m]
      BY <1>9, <1>a, <2>4 DEF Start
    <3>3. \A m \in Node : LiveOf(m)' = LiveOf(m)
      BY <3>1 DEF LiveOf
    <3>4. \A k : ~GrantOnItsWay(n, k)'
      BY <2>1, <3>3 DEF GrantOnItsWay
    <3>5. KeysHeld(n)' \subseteq KeysHeld(n) /\ KeysHeld(n) \subseteq KeysHeld(n)'
      BY <2>1, <2>2, <2>3, <3>1, <3>4, HeldKeys
    <3>. QED
      BY <1>8, <2>2, <3>1, <3>2, <3>3, <3>5
  <2>5. CASE stored[n] = 0
    <3>1. PICK t \in 1..issued : calls' = calls \cup {Request(n, "register", t, NoRows)}
      BY <1>9, <2>5 DEF Start
    <3>2. pc'[n] = "registering" /\ client' = client /\ \A m \in Node \ {n} : pc'[m] = pc[m]
      BY <1>9, <1>a, <2>5 DEF Start
    <3>3. \A c \in calls' : c \in calls \/ (c.node = n /\ c.stage = "sent")
      BY <3>1 DEF Request
    <3>4. \A m \in Node \ {n} : LiveOf(m)' \subseteq LiveOf(m) /\ LiveOf(m) \subseteq LiveOf(m)'
      BY <3>1, <3>3 DEF LiveOf
    <3>5. \A k : ~GrantOnItsWay(n, k)'
      BY <2>1, <3>3 DEF GrantOnItsWay, LiveOf
    <3>6. KeysHeld(n)' \subseteq KeysHeld(n) /\ KeysHeld(n) \subseteq KeysHeld(n)'
      BY <2>2, <2>3, <3>2, <3>5, HeldKeys
    <3>. QED
      BY <1>8, <2>1, <2>2, <2>5, <3>2, <3>4, <3>6
  <2>. QED
    BY <2>4, <2>5
<1>10. ASSUME NEW n \in Node, Registered(n) PROVE KeysRight'
  <2>1. PICK c \in LiveOf(n) :
          /\ calls' = calls \ {c}
          /\ IF c.stage = "answered"
             THEN /\ pc' = [pc EXCEPT ![n] = "keyed"]
                  /\ client' = [client EXCEPT ![n] = c.cred]
             ELSE pc' = [pc EXCEPT ![n] = "down"] /\ UNCHANGED client
    BY <1>10 DEF Registered
  <2>2. UNCHANGED <<nodes, ended, printed, stored, faults>>
    BY <1>10 DEF Registered, hubVars, opVars
  <2>3. client[n] = 0 /\ stored[n] = 0 /\ c.op = "register" /\ c.node = n /\ LiveOf(n) = {c}
    BY <1>0, <1>10 DEF Registered, OneCallPerNode, KeyPlaces, LiveOf
  <2>4. \A m \in Node \ {n} : LiveOf(m)' \subseteq LiveOf(m) /\ LiveOf(m) \subseteq LiveOf(m)'
    BY <2>1, <2>3 DEF LiveOf
  <2>5. \A k : ~GrantOnItsWay(n, k)'
    BY <2>1, <2>3 DEF GrantOnItsWay, LiveOf
  <2>6. \A k : GrantOnItsWay(n, k) <=> c.stage = "answered" /\ k = c.cred
    BY <2>3 DEF GrantOnItsWay
  <2>7. CASE c.stage = "answered"
    <3>1. /\ pc'[n] = "keyed" /\ client'[n] = c.cred
          /\ \A m \in Node \ {n} : pc'[m] = pc[m] /\ client'[m] = client[m]
      BY <1>a, <2>1, <2>7
    <3>2. c.cred \in 1..MaxKey
      BY <1>0, <2>3, <2>7 DEF GrantsAreKeys, LiveOf
    <3>3. KeysHeld(n)' \subseteq KeysHeld(n) /\ KeysHeld(n) \subseteq KeysHeld(n)'
      BY <2>2, <2>3, <2>5, <2>6, <2>7, <3>1, <3>2, HeldKeys
    <3>. QED
      BY <1>8, <2>2, <2>3, <2>4, <3>1, <3>3
  <2>8. CASE c.stage # "answered"
    <3>1. pc'[n] = "down" /\ client' = client /\ \A m \in Node \ {n} : pc'[m] = pc[m]
      BY <1>a, <2>1, <2>8
    <3>2. KeysHeld(n)' \subseteq KeysHeld(n) /\ KeysHeld(n) \subseteq KeysHeld(n)'
      BY <2>2, <2>5, <2>6, <2>8, <3>1, HeldKeys
    <3>. QED
      BY <1>8, <2>2, <2>3, <2>4, <3>1, <3>2
  <2>. QED
    BY <2>7, <2>8
<1>11. ASSUME NEW n \in Node, SetAPIKey(n) PROVE KeysRight'
  <2>1. stored[n] = 0
    BY <1>0, <1>11 DEF SetAPIKey, KeyPlaces
  <2>2. /\ UNCHANGED <<calls, nodes, ended, printed, client, faults>>
        /\ pc'[n] = "up" /\ stored'[n] = client[n]
        /\ \A m \in Node \ {n} : pc'[m] = pc[m] /\ stored'[m] = stored[m]
    BY <1>11, <1>a DEF SetAPIKey, hubVars, opVars
  <2>3. \A m \in Node : LiveOf(m)' = LiveOf(m)
    BY <2>2 DEF LiveOf
  <2>4. \A k : GrantOnItsWay(n, k)' <=> GrantOnItsWay(n, k)
    BY <2>3 DEF GrantOnItsWay
  <2>5. KeysHeld(n)' \subseteq KeysHeld(n) /\ KeysHeld(n) \subseteq KeysHeld(n)'
    BY <2>1, <2>2, <2>4, HeldKeys
  <2>. QED
    BY <1>8, <2>2, <2>3, <2>5
<1>12. ASSUME NEW n \in Node, ConnectionLost(n) \/ Stop(n) PROVE KeysRight'
  <2>1. /\ calls' = (calls \ LiveOf(n)) \cup Abandoned(LiveOf(n))
        /\ UNCHANGED <<nodes, ended, printed, stored>>
        /\ \A m \in Node \ {n} : pc'[m] = pc[m] /\ client'[m] = client[m]
        /\ faults' \in {faults, faults + 1}
    BY <1>12, <1>a DEF ConnectionLost, Stop, Fault, hubVars, opVars
  <2>2. \A a \in Abandoned(LiveOf(n)) : ~a.live
    <3>1. LiveOf(n) \subseteq Call
      BY <1>0 DEF LiveOf
    <3>. QED
      BY <3>1, AbandonedType
  <2>3. \A m \in Node \ {n} : \A c : c \in LiveOf(m)' <=> c \in LiveOf(m)
    BY <2>1, <2>2 DEF LiveOf
  <2>4. \A k : ~GrantOnItsWay(n, k)'
    BY <2>1, <2>2 DEF GrantOnItsWay, LiveOf
  <2>5. CASE ConnectionLost(n)
    <3>1. /\ client' = client /\ faults' = faults + 1
          /\ pc'[n] = IF pc[n] = "registering" THEN "down" ELSE pc[n]
      BY <1>a, <2>5 DEF ConnectionLost, Fault
    <3>2. KeysHeld(n)' \subseteq KeysHeld(n)
      BY <2>1, <2>4, <3>1, HeldKeys
    <3>3. /\ pc'[n] \in {"down", "registering"} => client'[n] = 0
          /\ pc'[n] \in {"registering", "keyed"} => stored'[n] = 0
          /\ pc'[n] = "up" => client'[n] = stored'[n]
      BY <1>0, <2>1, <3>1 DEF KeyPlaces
    <3>. QED
      BY <1>0, <1>8, <2>1, <2>3, <3>1, <3>2, <3>3
  <2>6. CASE Stop(n)
    <3>1. client'[n] = 0 /\ pc'[n] = "down"
      BY <1>a, <2>6 DEF Stop
    <3>2. KeysHeld(n)' \subseteq KeysHeld(n)
      BY <2>1, <2>4, <3>1, HeldKeys
    <3>3. ASSUME faults' = 0 PROVE KeysHeld(n) \subseteq KeysHeld(n)'
      <4>1. pc[n] = "up" /\ LiveOf(n) = {}
        BY <1>0, <2>6, <3>3 DEF Stop, Fault
      <4>2. client[n] = stored[n] /\ \A k : ~GrantOnItsWay(n, k)
        BY <1>0, <4>1 DEF KeyPlaces, GrantOnItsWay
      <4>. QED
        BY <2>1, <4>2, HeldKeys
    <3>. QED
      BY <1>8, <2>1, <2>3, <3>1, <3>2, <3>3
  <2>. QED
    BY <1>12, <2>5, <2>6
\* The operators change one row or one stored key; no request is touched.
<1>13. ASSUME UNCHANGED calls
       PROVE  \A n \in Node : \A k : GrantOnItsWay(n, k)' <=> GrantOnItsWay(n, k)
  BY <1>13 DEF GrantOnItsWay, LiveOf
<1>14. ASSUME NEW n \in Node, InstallKey(n) PROVE KeysRight'
  <2>1. PICK k \in {printed[n], 0} :
          (k = 0 => nodes[n] = NoRow) /\ stored' = [stored EXCEPT ![n] = k]
    BY <1>14 DEF InstallKey
  <2>2. /\ UNCHANGED <<calls, nodes, ended, client, pc, faults>>
        /\ printed'[n] = 0 /\ stored'[n] = k /\ pc[n] = "down"
        /\ \A m \in Node \ {n} : printed'[m] = printed[m] /\ stored'[m] = stored[m]
    BY <1>14, <1>a, <2>1 DEF InstallKey, hubVars
  <2>3. \A m \in Node : KeyOf(m)' = KeyOf(m)
    BY <2>2 DEF KeyOf
  <2>4. \A m \in Node : KeysHeld(m)' \subseteq KeysHeld(m)
    BY <1>13, <2>2, HeldKeys
  <2>5. \A m \in Node \ {n} : KeysHeld(m) \subseteq KeysHeld(m)'
    BY <1>13, <2>2, HeldKeys
  <2>6. GrantHolds'
    BY <1>0, <2>2, <2>3, <2>4 DEF GrantHolds
  <2>7. faults = 0 => KeyOf(n) \subseteq KeysHeld(n)'
    <3>1. CASE k = 0
      BY <2>1, <3>1 DEF KeyOf
    <3>2. CASE k # 0
      <4>1. faults = 0 => KeyOf(n) = {k}
        BY <1>0, <2>1, <3>2 DEF NothingLostWithoutFault
      <4>2. k \in KeysHeld(n)'
        BY <2>2, <3>2, HeldKeys
      <4>. QED
        BY <4>1, <4>2
    <3>. QED
      BY <3>1, <3>2
  <2>8. LockOutNeedsFault'
    BY <1>0, <2>2, <2>3, <2>5, <2>7 DEF LockOutNeedsFault
  <2>9. KeyPlaces'
    BY <1>0, <2>2 DEF KeyPlaces
  <2>10. (faults = 0 => \A m \in Node : printed[m] # 0 => KeyOf(m) = {printed[m]})'
    BY <1>0, <2>2, <2>3 DEF NothingLostWithoutFault
  <2>. QED
    BY <2>6, <2>8, <2>9, <2>10 DEF KeysRight
<1>15. ASSUME NEW n \in Node, NEW status \in {"active", "suspended"}, NodeStatus(n, status)
       PROVE  KeysRight'
  <2>1. nodes[n] \in Rows /\ UNCHANGED <<calls, stored, client, printed, pc, ended, faults>>
    BY <1>15, <1>a DEF NodeStatus, nodeVars
  <2>2. /\ [nodes[n] EXCEPT !.status = status] \in Rows
        /\ [nodes[n] EXCEPT !.status = status].key = nodes[n].key
    BY <2>1 DEF Rows
  <2>3. \A m \in Node : KeyOf(m)' = KeyOf(m)
    BY <1>15, <1>a, <2>1, <2>2 DEF KeyOf, NodeStatus
  <2>4. \A m \in Node : KeysHeld(m)' \subseteq KeysHeld(m) /\ KeysHeld(m) \subseteq KeysHeld(m)'
    BY <1>13, <2>1, HeldKeys
  <2>5. GrantHolds' /\ LockOutNeedsFault'
    BY <1>0, <2>1, <2>3, <2>4 DEF GrantHolds, LockOutNeedsFault
  <2>6. KeyPlaces' /\ (faults = 0 => \A m \in Node : printed[m] # 0 => KeyOf(m) = {printed[m]})'
    BY <1>0, <2>1, <2>3 DEF KeyPlaces, NothingLostWithoutFault
  <2>. QED
    BY <2>5, <2>6 DEF KeysRight
<1>16. ASSUME NEW n \in Node, RotateKey(n) PROVE KeysRight'
  <2>1. keys'[n] \in 1..MaxKey /\ nodes[n] \in Rows /\ KeyOf(n) = {nodes[n].key}
    BY <1>0, <1>16, <1>a, NewKeyType DEF RotateKey, KeyOf
  <2>2. /\ UNCHANGED <<calls, stored, client, pc>>
        /\ nodes'[n] = [nodes[n] EXCEPT !.key = keys'[n]]
        /\ ended'[n] = ended[n] \cup KeyOf(n)
        /\ \A m \in Node \ {n} : nodes'[m] = nodes[m] /\ ended'[m] = ended[m]
    BY <1>16, <1>a DEF RotateKey, nodeVars
  <2>3. /\ \A m \in Node \ {n} : printed'[m] = printed[m]
        /\ \/ printed'[n] = keys'[n] /\ faults' = faults
           \/ printed'[n] = printed[n] /\ faults' = faults + 1
    BY <1>16, <1>a DEF RotateKey, Fault
  <2>4. KeyOf(n)' = {keys'[n]} /\ \A m \in Node \ {n} : KeyOf(m)' = KeyOf(m)
    <3>1. [nodes[n] EXCEPT !.key = keys'[n]] \in Rows /\ [nodes[n] EXCEPT !.key = keys'[n]].key = keys'[n]
      BY <2>1 DEF Rows
    <3>. QED
      BY <2>2, <3>1 DEF KeyOf
  <2>5. /\ KeysHeld(n)' \subseteq KeysHeld(n) \cup {keys'[n]}
        /\ \A m \in Node \ {n} : KeysHeld(m)' \subseteq KeysHeld(m) /\ KeysHeld(m) \subseteq KeysHeld(m)'
        /\ faults' = faults => keys'[n] \in KeysHeld(n)'
    <3>1. faults' = faults => printed'[n] = keys'[n] /\ keys'[n] # 0
      BY <1>0, <2>1, <2>3
    <3>. QED
      BY <1>13, <2>2, <2>3, <3>1, HeldKeys
  <2>6. GrantHolds'
    BY <1>0, <2>2, <2>4, <2>5 DEF GrantHolds
  <2>7. LockOutNeedsFault'
    BY <1>0, <2>3, <2>4, <2>5 DEF LockOutNeedsFault
  <2>8. KeyPlaces'
    BY <1>0, <2>2 DEF KeyPlaces
  <2>9. (faults = 0 => \A m \in Node : printed[m] # 0 => KeyOf(m) = {printed[m]})'
    BY <1>0, <2>3, <2>4 DEF NothingLostWithoutFault
  <2>. QED
    BY <2>6, <2>7, <2>8, <2>9 DEF KeysRight
<1>17. ASSUME NEW n \in Node, NodeRemove(n) PROVE KeysRight'
  <2>1. /\ UNCHANGED <<calls, stored, client, pc, faults>>
        /\ nodes'[n] = NoRow /\ printed'[n] = 0
        /\ ended'[n] = ended[n] \cup KeyOf(n)
        /\ \A m \in Node \ {n} :
             nodes'[m] = nodes[m] /\ ended'[m] = ended[m] /\ printed'[m] = printed[m]
    BY <1>17, <1>a DEF NodeRemove, nodeVars
  <2>2. KeyOf(n)' = {} /\ \A m \in Node \ {n} : KeyOf(m)' = KeyOf(m)
    BY <2>1 DEF KeyOf
  <2>3. /\ KeysHeld(n)' \subseteq KeysHeld(n)
        /\ \A m \in Node \ {n} : KeysHeld(m)' \subseteq KeysHeld(m) /\ KeysHeld(m) \subseteq KeysHeld(m)'
    BY <1>13, <2>1, HeldKeys
  <2>4. GrantHolds' /\ LockOutNeedsFault'
    BY <1>0, <2>1, <2>2, <2>3 DEF GrantHolds, LockOutNeedsFault
  <2>5. KeyPlaces' /\ (faults = 0 => \A m \in Node : printed[m] # 0 => KeyOf(m) = {printed[m]})'
    BY <1>0, <2>1, <2>2 DEF KeyPlaces, NothingLostWithoutFault
  <2>. QED
    BY <2>4, <2>5 DEF KeysRight
<1>. QED
  BY <1>1, <1>3, <1>5, <1>6, <1>7, <1>9, <1>10, <1>11, <1>12, <1>14, <1>15, <1>16, <1>17
  DEF Next, NodeSteps

-----------------------------------------------------------------------------
(* The roster. *)

LEMMA NextRoster == RegistryInv /\ [Next]_vars => RosterOwned' /\ RemovedLeavesNoRows'
<1>. SUFFICES ASSUME RegistryInv, [Next]_vars PROVE RosterOwned' /\ RemovedLeavesNoRows'
  OBVIOUS
<1>0. /\ TypeOK /\ RosterOwned /\ RemovedLeavesNoRows /\ PushesAreOwn
      /\ nodes \in [Node -> Rows \cup {NoRow}]
      /\ roster \in [Player -> HubRow \cup {NoRow}]
  BY DEF RegistryInv, KeyInv, RosterInv, TypeOK
<1>1. ASSUME UNCHANGED <<roster, raced>>,
             \A n \in Node : nodes'[n] = NoRow => nodes[n] = NoRow
      PROVE  RosterOwned' /\ RemovedLeavesNoRows'
  BY <1>0, <1>1 DEF RosterOwned, RemovedLeavesNoRows
<1>2. ASSUME NEW c \in calls, Hub(c) PROVE RosterOwned' /\ RemovedLeavesNoRows'
  <2>1. PICK d \in Call : Serves(c, d)
    BY <1>2, HubServes
  <2>2. raced' = raced /\ c.node \in Node /\ c.rows \in [Player -> 0..MaxChanges]
    BY <1>0, <2>1 DEF Serves, opVars, TypeOK, Call
  <2>3. CASE roster' = roster
    <3>1. \A n \in Node : nodes'[n] = NoRow => nodes[n] = NoRow
      BY <1>0, <2>1, <2>2 DEF Serves
    <3>. QED
      BY <1>1, <2>2, <2>3, <3>1
  <2>4. CASE UpsertRoster(c) /\ roster' # roster /\ UNCHANGED nodes
    <3>1. /\ c.op = "push" /\ c.stage = "admitted"
          /\ roster' = [p \in Player |->
               IF p \in {q \in Player : c.rows[q] # 0}
               THEN [node |-> c.node, ver |-> c.rows[p]] ELSE Without(c.node)[p]]
      BY <2>4 DEF UpsertRoster
    <3>2. /\ \A p \in Player : c.rows[p] # 0 => Home[p] = c.node
          /\ nodes[c.node] # NoRow \/ c.node \in raced
      BY <1>0, <3>1 DEF PushesAreOwn
    <3>3. \A p \in Player : \/ roster'[p] = roster[p]
                            \/ roster'[p] = NoRow
                            \/ roster'[p].node = c.node /\ Home[p] = c.node
      BY <3>1, <3>2 DEF Without
    <3>. QED
      BY <1>0, <2>2, <2>4, <3>2, <3>3 DEF RosterOwned, RemovedLeavesNoRows
  <2>. QED
    BY <1>2, <2>3, <2>4, HubTables
<1>3. ASSUME NEW n \in Node, NodeRemove(n) PROVE RosterOwned' /\ RemovedLeavesNoRows'
  <2>1. /\ roster' = Without(n)
        /\ \A m \in Node \ {n} : nodes'[m] = nodes[m] /\ (m \in raced' <=> m \in raced)
    BY <1>0, <1>3 DEF NodeRemove
  <2>2. \A p \in Player : roster'[p] = NoRow \/ (roster'[p] = roster[p] /\ roster[p].node # n)
    BY <2>1 DEF Without
  <2>. QED
    BY <1>0, <2>1, <2>2 DEF RosterOwned, RemovedLeavesNoRows
<1>4. ASSUME NEW n \in Node, NEW status \in {"active", "suspended"}, NodeStatus(n, status)
      PROVE  RosterOwned' /\ RemovedLeavesNoRows'
  <2>1. nodes[n] # NoRow /\ UNCHANGED <<roster, raced>> /\ \A m \in Node \ {n} : nodes'[m] = nodes[m]
    BY <1>0, <1>4 DEF NodeStatus
  <2>2. [nodes[n] EXCEPT !.status = status] \in Rows
    BY <1>0, <2>1 DEF Rows
  <2>3. nodes'[n] # NoRow
    BY <1>0, <1>4, <2>2 DEF NodeStatus
  <2>. QED
    BY <1>1, <2>1, <2>3
<1>5. ASSUME NEW n \in Node, RotateKey(n) PROVE RosterOwned' /\ RemovedLeavesNoRows'
  <2>1. nodes[n] # NoRow /\ UNCHANGED <<roster, raced>> /\ \A m \in Node \ {n} : nodes'[m] = nodes[m]
    BY <1>0, <1>5 DEF RotateKey
  <2>2. nodes[n] \in Rows /\ keys'[n] \in 1..MaxKey
    BY <1>0, <1>5, <2>1, NewKeyType DEF RotateKey
  <2>3. [nodes[n] EXCEPT !.key = keys'[n]] \in Rows
    BY <2>2 DEF Rows
  <2>4. nodes'[n] # NoRow
    BY <1>0, <1>5, <2>3 DEF RotateKey
  <2>. QED
    BY <1>1, <2>1, <2>4
<1>. QED
  BY <1>1, <1>2, <1>3, <1>4, <1>5
  DEF Next, NodeSteps, HubStops, HubStarts, TokenIssue, TokenRevoke, PlayerChanges, PlayerVisits,
      Registered, SetAPIKey, TickStarts, PushRoster, PullRoster, UpsertRemoteRoster, TickFails,
      EventsFail, Start,
      ConnectionLost, Stop, InstallKey, vars, hubVars, opVars

-----------------------------------------------------------------------------
(* The theorems. *)

\* Both invariants hold of every reachable state.
THEOREM Invariance == Spec => []RegistryInv
<1>1. RegistryInv /\ [Next]_vars => RegistryInv'
  BY NextType, NextCalls, NextKeys, NextRoster
  DEF RegistryInv, KeyInv, RosterInv, CallInv, KeysRight, NothingLostWithoutFault
<1>. QED
  BY <1>1, InitRegistry, PTL DEF Spec

\* A granted key works until an operator ends it, and no node is locked out of
\* its id without a failure.
THEOREM KeysAgree == Spec => []KeyInv
<1>1. RegistryInv => KeyInv
  BY DEF RegistryInv
<1>. QED
  BY <1>1, Invariance, PTL

\* Every roster row is its home's and goes with it.
THEOREM RosterIsOwned == Spec => []RosterInv
<1>1. RegistryInv => RosterInv
  BY DEF RegistryInv
<1>. QED
  BY <1>1, Invariance, PTL


=============================================================================
