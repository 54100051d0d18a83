--------------------------- MODULE HubTravelProof ---------------------------
(***************************************************************************)
(* Proofs about the hub's travel queue, for any nodes, players and number  *)
(* of requests.  HubInd is inductive: the ids below nextId are the only    *)
(* ones in use, and a pending row and its player's location row point at   *)
(* each other, unless an operator reopened an old request of the player.   *)
(* OnePendingPerPlayer follows because a location row holds one travel id. *)
(***************************************************************************)
EXTENDS HubTravel, TLAPS

USE HubTravelAssumption

\* A pending row is a row, with the fields of one.
LEMMA PendingIsRow ==
    ASSUME HubTypeOK, NEW i \in Id, Pending(i)
    PROVE  travel[i] \in Row
BY DEF HubTypeOK, Pending, NoRow

\* The location row of a pending request's player names the request.
LEMMA LocatedById ==
    ASSUME PendingIsLocated, NEW i \in Id, Pending(i), travel[i].player \notin reopened
    PROVE  loc[travel[i].player].id = i /\ loc[travel[i].player].at = travel[i].from
<1>1. loc[travel[i].player] = [status |-> "traveling", at |-> travel[i].from, id |-> i]
  BY DEF PendingIsLocated, LocatedBy
<1> QED BY <1>1

\* The empty tables satisfy the inductive invariant.
LEMMA HubIndInit == HubInit => HubInd
BY DEF HubInit, HubInd, HubTypeOK, IdsAreFresh, PendingIsLocated, LocatedBy, Pending,
       NoRow, Id

\* Handlers that only admit a request, and requests that are refused, leave
\* the tables alone.
LEMMA HubIndCalls ==
    ASSUME HubInd, UNCHANGED <<nodes, travel, nextId, loc, reopened>>, calls' \in SUBSET Call
    PROVE  HubInd'
BY DEF HubInd, HubTypeOK, IdsAreFresh, PendingIsLocated, LocatedBy, Pending

\* SubmitTravel: the new row is the only pending one of its player.
LEMMA HubIndSubmit ==
    ASSUME HubInd, NEW c \in calls, SubmitTravel(c)
    PROVE  HubInd'
<1> USE DEF HubInd
<1>1. c \in SubmitCall
  BY DEF SubmitTravel, HubTypeOK, Call, ReportCall, SubmitCall
<1> DEFINE row == [player |-> c.player, from |-> c.from, dest |-> c.dest,
                   snap |-> c.snap, status |-> "pending"]
           at  == [status |-> "traveling", at |-> c.from, id |-> nextId]
<1>2. /\ row \in Row
      /\ c.player \in Player /\ c.from \in Node /\ c.dest \in Node
      /\ nextId \in Id /\ nextId' = nextId + 1
      /\ nextId' \in 1..MaxTravels + 1
  BY <1>1 DEF SubmitCall, Row, SubmitTravel, Departs, HubTypeOK, Id
<1>3. at \in Location
  BY <1>2 DEF Location, Id
<1>4. /\ travel' = [travel EXCEPT ![nextId] = row]
      /\ loc' = [loc EXCEPT ![c.player] = at]
      /\ calls' \subseteq calls /\ nodes' = nodes /\ reopened' = reopened
  BY DEF SubmitTravel, Departs
<1> HIDE DEF row, at
<1>5. HubTypeOK'
  BY <1>2, <1>3, <1>4 DEF HubTypeOK
<1>6. /\ travel'[nextId] = row
      /\ \A i \in Id \ {nextId} : travel'[i] = travel[i]
      /\ loc'[c.player] = at
      /\ \A p \in Player \ {c.player} : loc'[p] = loc[p]
  BY <1>2, <1>4 DEF HubTypeOK
<1>7. row.player = c.player /\ row.from = c.from /\ row.dest = c.dest
      /\ c.dest # c.from
  BY DEF row, SubmitTravel, Accepts
<1>8. IdsAreFresh'
  <2>1. ASSUME NEW i \in Id, travel'[i] # NoRow PROVE i < nextId'
    <3>1. CASE i = nextId
      BY <1>2, <3>1 DEF HubTypeOK
    <3>2. CASE i # nextId
      BY <1>2, <1>6, <2>1, <3>2 DEF HubTypeOK, IdsAreFresh, Id
    <3> QED BY <3>1, <3>2
  <2>2. ASSUME NEW i \in Id, travel'[i] # NoRow PROVE travel'[i].dest # travel'[i].from
    BY <1>6, <1>7, <2>2 DEF IdsAreFresh
  <2> QED BY <2>1, <2>2 DEF IdsAreFresh
<1>9. PendingIsLocated'
  <2> SUFFICES ASSUME NEW i \in Id, Pending(i)', travel'[i].player \notin reopened
               PROVE  loc'[travel'[i].player] =
                        [status |-> "traveling", at |-> travel'[i].from, id |-> i]
    BY <1>4 DEF PendingIsLocated, LocatedBy
  <2>1. CASE i = nextId
    BY <1>6, <1>7, <2>1 DEF at
  <2>2. CASE i # nextId
    <3>1. travel'[i] = travel[i] /\ Pending(i)
      BY <1>6, <2>2 DEF Pending
    <3>2. travel[i].player # c.player /\ travel[i].player \in Player
      BY <3>1, PendingIsRow DEF SubmitTravel, Accepts, Row
    <3> QED BY <1>6, <3>1, <3>2 DEF PendingIsLocated, LocatedBy
  <2> QED BY <2>1, <2>2
<1> QED BY <1>5, <1>8, <1>9

\* Taking row i out of the queue, with or without moving its player: no other
\* row of that player is pending.
LEMMA HubIndLeaves ==
    ASSUME HubInd, NEW i \in Id, Pending(i),
           NEW st \in {"arrived", "blocked"},
           travel' = [travel EXCEPT ![i].status = st],
           loc' \in [Player -> Location \cup {NoRow}],
           \A p \in Player \ {travel[i].player} : loc'[p] = loc[p],
           UNCHANGED <<nodes, nextId, reopened>>, calls' \subseteq calls
    PROVE  HubInd'
<1> USE DEF HubInd
<1>1. travel[i] \in Row
  BY PendingIsRow
<1>2. [travel[i] EXCEPT !.status = st] \in Row
  BY <1>1 DEF Row
<1>3. HubTypeOK'
  BY <1>2 DEF HubTypeOK
<1>4. /\ travel'[i] = [travel[i] EXCEPT !.status = st]
      /\ travel'[i].status = st
      /\ \A j \in Id \ {i} : travel'[j] = travel[j]
  BY <1>1 DEF HubTypeOK, Row
<1>5. ~Pending(i)'
  BY <1>4 DEF Pending
<1>6. IdsAreFresh'
  <2>1. travel[i] # NoRow
    BY <1>1 DEF Row, NoRow
  <2>2. /\ travel'[i].dest = travel[i].dest /\ travel'[i].from = travel[i].from
    BY <1>1, <1>4 DEF Row
  <2> QED BY <1>4, <2>1, <2>2 DEF IdsAreFresh
<1>7. PendingIsLocated'
  <2> SUFFICES ASSUME NEW j \in Id, Pending(j)', travel'[j].player \notin reopened
               PROVE  loc'[travel'[j].player] =
                        [status |-> "traveling", at |-> travel'[j].from, id |-> j]
    BY DEF PendingIsLocated, LocatedBy
  <2>1. j # i /\ travel'[j] = travel[j] /\ Pending(j)
    BY <1>4, <1>5 DEF Pending
  <2>2. travel[j].player # travel[i].player
    BY <2>1, LocatedById
  <2>3. travel[j].player \in Player
    BY <2>1, PendingIsRow DEF Row
  <2> QED BY <2>1, <2>2, <2>3 DEF PendingIsLocated, LocatedBy
<1> QED BY <1>3, <1>6, <1>7

LEMMA HubIndReport ==
    ASSUME HubInd, NEW c \in calls, ArriveTravel(c) \/ BlockTravel(c)
    PROVE  HubInd'
<1>1. c \in ReportCall /\ c.id \in Id /\ c.from \in Node /\ Pending(c.id)
  BY DEF HubInd, HubTypeOK, Call, SubmitCall, ReportCall, ArriveTravel, BlockTravel
<1>2. travel[c.id].player \in Player
  BY <1>1, PendingIsRow DEF HubInd, Row
<1>3. CASE ArriveTravel(c)
  <2>1. [status |-> "active", at |-> c.from, id |-> 0] \in Location
    BY <1>1 DEF Location
  <2>2. /\ loc' \in [Player -> Location \cup {NoRow}]
        /\ \A p \in Player \ {travel[c.id].player} : loc'[p] = loc[p]
    BY <1>2, <1>3, <2>1 DEF ArriveTravel, Arrives, HubInd, HubTypeOK
  <2>3. /\ travel' = [travel EXCEPT ![c.id].status = "arrived"]
        /\ UNCHANGED <<nodes, nextId, reopened>> /\ calls' \subseteq calls
    BY <1>3 DEF ArriveTravel, Arrives
  <2> QED BY <1>1, <2>2, <2>3, HubIndLeaves
<1>4. CASE BlockTravel(c)
  <2>1. /\ travel' = [travel EXCEPT ![c.id].status = "blocked"]
        /\ loc' = loc
        /\ UNCHANGED <<nodes, nextId, reopened>> /\ calls' \subseteq calls
    BY <1>4 DEF BlockTravel
  <2>2. loc' \in [Player -> Location \cup {NoRow}]
    BY <2>1 DEF HubInd, HubTypeOK
  <2> QED BY <1>1, <2>1, <2>2, HubIndLeaves
<1> QED BY <1>3, <1>4

\* node-remove deletes every pending row whose player's location it deletes.
LEMMA HubIndRemove ==
    ASSUME HubInd, NEW n \in Node, NodeRemove(n)
    PROVE  HubInd'
<1> USE DEF HubInd
<1>1. HubTypeOK'
  BY DEF HubTypeOK, NodeRemove
<1>2. \A i \in Id : travel'[i] # NoRow => travel'[i] = travel[i] /\ ~TravelsOf(n, i)
  BY DEF NodeRemove
<1>3. \A i \in Id : Pending(i)' => travel'[i] = travel[i] /\ Pending(i) /\ ~TravelsOf(n, i)
  BY <1>2 DEF Pending, NoRow
<1>4. IdsAreFresh'
  BY <1>2 DEF IdsAreFresh, NodeRemove
<1>5. PendingIsLocated'
  <2> SUFFICES ASSUME NEW i \in Id, Pending(i)', travel'[i].player \notin reopened
               PROVE  loc'[travel'[i].player] =
                        [status |-> "traveling", at |-> travel'[i].from, id |-> i]
    BY DEF PendingIsLocated, LocatedBy, NodeRemove
  <2>1. /\ travel'[i] = travel[i] /\ Pending(i)
        /\ travel[i] \in Row
    BY <1>3, PendingIsRow
  <2>2. travel[i].from # n /\ Home[travel[i].player] # n
    BY <1>3, <2>1 DEF TravelsOf, Row, NoRow
  <2>3. loc[travel[i].player] =
          [status |-> "traveling", at |-> travel[i].from, id |-> i]
    BY <2>1 DEF PendingIsLocated, LocatedBy
  <2>4. travel[i].player \in Player /\ ~LocationsOf(n, travel[i].player)
    BY <2>1, <2>2, <2>3 DEF LocationsOf, Row
  <2> QED BY <2>1, <2>3, <2>4 DEF NodeRemove
<1> QED BY <1>1, <1>4, <1>5

\* Registration and node-suspend or node-reactivate touch the nodes table only.
LEMMA HubIndNodes ==
    ASSUME HubInd, NEW n \in Node, NEW st \in {"active", "suspended"},
           RegisterNode(n) \/ NodeStatus(n, st)
    PROVE  HubInd'
<1>1. /\ nodes' \in [Node -> {"absent", "active", "suspended"}]
      /\ UNCHANGED <<travel, nextId, loc, calls, reopened>>
  BY DEF RegisterNode, NodeStatus, HubInd, HubTypeOK
<1> QED BY <1>1 DEF HubInd, HubTypeOK, IdsAreFresh, PendingIsLocated, LocatedBy, Pending

\* queue-retry: either the location row is still the one of the request, or its
\* player counts as reopened.
LEMMA HubIndRetry ==
    ASSUME HubInd, NEW i \in Id, QueueRetry(i)
    PROVE  HubInd'
<1> USE DEF HubInd
<1>1. travel[i] \in Row /\ travel[i] # NoRow
  BY DEF QueueRetry, HubTypeOK, NoRow
<1>2. [travel[i] EXCEPT !.status = "pending"] \in Row /\ travel[i].player \in Player
  BY <1>1 DEF Row
<1>3. /\ travel'[i] = [travel[i] EXCEPT !.status = "pending"]
      /\ \A j \in Id \ {i} : travel'[j] = travel[j]
  BY DEF QueueRetry, HubTypeOK
<1>4. /\ travel'[i].player = travel[i].player /\ travel'[i].from = travel[i].from
      /\ travel'[i].dest = travel[i].dest
  BY <1>1, <1>3 DEF Row
<1>5. reopened \subseteq reopened' /\ reopened' \in SUBSET Player
  BY <1>2 DEF QueueRetry, HubTypeOK
<1>6. HubTypeOK'
  BY <1>2, <1>5 DEF HubTypeOK, QueueRetry
<1>7. IdsAreFresh'
  BY <1>1, <1>3, <1>4 DEF IdsAreFresh, QueueRetry
<1>8. PendingIsLocated'
  <2> SUFFICES ASSUME NEW j \in Id, Pending(j)', travel'[j].player \notin reopened'
               PROVE  LocatedBy(j)'
    BY DEF PendingIsLocated
  <2>1. CASE j = i
    <3>1. LocatedBy(i)
      BY <1>4, <2>1 DEF QueueRetry
    <3> QED BY <1>4, <2>1, <3>1 DEF LocatedBy, QueueRetry
  <2>2. CASE j # i
    <3>1. travel'[j] = travel[j] /\ Pending(j) /\ travel[j].player \notin reopened
      BY <1>3, <1>5, <2>2 DEF Pending
    <3>2. LocatedBy(j)
      BY <3>1 DEF PendingIsLocated
    <3> QED BY <3>1, <3>2 DEF LocatedBy, QueueRetry
  <2> QED BY <2>1, <2>2
<1> QED BY <1>6, <1>7, <1>8

\* Every step of the hub keeps the inductive invariant.
LEMMA HubIndNext == HubInd /\ [HubNext]_hubTravelVars => HubInd'
<1> SUFFICES ASSUME HubInd, [HubNext]_hubTravelVars PROVE HubInd'
  OBVIOUS
<1>1. CASE \E c \in SubmitCall : TravelSubmit(c)
  BY <1>1, HubIndCalls DEF TravelSubmit, Admit, Call, HubInd, HubTypeOK
<1>2. CASE \E c \in ReportCall : TravelReport(c)
  BY <1>2, HubIndCalls DEF TravelReport, Admit, Call, HubInd, HubTypeOK
<1>3. CASE \E c \in calls : Transaction(c) \/ Fails(c)
  <2>1. ASSUME NEW c \in calls, Refuses(c) \/ Fails(c) PROVE HubInd'
    BY <2>1, HubIndCalls DEF Refuses, Fails, HubInd, HubTypeOK
  <2> QED BY <1>3, <2>1, HubIndSubmit, HubIndReport DEF Transaction
<1>4. CASE \E n \in Node : Admin(n)
  BY <1>4, HubIndRemove, HubIndNodes DEF Admin
<1>5. CASE UNCHANGED hubTravelVars
  BY <1>5, HubIndCalls DEF hubTravelVars, HubInd, HubTypeOK
<1>6. CASE \E i \in Id : QueueRetry(i)
  BY <1>6, HubIndRetry
<1> QED BY <1>1, <1>2, <1>3, <1>4, <1>5, <1>6 DEF HubNext

\* HubInd is an invariant of the hub's travel queue.
THEOREM HubInvariance == HubSpec => []HubInd
<1>1. HubInit => HubInd
  BY HubIndInit
<1>2. HubInd /\ [HubNext]_hubTravelVars => HubInd'
  BY HubIndNext
<1> QED BY <1>1, <1>2, PTL DEF HubSpec

\* A pending request and its player's location row point at each other
\* (SubmitTravel, ArriveTravel and node-remove keep the two tables together),
\* except for a player of whom queue-retry reopened an old request.
THEOREM PendingLocated == HubSpec => []PendingIsLocated
<1>1. HubInd => PendingIsLocated
  BY DEF HubInd
<1> QED BY <1>1, HubInvariance, PTL

\* A player of whom queue-retry has not reopened an old request never has two
\* pending travel requests, whatever requests are between their checks and their
\* transaction.
THEOREM OnePending == HubSpec => []OnePendingPerPlayer
<1>1. HubInd => OnePendingPerPlayer
  BY LocatedById DEF HubInd, OnePendingPerPlayer
<1> QED BY <1>1, HubInvariance, PTL

\* A location row changes node only by the arrival of that player's pending
\* request, and from that node if queue-retry reopened no old request.
THEOREM MovesByArrival == HubSpec => MovesOnlyByArrival
<1> DEFINE Moved(p) == loc[p] # NoRow /\ loc'[p] # NoRow /\ loc'[p].at # loc[p].at
           Reason(p) == \E i \in Id :
                          /\ Pending(i) /\ travel'[i].status = "arrived"
                          /\ travel[i].player = p /\ travel[i].dest = loc'[p].at
                          /\ p \in reopened \/ travel[i].from = loc[p].at
<1>1. HubInd /\ [HubNext]_hubTravelVars =>
        [\A p \in Player : Moved(p) => Reason(p)]_hubTravelVars
  <2> SUFFICES ASSUME HubInd, HubNext, NEW p \in Player, Moved(p)
               PROVE  Reason(p)
    OBVIOUS
  <2>1. CASE \E c \in calls : SubmitTravel(c)
    <3>1. PICK c \in calls : SubmitTravel(c)
      BY <2>1
    <3>2. c \in SubmitCall /\ c.player \in Player
      BY <3>1 DEF SubmitTravel, HubInd, HubTypeOK, Call, ReportCall, SubmitCall
    <3>3. loc'[p] = IF p = c.player
                    THEN [status |-> "traveling", at |-> c.from, id |-> nextId]
                    ELSE loc[p]
      BY <3>1, <3>2 DEF SubmitTravel, Departs, HubInd, HubTypeOK
    <3>4. p = c.player => loc[p].at = c.from
      BY <3>1 DEF SubmitTravel, Accepts, CurrentNode
    <3> QED BY <3>3, <3>4
  <2>2. CASE \E c \in calls : ArriveTravel(c)
    <3>1. PICK c \in calls : ArriveTravel(c)
      BY <2>2
    <3>2. /\ c.id \in Id /\ Pending(c.id) /\ travel[c.id].dest = c.from
      BY <3>1 DEF ArriveTravel, HubInd, HubTypeOK, Call, SubmitCall, ReportCall
    <3>3. travel[c.id] \in Row
      BY <3>2, PendingIsRow DEF HubInd
    <3>4. /\ travel'[c.id].status = "arrived"
          /\ loc'[p] = IF p = travel[c.id].player
                       THEN [status |-> "active", at |-> c.from, id |-> 0]
                       ELSE loc[p]
      BY <3>1, <3>2, <3>3 DEF ArriveTravel, Arrives, HubInd, HubTypeOK, Row
    <3>5. p = travel[c.id].player
      BY <3>4
    <3>6. /\ p \in reopened \/ loc[p].at = travel[c.id].from
          /\ loc'[p].at = travel[c.id].dest
      BY <3>2, <3>4, <3>5, LocatedById DEF HubInd
    <3> QED BY <3>2, <3>4, <3>5, <3>6
  <2>3. CASE \E n \in Node : NodeRemove(n)
    BY <2>3 DEF NodeRemove
  <2>4. CASE loc' = loc
    BY <2>4
  <2> QED BY <2>1, <2>2, <2>3, <2>4
          DEF HubNext, Transaction, Admin, TravelSubmit, TravelReport, BlockTravel,
              Refuses, Fails, RegisterNode, NodeStatus, QueueRetry
<1> QED BY <1>1, HubInvariance, PTL DEF HubSpec, MovesOnlyByArrival

=============================================================================
