---------------------------- MODULE TravelProof ----------------------------
(***************************************************************************)
(* A journey never refers to a row that does not exist, is imported again  *)
(* only after a failure, locks nobody out, and uses the hub as HubTravel   *)
(* says, for any nodes, players, terminals, names that clash and failures. *)
(***************************************************************************)
EXTENDS Travel, HubTravelProof

USE HubTravelAssumption, TravelAssumption

TravelInd == HubInd /\ TravelInv

LEMMA TravelIndInit == Init => TravelInd
<1>. SUFFICES ASSUME Init PROVE TravelInd
  OBVIOUS
<1>1. HubInd
  BY HubIndInit DEF Init
<1>2. char \in [Node -> [Player -> CharRow \cup {NoRow}]] /\ \A p \in Player : char[Home[p]][p] # NoRow
  <2>. DEFINE new == [status |-> "active"]
  <2>1. new \in CharRow
    BY DEF CharRow, Status
  <2>2. new # NoRow
    <3>1. new.status # NoRow.status
      BY DEF NoRow
    <3>. QED
      BY <3>1
  <2>3. char = [n \in Node |-> [p \in Player |-> IF Home[p] = n THEN new ELSE NoRow]]
    BY DEF Init
  <2>. HIDE DEF new
  <2>. QED
    BY <2>1, <2>2, <2>3
<1>3. sess \in [Session -> SessionState] /\ tick \in [Node ->
        [pc : {"idle", "drain", "row", "state", "imported", "waiting"},
         todo : SUBSET Id, id : 0..MaxTravels]]
  <2>1. Offline \in SessionState
    BY DEF SessionState
  <2>2. Idle \in [pc : {"idle", "drain", "row", "state", "imported", "waiting"},
                  todo : SUBSET Id, id : 0..MaxTravels]
    BY DEF Idle
  <2>. QED
    BY <2>1, <2>2 DEF Init
<1>4. TravelTypeOK
  <2>1. reopened = {} /\ imports \in [Id -> 0..MaxFaults + 2]
    BY DEF Init, HubInit
  <2>. QED
    BY <1>1, <1>2, <1>3, <2>1 DEF Init, TravelTypeOK, HubInd
<1>5. LocatedWhereImported
  BY <1>2 DEF Init, HubInit, LocatedWhereImported, CurrentNode
<1>6. SessionsHaveRows /\ DrainsHaveRows /\ ReportsHaveRows
  BY DEF Init, HubInit, SessionsHaveRows, DrainsHaveRows, ReportsHaveRows, Idle
<1>. QED
  BY <1>1, <1>4, <1>5, <1>6 DEF TravelInd, TravelInv

-----------------------------------------------------------------------------
(* Sessions and drains by their state. *)

LEMMA PlayingFacts ==
    ASSUME TravelInd, NEW s \in Session, sess[s].pc = "play"
    PROVE  /\ sess[s].at \in Node /\ sess[s].who \in Player
           /\ char[sess[s].at][sess[s].who] \in CharRow
<1>1. sess[s] \in SessionState /\ sess[s] # Offline
  BY DEF TravelInd, TravelInv, TravelTypeOK, Offline
<1>2. sess[s].at \in Node /\ sess[s].who \in Player
  BY <1>1 DEF SessionState, Offline
<1>. QED
  BY <1>1, <1>2 DEF TravelInd, TravelInv, TravelTypeOK, SessionsHaveRows

LEMMA DepartingFacts ==
    ASSUME TravelInd, NEW s \in Session,
           sess[s].pc \in {"exported", "marked", "waiting", "failed"}
    PROVE  /\ sess[s] \in [pc : {"exported", "marked", "waiting", "failed"}, at : Node,
                           who : Player, req : SubmitCall]
           /\ sess[s].at \in Node /\ sess[s].who \in Player /\ sess[s].req \in SubmitCall
           /\ sess[s].req.from = sess[s].at /\ sess[s].req.player = sess[s].who
           /\ char[sess[s].at][sess[s].who] \in CharRow
<1>1. sess[s] \in SessionState /\ sess[s] # Offline
  BY DEF TravelInd, TravelInv, TravelTypeOK, Offline
<1>2. sess[s] \in [pc : {"exported", "marked", "waiting", "failed"}, at : Node,
                   who : Player, req : SubmitCall]
  BY <1>1 DEF SessionState, Offline
<1>. QED
  BY <1>1, <1>2 DEF TravelInd, TravelInv, TravelTypeOK, SessionsHaveRows

LEMMA DrainFacts ==
    ASSUME TravelInd, NEW n \in Node
    PROVE  /\ tick[n] \in [pc : {"idle", "drain", "row", "state", "imported", "waiting"},
                           todo : SUBSET Id, id : 0..MaxTravels]
           /\ \A i \in tick[n].todo : /\ i \in Id /\ travel[i] \in Row /\ travel[i].dest = n
                                      /\ travel[i].player \in Player /\ travel[i].snap \in Snapshot
           /\ tick[n].pc \notin {"idle", "drain"} =>
                LET i == tick[n].id
                IN  /\ i \in Id /\ travel[i] \in Row /\ travel[i].dest = n
                    /\ travel[i].player \in Player /\ travel[i].snap \in Snapshot
                    /\ char[n][travel[i].player] \in CharRow
<1>1. /\ tick[n] \in [pc : {"idle", "drain", "row", "state", "imported", "waiting"},
                      todo : SUBSET Id, id : 0..MaxTravels]
      /\ travel \in [Id -> Row \cup {NoRow}]
      /\ char \in [Node -> [Player -> CharRow \cup {NoRow}]]
  BY DEF TravelInd, TravelInv, TravelTypeOK, HubTypeOK
<1>2. \A i \in Id : travel[i] # NoRow =>
        travel[i] \in Row /\ travel[i].player \in Player /\ travel[i].snap \in Snapshot
  BY <1>1 DEF Row
<1>3. \A i \in tick[n].todo : i \in Id /\ travel[i] # NoRow /\ travel[i].dest = n
  BY <1>1 DEF TravelInd, TravelInv, DrainsHaveRows
<1>4. tick[n].pc \notin {"idle", "drain"} => tick[n].id \in Id /\ Imported(n, tick[n].id)
  BY DEF TravelInd, TravelInv, DrainsHaveRows
<1>. QED
  BY <1>1, <1>2, <1>3, <1>4 DEF Imported

-----------------------------------------------------------------------------
(* Every step of a node is a step of the hub's specification, or none. *)

LEMMA NextImplementsHub ==
    ASSUME TravelInd, Next
    PROVE  [HubNext]_hubTravelVars
<1>2. CASE \E s \in Session : Submit(s)
  BY <1>2, DepartingFacts DEF Submit, HubNext
<1>3. CASE \E s \in Session : SubmitAccepted(s) \/ SubmitRefused(s)
  BY <1>3 DEF SubmitAccepted, SubmitRefused, HubNext, Transaction, SubmitTravel, Refuses
<1>4. CASE \E s \in Session : SubmitLost(s)
  BY <1>4 DEF SubmitLost, HubNext, Fails, hubTravelVars
<1>5. CASE \E n \in Node : ReportArrival(n)
  <2>1. PICK n \in Node : ReportArrival(n)
    BY <1>5
  <2>2. Arrival(n, tick[n].id) \in ReportCall
    BY <2>1, DrainFacts DEF ReportArrival, ReportsFrom, Arrival, ReportCall
  <2>. QED
    BY <2>1, <2>2 DEF ReportArrival, ReportsFrom, HubNext
<1>6. CASE \E n \in Node : ArrivalAnswered(n)
  BY <1>6 DEF ArrivalAnswered, HubNext, Transaction, ArriveTravel, Refuses
<1>7. CASE \E n \in Node : ArrivalLost(n)
  BY <1>7 DEF ArrivalLost, HubNext, Fails, hubTravelVars
<1>8. CASE FinishAbandoned
  BY <1>8 DEF FinishAbandoned, HubNext
<1>9. CASE UNCHANGED hubTravelVars
  BY <1>9
<1>10. ASSUME NEW s \in Session,
              \/ \E n \in Node, p \in Player : Login(s, n, p)
              \/ Logout(s)
              \/ \E d \in Node : ExportPlayer(s, d)
              \/ MarkTraveling(s) \/ MarkFails(s) \/ SubmitRejected(s) \/ UndoTraveling(s) \/ UndoFails(s)
       PROVE  UNCHANGED hubTravelVars
  BY <1>10 DEF Login, Logout, ExportPlayer, MarkTraveling, MarkFails, SubmitRejected,
     UndoTraveling, UndoFails
<1>11. ASSUME NEW n \in Node,
              \/ DrainFetches(n) \/ DrainEnds(n)
              \/ \E i \in Id : ImportPlayer(n, i) \/ ImportClashes(n, i)
              \/ ImportState(n) \/ ImportHome(n)
              \/ ImportFails(n) \/ ImportHomeFails(n) \/ Crash(n)
       PROVE  UNCHANGED hubTravelVars
  BY <1>11 DEF DrainFetches, DrainEnds, ImportPlayer, ImportClashes, ImportState, ImportHome,
     ImportFails, ImportHomeFails, Crash
<1>. QED
  BY <1>2, <1>3, <1>4, <1>5, <1>6, <1>7, <1>8, <1>9, <1>10, <1>11 DEF Next, TravelFn, Drain

-----------------------------------------------------------------------------
(* What a step leaves in the tables. *)

\* Rows never disappear.
RowsKept ==
    /\ char' \in [Node -> [Player -> CharRow \cup {NoRow}]]
    /\ \A n \in Node : \A p \in Player : char[n][p] # NoRow =>
         char'[n][p] # NoRow

\* A row is written.
LEMMA RowWritten ==
    ASSUME TravelInd, NEW n \in Node, NEW p \in Player, NEW r \in CharRow,
           char' = [char EXCEPT ![n] = [char[n] EXCEPT ![p] = r]]
    PROVE  /\ RowsKept /\ char'[n][p] = r
           /\ \A m \in Node : \A q \in Player : <<m, q>> # <<n, p>> => char'[m][q] = char[m][q]
<1>1. char \in [Node -> [Player -> CharRow \cup {NoRow}]]
  BY DEF TravelInd, TravelInv, TravelTypeOK
<1>2. /\ char' \in [Node -> [Player -> CharRow \cup {NoRow}]]
      /\ char'[n][p] = r
      /\ \A m \in Node : \A q \in Player : <<m, q>> # <<n, p>> => char'[m][q] = char[m][q]
  BY <1>1
<1>3. r # NoRow
  <2>1. r.status # NoRow.status
    BY DEF CharRow, Status, NoRow
  <2>. QED
    BY <2>1
<1>4. \A m \in Node : \A q \in Player : char[m][q] # NoRow =>
        char'[m][q] # NoRow
  BY <1>2, <1>3
<1>. QED
  BY <1>2, <1>4 DEF RowsKept

LEMMA RowsUnchanged ==
    ASSUME TravelInd, char' = char
    PROVE  RowsKept
<1>1. char \in [Node -> [Player -> CharRow \cup {NoRow}]]
  BY DEF TravelInd, TravelInv, TravelTypeOK
<1>. QED
  BY <1>1 DEF RowsKept

LEMMA SessionRows ==
    ASSUME TravelInd, NEW s \in Session, MarkTraveling(s) \/ UndoTraveling(s)
    PROVE  RowsKept
<1>. DEFINE n == sess[s].at
            p == sess[s].who
            r == char[n][p]
<1>1. n \in Node /\ p \in Player /\ r \in CharRow
  BY DepartingFacts DEF MarkTraveling, UndoTraveling
<1>2. PICK st \in Status : SetPlayerStatus(n, p, st)
  BY DEF MarkTraveling, UndoTraveling, Status
<1>. DEFINE new == [r EXCEPT !.status = st]
<1>3. new \in CharRow
  BY <1>1 DEF CharRow
<1>4. char' = [char EXCEPT ![n] = [char[n] EXCEPT ![p] = new]]
  BY <1>2 DEF SetPlayerStatus
<1>. HIDE DEF new
<1>. QED
  BY <1>1, <1>3, <1>4, RowWritten

LEMMA ImportPlayerRows ==
    ASSUME TravelInd, NEW n \in Node, NEW i \in Id, ImportPlayer(n, i)
    PROVE  /\ RowsKept /\ char'[n][travel[i].player] # NoRow
           /\ i \in tick[n].todo /\ travel[i] # NoRow /\ travel[i].dest = n
<1>1. i \in tick[n].todo /\ travel[i] \in Row /\ travel[i].dest = n
      /\ travel[i].player \in Player /\ travel[i].snap \in CharRow
  BY DrainFacts DEF ImportPlayer, CharRow
<1>2. PICK p \in Player, new \in CharRow : p = travel[i].player /\ new = travel[i].snap
  BY <1>1
<1>3. char' = [char EXCEPT ![n] = [char[n] EXCEPT ![p] = new]]
  BY <1>2 DEF ImportPlayer
<1>4. RowsKept /\ char'[n][p] = new
  <2>1. RowsKept
    BY <1>3, RowWritten
  <2>2. char'[n][p] = new
    BY <1>3 DEF TravelInd, TravelInv, TravelTypeOK
  <2>. QED
    BY <2>1, <2>2
<1>5. new # NoRow /\ travel[i] # NoRow
  <2>1. new.status # NoRow.status /\ travel[i].status # NoRow.status
    BY <1>1 DEF CharRow, Status, NoRow, Row
  <2>. QED
    BY <2>1
<1>. QED
  BY <1>1, <1>2, <1>4, <1>5

LEMMA ImportHomeRows ==
    ASSUME TravelInd, NEW n \in Node, ImportHome(n)
    PROVE  RowsKept
<1>. DEFINE i == tick[n].id
            p == travel[i].player
            r == char[n][p]
            st == IF Home[p] = n THEN "active" ELSE r.status
            new == [r EXCEPT !.status = st]
<1>1. i \in Id /\ p \in Player /\ r \in CharRow
  BY DrainFacts DEF ImportHome
<1>2. st \in Status
  BY <1>1 DEF CharRow, Status
<1>3. char' = [char EXCEPT ![n] = [char[n] EXCEPT ![p] = new]]
  BY DEF ImportHome
<1>. HIDE DEF st
<1>4. new \in CharRow
  <2>. HIDE DEF r
  <2>. QED
    BY <1>1, <1>2 DEF CharRow
<1>. HIDE DEF new
<1>. QED
  BY <1>1, <1>3, <1>4, RowWritten

LEMMA NextKeepsRows ==
    ASSUME TravelInd, Next
    PROVE  RowsKept
<1>1. CASE \E s \in Session : MarkTraveling(s) \/ UndoTraveling(s)
  BY <1>1, SessionRows
<1>2. CASE \E n \in Node : \E i \in Id : ImportPlayer(n, i)
  BY <1>2, ImportPlayerRows
<1>4. CASE \E n \in Node : ImportHome(n)
  BY <1>4, ImportHomeRows
<1>5. ASSUME NEW s \in Session,
             \/ \E n \in Node, p \in Player : Login(s, n, p)
             \/ Logout(s)
             \/ \E d \in Node : ExportPlayer(s, d)
             \/ Submit(s) \/ SubmitRejected(s) \/ SubmitAccepted(s) \/ SubmitRefused(s)
             \/ SubmitLost(s) \/ MarkFails(s) \/ UndoFails(s)
      PROVE  char' = char
  BY <1>5 DEF Login, Logout, ExportPlayer, Submit, SubmitRejected, SubmitAccepted, SubmitRefused,
     SubmitLost, MarkFails, UndoFails
<1>6. ASSUME NEW n \in Node,
             \/ DrainFetches(n) \/ DrainEnds(n) \/ (\E i \in Id : ImportClashes(n, i))
             \/ ReportArrival(n) \/ ArrivalAnswered(n) \/ ArrivalLost(n)
             \/ ImportState(n) \/ ImportFails(n) \/ ImportHomeFails(n) \/ Crash(n)
      PROVE  char' = char
  BY <1>6 DEF DrainFetches, DrainEnds, ImportClashes, ImportState, ReportArrival, ReportsFrom, ArrivalAnswered,
     ArrivalLost, ImportFails, ImportHomeFails, Crash
<1>7. CASE FinishAbandoned
  BY <1>7, RowsUnchanged DEF FinishAbandoned, nodeVars
<1>. QED
  BY <1>1, <1>2, <1>4, <1>5, <1>6, <1>7, RowsUnchanged DEF Next, TravelFn, Drain

-----------------------------------------------------------------------------
(* What a step leaves in the hub's tables. *)

\* A request that is new is a departure, or reports an import that is done.
NewCalls ==
    \A c \in calls' : \/ c \in calls \/ c.op = "submit"
                      \/ \E n \in Node : tick[n].pc = "imported" /\ c = Arrival(n, tick[n].id)

\* The travel table and the locations change by a transaction alone.
HubEffect ==
    /\ NewCalls /\ reopened' = reopened
    /\ \/ UNCHANGED <<travel, loc>>
       \/ \E c \in calls : SubmitTravel(c)
       \/ \E c \in calls : ArriveTravel(c)

LEMMA NextHubEffect ==
    ASSUME TravelInd, Next
    PROVE  HubEffect
<1>1. CASE UNCHANGED hubTravelVars
  BY <1>1 DEF HubEffect, NewCalls, hubTravelVars
<1>2. CASE \E s \in Session : Submit(s)
  <2>1. PICK s \in Session : Submit(s)
    BY <1>2
  <2>2. sess[s].req.op = "submit"
    BY <2>1, DepartingFacts DEF Submit, SubmitCall
  <2>. QED
    BY <2>1, <2>2 DEF Submit, TravelSubmit, Admit, HubEffect, NewCalls
<1>3. CASE \E s \in Session : SubmitAccepted(s) \/ SubmitRefused(s)
  BY <1>3 DEF SubmitAccepted, SubmitRefused, SubmitTravel, Refuses, HubEffect, NewCalls
<1>4. CASE \E s \in Session : SubmitLost(s)
  BY <1>4 DEF SubmitLost, HubEffect, NewCalls
<1>5. CASE \E n \in Node : ReportArrival(n)
  BY <1>5 DEF ReportArrival, ReportsFrom, TravelReport, Admit, HubEffect, NewCalls
<1>6. CASE \E n \in Node : ArrivalAnswered(n)
  BY <1>6 DEF ArrivalAnswered, ArriveTravel, Refuses, HubEffect, NewCalls
<1>7. CASE \E n \in Node : ArrivalLost(n)
  BY <1>7 DEF ArrivalLost, HubEffect, NewCalls
<1>8. CASE FinishAbandoned
  <2>1. PICK c \in calls : Transaction(c)
    BY <1>8 DEF FinishAbandoned
  <2>2. ~BlockTravel(c)
    BY DEF BlockTravel, TravelInd, TravelInv, ReportsHaveRows
  <2>. QED
    BY <2>1, <2>2 DEF Transaction, SubmitTravel, ArriveTravel, Refuses, HubEffect, NewCalls
<1>10. ASSUME NEW s \in Session,
              \/ \E n \in Node, p \in Player : Login(s, n, p)
              \/ Logout(s)
              \/ \E d \in Node : ExportPlayer(s, d)
              \/ MarkTraveling(s) \/ MarkFails(s) \/ SubmitRejected(s) \/ UndoTraveling(s) \/ UndoFails(s)
       PROVE  UNCHANGED hubTravelVars
  BY <1>10 DEF Login, Logout, ExportPlayer, MarkTraveling, MarkFails, SubmitRejected,
     UndoTraveling, UndoFails
<1>11. ASSUME NEW n \in Node,
              \/ DrainFetches(n) \/ DrainEnds(n)
              \/ \E i \in Id : ImportPlayer(n, i) \/ ImportClashes(n, i)
              \/ ImportState(n) \/ ImportHome(n)
              \/ ImportFails(n) \/ ImportHomeFails(n) \/ Crash(n)
       PROVE  UNCHANGED hubTravelVars
  BY <1>11 DEF DrainFetches, DrainEnds, ImportPlayer, ImportClashes, ImportState, ImportHome,
     ImportFails, ImportHomeFails, Crash
<1>. QED
  BY <1>1, <1>2, <1>3, <1>4, <1>5, <1>6, <1>7, <1>8, <1>10, <1>11 DEF Next, TravelFn, Drain

\* A travel row keeps what it says of the journey, and is only made arrived
\* by a report.
TableKept ==
    \A i \in Id :
        /\ travel[i] # NoRow =>
             /\ travel'[i] # NoRow /\ travel'[i].player = travel[i].player
             /\ travel'[i].dest = travel[i].dest /\ travel'[i].snap = travel[i].snap
        /\ travel'[i].status = "arrived" =>
             \/ travel[i].status = "arrived"
             \/ \E c \in calls : c.op = "arrived" /\ c.id = i

LEMMA EffectKeepsTable ==
    ASSUME TravelInd, HubEffect
    PROVE  TableKept
<1>1. travel \in [Id -> Row \cup {NoRow}] /\ nextId \in 1..MaxTravels + 1
      /\ \A i \in Id : travel[i] # NoRow => i < nextId
  BY DEF TravelInd, HubInd, HubTypeOK, IdsAreFresh
<1>2. CASE UNCHANGED <<travel, loc>>
  BY <1>2 DEF TableKept
<1>3. CASE \E c \in calls : SubmitTravel(c)
  <2>1. PICK c \in calls : SubmitTravel(c)
    BY <1>3
  <2>. DEFINE new == [player |-> c.player, from |-> c.from, dest |-> c.dest,
                      snap |-> c.snap, status |-> "pending"]
  <2>2. travel' = [travel EXCEPT ![nextId] = new] /\ nextId \in Id
    BY <1>1, <2>1 DEF SubmitTravel, Departs, Id
  <2>3. new.status = "pending"
    OBVIOUS
  <2>4. travel[nextId] = NoRow
    BY <1>1, <2>2 DEF Id
  <2>. HIDE DEF new
  <2>. QED
    BY <1>1, <2>2, <2>3, <2>4 DEF TableKept
<1>4. CASE \E c \in calls : ArriveTravel(c)
  <2>1. PICK c \in calls : ArriveTravel(c)
    BY <1>4
  <2>2. c.id \in Id /\ c.op = "arrived"
    BY <2>1 DEF ArriveTravel, TravelInd, HubInd, HubTypeOK, Call, SubmitCall, ReportCall
  <2>3. travel[c.id] \in Row
    BY <2>1, <2>2, PendingIsRow DEF ArriveTravel, TravelInd, HubInd
  <2>. DEFINE new == [travel[c.id] EXCEPT !.status = "arrived"]
  <2>4. travel' = [travel EXCEPT ![c.id] = new]
    BY <2>1 DEF ArriveTravel, Arrives
  <2>5. new.player = travel[c.id].player /\ new.dest = travel[c.id].dest
        /\ new.snap = travel[c.id].snap /\ new.status = "arrived"
    BY <2>3 DEF Row
  <2>6. new # NoRow
    <3>1. new.status # NoRow.status
      BY <2>5 DEF NoRow
    <3>. QED
      BY <3>1
  <2>. HIDE DEF new
  <2>. QED
    BY <1>1, <2>1, <2>2, <2>4, <2>5, <2>6 DEF TableKept
<1>. QED
  BY <1>2, <1>3, <1>4 DEF HubEffect

-----------------------------------------------------------------------------
(* Sessions. *)

\* After a step, whoever plays or departs had a row before it.
SessionsKept ==
    /\ sess' \in [Session -> SessionState]
    /\ \A s \in Session : sess'[s] # Offline =>
         /\ char[sess'[s].at][sess'[s].who] # NoRow
         /\ sess'[s].pc # "play" => /\ sess'[s].req.from = sess'[s].at
                                    /\ sess'[s].req.player = sess'[s].who

LEMMA SessionWritten ==
    ASSUME TravelInd, NEW s \in Session, NEW v \in SessionState,
           sess' = [sess EXCEPT ![s] = v],
           v # Offline =>
             /\ char[v.at][v.who] # NoRow
             /\ v.pc # "play" => v.req.from = v.at /\ v.req.player = v.who
    PROVE  SessionsKept
<1>1. sess \in [Session -> SessionState]
  BY DEF TravelInd, TravelInv, TravelTypeOK
<1>2. sess' \in [Session -> SessionState] /\ sess'[s] = v
      /\ \A t \in Session \ {s} : sess'[t] = sess[t]
  BY <1>1
<1>. QED
  BY <1>2 DEF SessionsKept, TravelInd, TravelInv, SessionsHaveRows

LEMMA NoRowIsNoCharRow == NoRow \notin CharRow
  BY DEF NoRow, CharRow, Status

LEMMA PlayingAgain ==
    ASSUME TravelInd, NEW s \in Session, NEW n \in Node, NEW p \in Player,
           char[n][p] # NoRow, sess' = [sess EXCEPT ![s] = Playing(n, p)]
    PROVE  SessionsKept
<1>. DEFINE v == Playing(n, p)
<1>1. v \in SessionState /\ v.at = n /\ v.who = p /\ v.pc = "play"
  BY DEF SessionState, Playing
<1>2. sess' = [sess EXCEPT ![s] = v]
  OBVIOUS
<1>. HIDE DEF v
<1>. QED
  BY <1>1, <1>2, SessionWritten

LEMMA DepartsFurther ==
    ASSUME TravelInd, NEW s \in Session, NEW pc \in {"exported", "marked", "waiting", "failed"},
           sess[s].pc \in {"exported", "marked", "waiting", "failed"},
           sess' = [sess EXCEPT ![s].pc = pc]
    PROVE  SessionsKept
<1>. DEFINE u == sess[s]
            v == [u EXCEPT !.pc = pc]
<1>1. /\ u \in [pc : {"exported", "marked", "waiting", "failed"}, at : Node,
               who : Player, req : SubmitCall]
      /\ u.req.from = u.at /\ u.req.player = u.who /\ char[u.at][u.who] # NoRow
  BY DepartingFacts, NoRowIsNoCharRow
<1>2. sess' = [sess EXCEPT ![s] = v]
  OBVIOUS
<1>. HIDE DEF u
<1>3. v \in SessionState /\ v.at = u.at /\ v.who = u.who /\ v.req = u.req
  BY <1>1 DEF SessionState
<1>. HIDE DEF v
<1>4. char[v.at][v.who] # NoRow /\ v.req.from = v.at /\ v.req.player = v.who
  BY <1>1, <1>3, Zenon
<1>. QED
  BY <1>2, <1>3, <1>4, SessionWritten, Zenon

LEMMA Departing ==
    ASSUME TravelInd, NEW s \in Session, NEW d \in Node, ExportPlayer(s, d)
    PROVE  SessionsKept
<1>. DEFINE n == sess[s].at
            p == sess[s].who
            c == [op |-> "submit", by |-> s, from |-> n, player |-> p, dest |-> d,
                  snap |-> char[n][p]]
            v == InTravelFn("exported", c)
<1>1. n \in Node /\ p \in Player /\ char[n][p] \in CharRow
  BY PlayingFacts DEF ExportPlayer
<1>5. char[n][p] \in Snapshot
  BY <1>1 DEF CharRow
<1>2. c \in SubmitCall /\ c.from = n /\ c.player = p
  BY <1>1, <1>5 DEF SubmitCall
<1>3. sess' = [sess EXCEPT ![s] = v]
  BY DEF ExportPlayer
<1>. HIDE DEF c
<1>4. v \in SessionState /\ v.at = n /\ v.who = p /\ v.req = c
  BY <1>1, <1>2 DEF SessionState, InTravelFn
<1>. HIDE DEF v
<1>. QED
  BY <1>1, <1>2, <1>3, <1>4, NoRowIsNoCharRow, SessionWritten

LEMMA NextKeepsSessions ==
    ASSUME TravelInd, Next
    PROVE  SessionsKept
<1>1. ASSUME sess' = sess PROVE SessionsKept
  BY <1>1 DEF SessionsKept, TravelInd, TravelInv, TravelTypeOK, SessionsHaveRows
<1>2. ASSUME NEW s \in Session, NEW n \in Node, NEW p \in Player, Login(s, n, p)
      PROVE  SessionsKept
  <2>1. char[n][p] # NoRow
    BY <1>2 DEF Login, NoRow
  <2>. QED
    BY <1>2, <2>1, PlayingAgain DEF Login
<1>3. ASSUME NEW s \in Session, Logout(s) PROVE SessionsKept
  BY <1>3, SessionWritten DEF Logout, SessionState
<1>4. ASSUME NEW s \in Session, MarkTraveling(s) \/ Submit(s) \/ SubmitRejected(s)
                                \/ SubmitRefused(s) \/ SubmitLost(s)
      PROVE  SessionsKept
  BY <1>4, DepartsFurther DEF MarkTraveling, Submit, SubmitRejected, SubmitRefused, SubmitLost
<1>5. ASSUME NEW s \in Session,
             SubmitAccepted(s) \/ MarkFails(s) \/ UndoTraveling(s) \/ UndoFails(s)
      PROVE  SessionsKept
  <2>1. sess[s].pc \in {"exported", "marked", "waiting", "failed"}
        /\ sess' = [sess EXCEPT ![s] = Playing(sess[s].at, sess[s].who)]
    BY <1>5 DEF SubmitAccepted, MarkFails, UndoTraveling, UndoFails
  <2>2. /\ sess[s].at \in Node /\ sess[s].who \in Player
        /\ char[sess[s].at][sess[s].who] # NoRow
    BY <2>1, DepartingFacts, NoRowIsNoCharRow
  <2>. QED
    BY <2>1, <2>2, PlayingAgain
<1>6. ASSUME NEW n \in Node, Crash(n) PROVE SessionsKept
  BY <1>6 DEF Crash, SessionsKept, SessionState, TravelInd, TravelInv, TravelTypeOK, SessionsHaveRows
<1>8. ASSUME NEW n \in Node,
             \/ Drain(n) \/ ArrivalLost(n) \/ ImportFails(n) \/ ImportHomeFails(n)
      PROVE  sess' = sess
  BY <1>8 DEF Drain, DrainFetches, DrainEnds, ImportPlayer, ImportClashes, ImportState, ImportHome,
     ReportArrival, ReportsFrom, ArrivalAnswered, ArrivalLost, ImportFails, ImportHomeFails
<1>9. CASE FinishAbandoned
  BY <1>1, <1>9 DEF FinishAbandoned, nodeVars
<1>. QED
  BY <1>1, <1>2, <1>3, <1>4, <1>5, <1>6, <1>8, <1>9, Departing DEF Next, TravelFn

-----------------------------------------------------------------------------
(* Drains. *)

TickState == [pc : {"idle", "drain", "row", "state", "imported", "waiting"},
              todo : SUBSET Id, id : 0..MaxTravels]

\* Past ImportPlayer a drain works on the arrival it worked on before, or on
\* one whose row this step has written.
DrainsKept ==
    /\ tick' \in [Node -> TickState]
    /\ \A n \in Node :
         /\ \A i \in tick'[n].todo : travel[i] # NoRow /\ travel[i].dest = n
         /\ tick'[n].pc \notin {"idle", "drain"} =>
              /\ tick'[n].id \in Id
              /\ \/ Imported(n, tick'[n].id)
                 \/ LET i == tick'[n].id
                    IN  travel[i] # NoRow /\ travel[i].dest = n /\ char'[n][travel[i].player] # NoRow

LEMMA DrainWritten ==
    ASSUME TravelInd, NEW n \in Node, NEW v \in TickState, tick' = [tick EXCEPT ![n] = v],
           \A i \in v.todo : travel[i] # NoRow /\ travel[i].dest = n,
           v.pc \notin {"idle", "drain"} =>
              /\ v.id \in Id
              /\ \/ Imported(n, v.id)
                 \/ LET i == v.id
                    IN  travel[i] # NoRow /\ travel[i].dest = n /\ char'[n][travel[i].player] # NoRow
    PROVE  DrainsKept
<1>1. tick \in [Node -> TickState]
  BY DEF TravelInd, TravelInv, TravelTypeOK, TickState
<1>2. tick' \in [Node -> TickState] /\ tick'[n] = v
      /\ \A m \in Node \ {n} : tick'[m] = tick[m]
  BY <1>1
<1>. QED
  BY <1>2 DEF DrainsKept, TravelInd, TravelInv, DrainsHaveRows

LEMMA DrainGoesOn ==
    ASSUME TravelInd, NEW n \in Node, NEW pc \in {"row", "state", "imported", "waiting"}, NEW i \in Id,
           tick' = [tick EXCEPT ![n].pc = pc, ![n].id = i],
           \/ Imported(n, i)
           \/ travel[i] # NoRow /\ travel[i].dest = n /\ char'[n][travel[i].player] # NoRow
    PROVE  DrainsKept
<1>. DEFINE u == tick[n]
            v == [u EXCEPT !.pc = pc, !.id = i]
<1>1. u \in TickState /\ \A j \in u.todo : travel[j] # NoRow /\ travel[j].dest = n
  BY DEF TravelInd, TravelInv, TravelTypeOK, TickState, DrainsHaveRows
<1>2. tick' = [tick EXCEPT ![n] = v]
  BY DEF TravelInd, TravelInv, TravelTypeOK
<1>. HIDE DEF u
<1>3. i \in 0..MaxTravels
  BY DEF Id
<1>4. v \in TickState
  BY <1>1, <1>3 DEF TickState
<1>5. v.id = i /\ v.todo = u.todo
  BY <1>1 DEF TickState
<1>. HIDE DEF v
<1>. QED
  BY <1>1, <1>2, <1>4, <1>5, DrainWritten, Zenon

LEMMA DrainStays ==
    ASSUME TravelInd, NEW n \in Node, NEW pc \in {"row", "state", "imported", "waiting"},
           tick[n].pc \notin {"idle", "drain"}, tick' = [tick EXCEPT ![n].pc = pc]
    PROVE  DrainsKept
<1>. DEFINE u == tick[n]
            v == [u EXCEPT !.pc = pc]
<1>1. /\ u \in TickState /\ u.id \in Id /\ Imported(n, u.id)
      /\ \A j \in u.todo : travel[j] # NoRow /\ travel[j].dest = n
  BY DEF TravelInd, TravelInv, TravelTypeOK, TickState, DrainsHaveRows
<1>2. tick' = [tick EXCEPT ![n] = v]
  BY DEF TravelInd, TravelInv, TravelTypeOK
<1>. HIDE DEF u
<1>3. v \in TickState /\ v.id = u.id /\ v.todo = u.todo
  BY <1>1 DEF TickState
<1>. HIDE DEF v
<1>4. v.id \in Id /\ Imported(n, v.id) /\ \A j \in v.todo : travel[j] # NoRow /\ travel[j].dest = n
  BY <1>1, <1>3, Zenon
<1>. QED
  BY <1>2, <1>3, <1>4, DrainWritten, Zenon

LEMMA DrainDrops ==
    ASSUME TravelInd, NEW n \in Node, NEW i, Dropped(n, i)
    PROVE  DrainsKept
<1>. DEFINE u == tick[n].todo
            v == [pc |-> "drain", todo |-> u \ {i}, id |-> 0]
<1>1. u \in SUBSET Id /\ \A j \in u : travel[j] # NoRow /\ travel[j].dest = n
  BY DEF TravelInd, TravelInv, TravelTypeOK, DrainsHaveRows
<1>2. tick' = [tick EXCEPT ![n] = v]
  BY DEF TravelInd, TravelInv, TravelTypeOK, Dropped
<1>. HIDE DEF u
<1>3. v \in TickState /\ v.pc = "drain" /\ v.todo \subseteq u
  BY <1>1 DEF TickState
<1>. HIDE DEF v
<1>. QED
  BY <1>1, <1>2, <1>3, DrainWritten

LEMMA DrainIdles ==
    ASSUME TravelInd, NEW n \in Node, tick' = [tick EXCEPT ![n] = Idle]
    PROVE  DrainsKept
<1>1. Idle \in TickState /\ Idle.todo = {} /\ Idle.pc = "idle"
  BY DEF Idle, TickState
<1>. QED
  BY <1>1, DrainWritten

LEMMA DrainStarts ==
    ASSUME TravelInd, NEW n \in Node, DrainFetches(n)
    PROVE  DrainsKept
<1>. DEFINE v == [pc |-> "drain", todo |-> PendingTravel(n), id |-> 0]
<1>1. v \in TickState /\ v.pc = "drain" /\ v.todo = PendingTravel(n)
  BY DEF TickState, PendingTravel
<1>2. \A i \in PendingTravel(n) : travel[i] # NoRow /\ travel[i].dest = n
  BY DEF PendingTravel, Pending, NoRow
<1>3. tick' = [tick EXCEPT ![n] = v]
  BY DEF DrainFetches
<1>. HIDE DEF v
<1>. QED
  BY <1>1, <1>2, <1>3, DrainWritten

LEMMA NextKeepsDrains ==
    ASSUME TravelInd, Next
    PROVE  DrainsKept
<1>1. ASSUME tick' = tick PROVE DrainsKept
  BY <1>1 DEF DrainsKept, TickState, TravelInd, TravelInv, TravelTypeOK, DrainsHaveRows
<1>2. ASSUME NEW n \in Node, DrainEnds(n) \/ Crash(n) PROVE DrainsKept
  BY <1>2, DrainIdles DEF DrainEnds, Crash
<1>3. ASSUME NEW n \in Node, NEW i \in Id, ImportPlayer(n, i) PROVE DrainsKept
  <2>1. tick' = [tick EXCEPT ![n].pc = "row", ![n].id = i]
    BY <1>3 DEF ImportPlayer
  <2>2. travel[i] # NoRow /\ travel[i].dest = n /\ char'[n][travel[i].player] # NoRow
    BY <1>3, ImportPlayerRows
  <2>. QED
    BY <2>1, <2>2, DrainGoesOn
<1>4. ASSUME NEW n \in Node, NEW i \in Id, ImportClashes(n, i) PROVE DrainsKept
  BY <1>4, DrainDrops DEF ImportClashes
<1>5. ASSUME NEW n \in Node, ImportState(n) \/ ImportHome(n) \/ ImportHomeFails(n) PROVE DrainsKept
  BY <1>5, DrainStays DEF ImportState, ImportHome, ImportHomeFails
<1>6. ASSUME NEW n \in Node, ReportArrival(n) PROVE DrainsKept
  BY <1>6, DrainGoesOn DEF ReportArrival, ReportsFrom, TravelInd, TravelInv, DrainsHaveRows
<1>7. ASSUME NEW n \in Node, ArrivalAnswered(n) \/ ArrivalLost(n) \/ ImportFails(n) PROVE DrainsKept
  BY <1>7, DrainDrops DEF ArrivalAnswered, ArrivalLost, ImportFails, NextArrival
<1>8. ASSUME NEW s \in Session,
             \/ \E n \in Node, p \in Player : Login(s, n, p)
             \/ Logout(s)
             \/ \E d \in Node : ExportPlayer(s, d)
             \/ TravelFn(s) \/ MarkFails(s) \/ SubmitLost(s) \/ UndoFails(s)
      PROVE  tick' = tick
  BY <1>8 DEF Login, Logout, ExportPlayer, TravelFn, MarkTraveling, Submit, SubmitRejected,
     SubmitAccepted, SubmitRefused, UndoTraveling, MarkFails, SubmitLost, UndoFails
<1>9. CASE FinishAbandoned
  BY <1>1, <1>9 DEF FinishAbandoned, nodeVars
<1>. QED
  BY <1>1, <1>2, <1>3, <1>4, <1>5, <1>6, <1>7, <1>8, <1>9, DrainStarts DEF Next, Drain

-----------------------------------------------------------------------------
(* The invariant. *)

\* What has been imported stays imported.
LEMMA ImportedStays ==
    ASSUME TravelInd, RowsKept, TableKept, NEW n \in Node, NEW i \in Id,
           \/ Imported(n, i)
           \/ travel[i] # NoRow /\ travel[i].dest = n /\ char'[n][travel[i].player] # NoRow
    PROVE  travel'[i] # NoRow /\ travel'[i].dest = n /\ char'[n][travel'[i].player] # NoRow
<1>1. travel[i] # NoRow /\ travel[i].dest = n
  BY DEF Imported
<1>2. travel[i].player \in Player
  BY <1>1 DEF TravelInd, HubInd, HubTypeOK, Row
<1>3. char'[n][travel[i].player] # NoRow
  BY <1>2 DEF RowsKept, Imported
<1>. QED
  BY <1>1, <1>3 DEF TableKept

LEMMA CurrentNodes ==
    ASSUME TravelInd, NEW p \in Player
    PROVE  CurrentNode(p) \in Node /\ char[CurrentNode(p)][p] # NoRow
<1>1. loc[p] \in Location \cup {NoRow}
  BY DEF TravelInd, HubInd, HubTypeOK
<1>2. CurrentNode(p) \in Node
  BY <1>1 DEF CurrentNode, Location
<1>. QED
  BY <1>2 DEF TravelInd, TravelInv, LocatedWhereImported

LEMMA LocatedStays ==
    ASSUME TravelInd, RowsKept, HubEffect, NEW p \in Player
    PROVE  char'[CurrentNode(p)'][p] # NoRow
<1>1. ASSUME NEW n \in Node, char[n][p] # NoRow PROVE char'[n][p] # NoRow
  BY <1>1 DEF RowsKept
<1>2. ASSUME loc'[p] = loc[p] PROVE char'[CurrentNode(p)'][p] # NoRow
  <2>1. CurrentNode(p)' = CurrentNode(p)
    BY <1>2 DEF CurrentNode
  <2>. QED
    BY <2>1, <1>1, CurrentNodes
<1>3. loc \in [Player -> Location \cup {NoRow}] /\ calls \subseteq Call
  BY DEF TravelInd, HubInd, HubTypeOK
<1>4. CASE \E c \in calls : SubmitTravel(c) /\ c.player = p
  <2>1. PICK c \in calls : SubmitTravel(c) /\ c.player = p
    BY <1>4
  <2>. DEFINE new == [status |-> "traveling", at |-> c.from, id |-> nextId]
  <2>2. new.at = c.from /\ new.status # NoRow.status
    BY DEF NoRow
  <2>3. loc'[p] = new
    BY <1>3, <2>1 DEF SubmitTravel, Departs
  <2>. HIDE DEF new
  <2>4. CurrentNode(p)' = CurrentNode(p)
    BY <2>1, <2>2, <2>3 DEF CurrentNode, SubmitTravel, Accepts
  <2>. QED
    BY <2>4, <1>1, CurrentNodes
<1>5. CASE \E c \in calls : ArriveTravel(c) /\ travel[c.id].player = p
  <2>1. PICK c \in calls : ArriveTravel(c) /\ travel[c.id].player = p
    BY <1>5
  <2>. DEFINE new == [status |-> "active", at |-> c.from, id |-> 0]
  <2>2. new.at = c.from /\ new.status # NoRow.status
    BY DEF NoRow
  <2>3. loc'[p] = new
    BY <1>3, <2>1 DEF ArriveTravel, Arrives
  <2>. HIDE DEF new
  <2>4. CurrentNode(p)' = c.from
    BY <2>2, <2>3 DEF CurrentNode
  <2>5. Imported(c.from, c.id) /\ c.from \in Node
    BY <1>3, <2>1 DEF ArriveTravel, TravelInd, TravelInv, ReportsHaveRows, Call, SubmitCall, ReportCall
  <2>6. char[c.from][p] # NoRow
    BY <2>1, <2>5 DEF Imported
  <2>. QED
    BY <2>4, <2>5, <2>6, <1>1
<1>6. ASSUME NEW c \in calls, SubmitTravel(c), c.player # p PROVE loc'[p] = loc[p]
  BY <1>3, <1>6 DEF SubmitTravel, Departs
<1>7. ASSUME NEW c \in calls, ArriveTravel(c), travel[c.id].player # p PROVE loc'[p] = loc[p]
  BY <1>3, <1>7 DEF ArriveTravel, Arrives
<1>. QED
  BY <1>2, <1>4, <1>5, <1>6, <1>7 DEF HubEffect

LEMMA ReportsStay ==
    ASSUME TravelInd, RowsKept, TableKept, NewCalls, NEW c \in calls', c.op # "submit", c \in Call
    PROVE  /\ c.op = "arrived" /\ c.id \in Id
           /\ travel'[c.id] # NoRow /\ travel'[c.id].dest = c.from
           /\ char'[c.from][travel'[c.id].player] # NoRow
<1>1. c.from \in Node /\ c.id \in Id
  BY DEF Call, SubmitCall, ReportCall
<1>2. CASE c \in calls
  BY <1>1, <1>2, ImportedStays DEF TravelInd, TravelInv, ReportsHaveRows
<1>3. CASE \E n \in Node : tick[n].pc = "imported" /\ c = Arrival(n, tick[n].id)
  <2>1. PICK n \in Node : tick[n].pc = "imported" /\ c = Arrival(n, tick[n].id)
    BY <1>3
  <2>2. c.op = "arrived" /\ c.from = n /\ c.id = tick[n].id
    BY <2>1 DEF Arrival
  <2>3. Imported(c.from, c.id)
    BY <2>1, <2>2 DEF TravelInd, TravelInv, DrainsHaveRows
  <2>. QED
    BY <1>1, <2>2, <2>3, ImportedStays
<1>. QED
  BY <1>2, <1>3 DEF NewCalls

LEMMA NextKeepsCounters ==
    ASSUME TravelInd, Next
    PROVE  imports' \in [Id -> 0..MaxFaults + 2] /\ astray' \subseteq Player
           /\ faults' \in 0..MaxFaults
<1>1. imports \in [Id -> 0..MaxFaults + 2] /\ astray \subseteq Player /\ faults \in 0..MaxFaults
  BY DEF TravelInd, TravelInv, TravelTypeOK
<1>2. ASSUME NEW n \in Node, tick[n].pc = "row", imports' \in {imports, Counted(tick[n].id)}
      PROVE  imports' \in [Id -> 0..MaxFaults + 2]
  <2>1. tick[n].id \in Id
    BY <1>2, DrainFacts
  <2>2. Counted(tick[n].id) \in [Id -> 0..MaxFaults + 2]
    BY <1>1, <2>1 DEF Counted
  <2>. QED
    BY <1>1, <1>2, <2>2
<1>3. ASSUME Fault PROVE faults' \in 0..MaxFaults
  BY <1>1, <1>3 DEF Fault
<1>4. ASSUME NEW s \in Session, MarkFails(s) \/ SubmitLost(s) \/ UndoFails(s)
      PROVE  Fault /\ UNCHANGED imports /\ astray' \subseteq Player
  <2>1. sess[s].who \in Player
    BY <1>4, DepartingFacts DEF MarkFails, SubmitLost, UndoFails
  <2>. QED
    BY <1>1, <1>4, <2>1 DEF MarkFails, SubmitLost, UndoFails
<1>5. ASSUME NEW n \in Node, ArrivalLost(n) \/ ImportHomeFails(n) \/ Crash(n)
      PROVE  Fault /\ UNCHANGED imports /\ astray' \subseteq Player
  BY <1>1, <1>5 DEF ArrivalLost, ImportHomeFails, Crash
<1>6. ASSUME NEW s \in Session,
             Logout(s) \/ (\E d \in Node : ExportPlayer(s, d)) \/ TravelFn(s)
      PROVE  UNCHANGED <<imports, astray, faults>>
  BY <1>6 DEF Logout, ExportPlayer, TravelFn, MarkTraveling, Submit, SubmitRejected,
     SubmitAccepted, SubmitRefused, UndoTraveling
<1>7. ASSUME NEW n \in Node, Drain(n), ~ImportState(n) PROVE UNCHANGED <<imports, astray, faults>>
  BY <1>7 DEF Drain, DrainFetches, DrainEnds, ImportPlayer, ImportClashes, ImportHome,
     ReportArrival, ReportsFrom, ArrivalAnswered
<1>8. ASSUME FinishAbandoned PROVE UNCHANGED <<imports, astray, faults>>
  BY <1>8 DEF FinishAbandoned, nodeVars
<1>9. ASSUME NEW s \in Session, NEW n \in Node, NEW p \in Player, Login(s, n, p)
      PROVE  UNCHANGED <<imports, faults>> /\ astray' \in {astray, astray \cup {p}}
  BY <1>9 DEF Login
<1>10. ASSUME NEW n \in Node, ImportState(n)
       PROVE  imports' \in [Id -> 0..MaxFaults + 2] /\ UNCHANGED <<astray, faults>>
  BY <1>2, <1>10 DEF ImportState
<1>11. ASSUME NEW n \in Node, ImportFails(n)
       PROVE  imports' \in [Id -> 0..MaxFaults + 2] /\ Fault /\ UNCHANGED astray
  BY <1>1, <1>2, <1>11 DEF ImportFails
<1>. QED
  BY <1>1, <1>3, <1>4, <1>5, <1>6, <1>7, <1>8, <1>9, <1>10, <1>11 DEF Next

LEMMA TravelIndNext == TravelInd /\ [Next]_travelVars => TravelInd'
<1>1. ASSUME TravelInd, UNCHANGED travelVars PROVE TravelInd'
  <2>1. HubInd'
    BY <1>1, HubIndNext DEF TravelInd, travelVars
  <2>2. UNCHANGED <<travel, loc, calls, reopened, char, sess, tick, imports, astray, faults>>
    BY <1>1 DEF travelVars, hubTravelVars, nodeVars
  <2>3. TravelTypeOK'
    BY <1>1, <2>1, <2>2 DEF TravelInd, TravelInv, TravelTypeOK, HubInd
  <2>4. LocatedWhereImported'
    BY <1>1, <2>2 DEF TravelInd, TravelInv, LocatedWhereImported, CurrentNode
  <2>5. SessionsHaveRows' /\ DrainsHaveRows' /\ ReportsHaveRows'
    BY <1>1, <2>2 DEF TravelInd, TravelInv, SessionsHaveRows, DrainsHaveRows, ReportsHaveRows, Imported
  <2>. QED
    BY <2>1, <2>3, <2>4, <2>5 DEF TravelInd, TravelInv
<1>2. ASSUME TravelInd, Next PROVE TravelInd'
  <2>1. HubInd'
    BY <1>2, NextImplementsHub, HubIndNext DEF TravelInd
  <2>2. RowsKept /\ HubEffect /\ TableKept /\ SessionsKept /\ DrainsKept
    BY <1>2, NextKeepsRows, NextHubEffect, EffectKeepsTable, NextKeepsSessions, NextKeepsDrains
  <2>3. TravelTypeOK'
    <3>1. /\ imports' \in [Id -> 0..MaxFaults + 2] /\ astray' \subseteq Player
          /\ faults' \in 0..MaxFaults
      BY <1>2, NextKeepsCounters
    <3>2. reopened' = {}
      BY <1>2, <2>2 DEF HubEffect, TravelInd, TravelInv, TravelTypeOK
    <3>. QED
      BY <2>1, <2>2, <3>1, <3>2
      DEF TravelTypeOK, HubInd, RowsKept, SessionsKept, DrainsKept, TickState
  <2>4. LocatedWhereImported'
    BY <1>2, <2>2, LocatedStays DEF LocatedWhereImported
  <2>5. SessionsHaveRows'
    <3>1. ASSUME NEW s \in Session, sess'[s] # Offline
          PROVE  sess'[s].at \in Node /\ sess'[s].who \in Player
      BY <2>2, <3>1 DEF SessionsKept, SessionState
    <3>. QED
      BY <2>2, <3>1 DEF SessionsKept, RowsKept, SessionsHaveRows
  <2>6. DrainsHaveRows'
    <3>1. ASSUME NEW n \in Node, NEW i \in tick'[n].todo PROVE travel'[i] # NoRow /\ travel'[i].dest = n
      <4>1. i \in Id
        BY <2>2 DEF DrainsKept, TickState
      <4>. QED
        BY <2>2, <4>1 DEF DrainsKept, TableKept
    <3>2. ASSUME NEW n \in Node, tick'[n].pc \notin {"idle", "drain"}
          PROVE  tick'[n].id \in Id /\ Imported(n, tick[n].id)'
      <4>1. /\ tick'[n].id \in Id
            /\ \/ Imported(n, tick'[n].id)
               \/ LET i == tick'[n].id
                  IN  travel[i] # NoRow /\ travel[i].dest = n /\ char'[n][travel[i].player] # NoRow
        BY <2>2, <3>2 DEF DrainsKept
      <4>. QED
        BY <1>2, <2>2, <4>1, ImportedStays DEF Imported
    <3>. QED
      BY <3>1, <3>2 DEF DrainsHaveRows
  <2>7. ReportsHaveRows'
    <3>1. calls' \subseteq Call
      BY <2>1 DEF HubInd, HubTypeOK
    <3>. QED
      BY <1>2, <2>2, <3>1, ReportsStay DEF ReportsHaveRows, Imported, HubEffect
  <2>. QED
    BY <2>1, <2>3, <2>4, <2>5, <2>6, <2>7 DEF TravelInd, TravelInv
<1>. QED
  BY <1>1, <1>2

LEMMA TravelInvariance == Spec => []TravelInd
  BY TravelIndInit, TravelIndNext, PTL DEF Spec

\* Sessions, drains and the hub's locations never refer to a row that does not
\* exist: wherever the hub locates a player, and wherever a session plays, the
\* import has written the row, whatever requests were abandoned or repeated.
THEOREM RowsExist == Spec => []TravelInv
<1>1. TravelInd => TravelInv
  BY DEF TravelInd
<1>. QED
  BY <1>1, TravelInvariance, PTL

\* The sessions and drains of the nodes use the hub's handlers and transactions
\* as HubTravel specifies them, and so its theorems hold of every journey.
THEOREM NodesUseTheHub == Spec => HubSpec
<1>1. Init => HubInit
  BY DEF Init
<1>2. TravelInd /\ [Next]_travelVars => [HubNext]_hubTravelVars
  <2>1. ASSUME TravelInd, UNCHANGED travelVars PROVE UNCHANGED hubTravelVars
    BY <2>1 DEF travelVars
  <2>. QED
    BY <2>1, NextImplementsHub
<1>. QED
  BY <1>1, <1>2, TravelInvariance, PTL DEF Spec, HubSpec

-----------------------------------------------------------------------------
(* Imports. *)

\* What a step may do to node n's drain.
LEMMA DrainSteps ==
    ASSUME TravelInd, Next, NEW n \in Node
    PROVE  \/ tick'[n] = tick[n]
           \/ Drain(n) \/ ArrivalLost(n) \/ ImportFails(n) \/ ImportHomeFails(n) \/ Crash(n)
<1>1. ASSUME NEW m \in Node, m # n,
             Drain(m) \/ ArrivalLost(m) \/ ImportFails(m) \/ ImportHomeFails(m) \/ Crash(m)
      PROVE  tick'[n] = tick[n]
  <2>1. tick \in [Node -> TickState]
    BY DEF TravelInd, TravelInv, TravelTypeOK, TickState
  <2>2. ASSUME NEW i, Dropped(m, i) PROVE tick'[n] = tick[n]
    BY <1>1, <2>1, <2>2 DEF Dropped
  <2>3. CASE DrainFetches(m) \/ DrainEnds(m) \/ Crash(m)
    BY <1>1, <2>1, <2>3 DEF DrainFetches, DrainEnds, Crash
  <2>4. CASE \E i \in Id : ImportPlayer(m, i)
    BY <1>1, <2>1, <2>4 DEF ImportPlayer
  <2>5. CASE \E i \in Id : ImportClashes(m, i)
    BY <2>2, <2>5 DEF ImportClashes
  <2>6. CASE ImportState(m) \/ ImportHome(m) \/ ImportHomeFails(m)
    BY <1>1, <2>1, <2>6 DEF ImportState, ImportHome, ImportHomeFails
  <2>7. CASE ReportArrival(m)
    BY <1>1, <2>1, <2>7 DEF ReportArrival, ReportsFrom
  <2>8. CASE ArrivalAnswered(m) \/ ArrivalLost(m) \/ ImportFails(m)
    BY <2>2, <2>8 DEF ArrivalAnswered, ArrivalLost, ImportFails, NextArrival
  <2>. QED
    BY <1>1, <2>3, <2>4, <2>5, <2>6, <2>7, <2>8 DEF Drain
<1>2. ASSUME NEW s \in Session,
             \/ \E m \in Node, p \in Player : Login(s, m, p)
             \/ Logout(s)
             \/ \E d \in Node : ExportPlayer(s, d)
             \/ TravelFn(s) \/ MarkFails(s) \/ SubmitLost(s) \/ UndoFails(s)
      PROVE  tick' = tick
  BY <1>2 DEF Login, Logout, ExportPlayer, TravelFn, MarkTraveling, Submit, SubmitRejected,
     SubmitAccepted, SubmitRefused, UndoTraveling, MarkFails, SubmitLost, UndoFails
<1>3. ASSUME FinishAbandoned PROVE tick' = tick
  BY <1>3 DEF FinishAbandoned, nodeVars
<1>. QED
  BY <1>1, <1>2, <1>3 DEF Next

\* A drain past ImportPlayer still has its arrival on its list.
WorksOnTodo(n) == tick[n].pc # "idle" /\ tick[n].pc # "drain" => tick[n].id \in tick[n].todo

LEMMA TodoStays ==
    ASSUME TravelInd, Next, NEW n \in Node, WorksOnTodo(n)
    PROVE  WorksOnTodo(n)'
<1>. USE DEF WorksOnTodo
<1>1. tick \in [Node -> TickState]
  BY DEF TravelInd, TravelInv, TravelTypeOK, TickState
<1>2. ASSUME NEW i, Dropped(n, i) PROVE tick'[n].pc = "drain"
  BY <1>1, <1>2 DEF Dropped
<1>3. CASE DrainFetches(n) \/ DrainEnds(n) \/ Crash(n)
  BY <1>1, <1>3 DEF DrainFetches, DrainEnds, Crash, Idle
<1>4. ASSUME NEW i \in Id, ImportPlayer(n, i) PROVE WorksOnTodo(n)'
  <2>1. tick' = [tick EXCEPT ![n].pc = "row", ![n].id = i] /\ i \in tick[n].todo
    BY <1>4 DEF ImportPlayer
  <2>2. tick'[n].id = i /\ tick'[n].todo = tick[n].todo
    BY <1>1, <2>1 DEF TickState
  <2>. QED
    BY <2>1, <2>2
<1>5. CASE \E i \in Id : ImportClashes(n, i)
  BY <1>2, <1>5 DEF ImportClashes
<1>6. CASE ImportState(n) \/ ImportHome(n) \/ ImportHomeFails(n)
  <2>1. PICK pc \in {"state", "imported"} : tick' = [tick EXCEPT ![n].pc = pc]
    BY <1>6 DEF ImportState, ImportHome, ImportHomeFails
  <2>2. tick[n].pc \in {"row", "state"}
    BY <1>6 DEF ImportState, ImportHome, ImportHomeFails
  <2>3. tick'[n].id = tick[n].id /\ tick'[n].todo = tick[n].todo
    BY <1>1, <2>1 DEF TickState
  <2>. QED
    BY <2>2, <2>3
<1>7. CASE ReportArrival(n)
  <2>1. tick' = [tick EXCEPT ![n].pc = "waiting", ![n].id = tick[n].id] /\ tick[n].pc = "imported"
    BY <1>7 DEF ReportArrival, ReportsFrom
  <2>2. tick'[n].id = tick[n].id /\ tick'[n].todo = tick[n].todo
    BY <1>1, <2>1 DEF TickState
  <2>. QED
    BY <2>1, <2>2
<1>8. CASE ArrivalAnswered(n) \/ ArrivalLost(n) \/ ImportFails(n)
  BY <1>2, <1>8 DEF ArrivalAnswered, ArrivalLost, ImportFails, NextArrival
<1>. QED
  BY <1>3, <1>4, <1>5, <1>6, <1>7, <1>8, DrainSteps DEF Drain

\* A request is pending only since its departure, and stays for its destination.
LEMMA PendingKept ==
    ASSUME TravelInd, HubEffect, NEW i \in Id, Pending(i)'
    PROVE  travel[i] = NoRow \/ (Pending(i) /\ travel'[i].dest = travel[i].dest)
<1>1. travel \in [Id -> Row \cup {NoRow}] /\ nextId \in 1..MaxTravels + 1
      /\ \A j \in Id : travel[j] # NoRow => j < nextId
  BY DEF TravelInd, HubInd, HubTypeOK, IdsAreFresh
<1>2. CASE UNCHANGED <<travel, loc>>
  BY <1>2 DEF Pending
<1>3. CASE \E c \in calls : SubmitTravel(c)
  <2>1. PICK c \in calls : SubmitTravel(c)
    BY <1>3
  <2>2. i = nextId \/ travel'[i] = travel[i]
    BY <1>1, <2>1 DEF SubmitTravel, Departs
  <2>3. i = nextId => travel[i] = NoRow
    BY <1>1
  <2>. QED
    BY <2>2, <2>3 DEF Pending
<1>4. CASE \E c \in calls : ArriveTravel(c)
  <2>1. PICK c \in calls : ArriveTravel(c)
    BY <1>4
  <2>2. c.id \in Id
    BY <2>1 DEF ArriveTravel, TravelInd, HubInd, HubTypeOK, Call, SubmitCall, ReportCall
  <2>3. travel[c.id] \in Row
    BY <2>1, <2>2, PendingIsRow DEF ArriveTravel, TravelInd, HubInd
  <2>4. travel' = [travel EXCEPT ![c.id] = [travel[c.id] EXCEPT !.status = "arrived"]]
    BY <2>1 DEF ArriveTravel, Arrives
  <2>5. travel'[c.id].status = "arrived"
    BY <1>1, <2>2, <2>3, <2>4 DEF Row
  <2>6. travel'[i] = travel[i]
    BY <1>1, <2>2, <2>4, <2>5 DEF Pending
  <2>. QED
    BY <2>6 DEF Pending
<1>. QED
  BY <1>2, <1>3, <1>4 DEF HubEffect

\* Only one drain works on a journey's arrival.
LEMMA DueAtDest ==
    ASSUME TravelInd, NEW n \in Node, NEW i \in Id, Due(n, i)
    PROVE  travel[i] # NoRow /\ travel[i].dest = n
BY DEF Due, Pending, NoRow, TravelInd, TravelInv, DrainsHaveRows

\* Without a failure no import becomes due again, and ImportState ends its own.
LEMMA DueShrinks ==
    ASSUME TravelInd, Next, NEW n \in Node, NEW i \in Id, Due(n, i)',
           WorksOnTodo(n), faults' = faults
    PROVE  /\ travel[i] = NoRow \/ Due(n, i)
           /\ ImportState(n) => i # tick[n].id
<1>. SUFFICES ASSUME travel[i] # NoRow
     PROVE  Due(n, i) /\ (ImportState(n) => i # tick[n].id)
  <2>1. ASSUME travel[i] = NoRow, ImportState(n) PROVE i # tick[n].id
    BY <2>1, DrainFacts DEF ImportState, Row, NoRow
  <2>. QED
    BY <2>1
<1>1. tick \in [Node -> TickState] /\ faults \in Nat
  BY DEF TravelInd, TravelInv, TravelTypeOK, TickState
<1>2. ~Fault
  BY <1>1 DEF Fault
<1>3. Pending(i)' /\ travel'[i].dest = n => Pending(i) /\ travel[i].dest = n
  BY NextHubEffect, PendingKept
<1>4. i \in tick'[n].todo \/ (Pending(i) /\ travel[i].dest = n)
  BY <1>3 DEF Due
<1>5. tick'[n].pc \in {"state", "imported", "waiting"} => tick'[n].id # i
  BY DEF Due
<1>6. ASSUME tick'[n].todo = tick[n].todo,
             tick[n].pc \in {"state", "imported", "waiting"} => tick[n].id # i
      PROVE  Due(n, i)
  BY <1>4, <1>6 DEF Due
<1>7. CASE tick'[n] = tick[n]
  <2>1. Due(n, i)
    BY <1>5, <1>6, <1>7
  <2>2. ~ImportState(n)
    BY <1>1, <1>7 DEF ImportState, TickState
  <2>. QED
    BY <2>1, <2>2
<1>8. CASE DrainFetches(n)
  <2>1. tick[n].pc = "idle" /\ tick'[n].todo = PendingTravel(n)
    BY <1>1, <1>8 DEF DrainFetches, Idle
  <2>2. Pending(i) /\ travel[i].dest = n
    BY <1>4, <2>1 DEF PendingTravel
  <2>. QED
    BY <2>1, <2>2 DEF Due, ImportState
<1>9. CASE DrainEnds(n)
  <2>1. tick[n].pc = "drain" /\ tick[n].todo = {} /\ tick'[n].todo = {}
    BY <1>1, <1>9 DEF DrainEnds, Idle
  <2>. QED
    BY <1>6, <2>1 DEF ImportState
<1>10. CASE \E j \in Id : ImportPlayer(n, j)
  <2>1. PICK j \in Id : ImportPlayer(n, j)
    BY <1>10
  <2>2. tick' = [tick EXCEPT ![n].pc = "row", ![n].id = j] /\ tick[n].pc = "drain"
    BY <2>1 DEF ImportPlayer
  <2>3. tick'[n].todo = tick[n].todo
    BY <1>1, <2>2 DEF TickState
  <2>. QED
    BY <1>6, <2>2, <2>3 DEF ImportState
<1>11. CASE \E j \in Id : ImportClashes(n, j)
  <2>1. PICK j \in Id : ImportClashes(n, j)
    BY <1>11
  <2>2. tick[n].pc = "drain" /\ tick'[n].todo \subseteq tick[n].todo
    BY <1>1, <2>1 DEF ImportClashes, Dropped
  <2>. QED
    BY <1>4, <2>2 DEF Due, ImportState
<1>12. CASE ImportState(n)
  <2>1. tick' = [tick EXCEPT ![n].pc = "state"] /\ tick[n].pc = "row"
    BY <1>12 DEF ImportState
  <2>2. tick'[n].todo = tick[n].todo /\ tick'[n].id = tick[n].id /\ tick'[n].pc = "state"
    BY <1>1, <2>1 DEF TickState
  <2>. QED
    BY <1>5, <1>6, <2>1, <2>2
<1>13. CASE ImportHome(n)
  <2>1. tick' = [tick EXCEPT ![n].pc = "imported"] /\ tick[n].pc = "state"
    BY <1>13 DEF ImportHome
  <2>2. tick'[n].todo = tick[n].todo /\ tick'[n].id = tick[n].id /\ tick'[n].pc = "imported"
    BY <1>1, <2>1 DEF TickState
  <2>. QED
    BY <1>5, <1>6, <2>1, <2>2 DEF ImportState
<1>14. CASE ReportArrival(n)
  <2>1. tick' = [tick EXCEPT ![n].pc = "waiting", ![n].id = tick[n].id] /\ tick[n].pc = "imported"
    BY <1>14 DEF ReportArrival, ReportsFrom
  <2>2. tick'[n].todo = tick[n].todo /\ tick'[n].id = tick[n].id /\ tick'[n].pc = "waiting"
    BY <1>1, <2>1 DEF TickState
  <2>. QED
    BY <1>5, <1>6, <2>1, <2>2 DEF ImportState
<1>15. CASE ArrivalAnswered(n)
  <2>0. PICK k : k = tick[n].id
    OBVIOUS
  <2>1. tick[n].pc = "waiting" /\ tick'[n].todo = tick[n].todo \ {k}
    BY <1>1, <1>15, <2>0 DEF ArrivalAnswered, NextArrival, Dropped
  <2>2. k \in Id /\ travel[k] \in Row /\ travel[k].dest = n
    BY <2>0, <2>1, DrainFacts
  <2>3. ~Pending(k)'
    <3>1. Arrival(n, k).op = "arrived" /\ Arrival(n, k).id = k /\ Arrival(n, k).from = n
      BY DEF Arrival
    <3>2. CASE ArriveTravel(Arrival(n, k))
      <4>1. travel' = [travel EXCEPT ![k] = [travel[k] EXCEPT !.status = "arrived"]]
        BY <3>1, <3>2 DEF ArriveTravel, Arrives
      <4>2. travel \in [Id -> Row \cup {NoRow}]
        BY DEF TravelInd, HubInd, HubTypeOK
      <4>3. travel'[k].status = "arrived"
        BY <2>2, <4>1, <4>2 DEF Row
      <4>. QED
        BY <4>3 DEF Pending
    <3>3. CASE Refuses(Arrival(n, k))
      <4>1. ~Pending(k) /\ travel' = travel
        BY <2>2, <3>1, <3>3 DEF Refuses
      <4>. QED
        BY <4>1 DEF Pending
    <3>. QED
      BY <1>15, <2>0, <3>2, <3>3 DEF ArrivalAnswered
  <2>4. i # k
    BY <2>1, <2>3 DEF Due
  <2>. QED
    BY <1>4, <2>0, <2>1, <2>4 DEF Due, ImportState
<1>16. CASE ArrivalLost(n) \/ ImportFails(n) \/ ImportHomeFails(n) \/ Crash(n)
  BY <1>2, <1>16 DEF ArrivalLost, ImportFails, ImportHomeFails, Crash
<1>. QED
  BY <1>7, <1>8, <1>9, <1>10, <1>11, <1>12, <1>13, <1>14, <1>15, <1>16, DrainSteps DEF Drain

\* What a step does to the history and to the count of failures.
LEMMA ImportSteps ==
    ASSUME TravelInd, Next
    PROVE  /\ faults' \in {faults, faults + 1}
           /\ \/ imports' = imports
              \/ \E n \in Node : ImportState(n) /\ faults' = faults
              \/ \E n \in Node : tick[n].pc = "row" /\ imports' = Counted(tick[n].id) /\ faults' = faults + 1
<1>1. ASSUME NEW s \in Session,
             \/ \E n \in Node, p \in Player : Login(s, n, p)
             \/ Logout(s)
             \/ \E d \in Node : ExportPlayer(s, d)
             \/ TravelFn(s)
      PROVE  UNCHANGED <<imports, faults>>
  BY <1>1 DEF Login, Logout, ExportPlayer, TravelFn, MarkTraveling, Submit, SubmitRejected,
     SubmitAccepted, SubmitRefused, UndoTraveling
<1>2. ASSUME NEW s \in Session, MarkFails(s) \/ SubmitLost(s) \/ UndoFails(s)
      PROVE  imports' = imports /\ faults' = faults + 1
  BY <1>2 DEF MarkFails, SubmitLost, UndoFails, Fault
<1>3. ASSUME NEW n \in Node, Drain(n), ~ImportState(n) PROVE UNCHANGED <<imports, faults>>
  BY <1>3 DEF Drain, DrainFetches, DrainEnds, ImportPlayer, ImportClashes, ImportHome,
     ReportArrival, ReportsFrom, ArrivalAnswered
<1>4. ASSUME NEW n \in Node, ImportState(n) PROVE faults' = faults
  BY <1>4 DEF ImportState
<1>5. ASSUME NEW n \in Node, ArrivalLost(n) \/ ImportHomeFails(n) \/ Crash(n)
      PROVE  imports' = imports /\ faults' = faults + 1
  BY <1>5 DEF ArrivalLost, ImportHomeFails, Crash, Fault
<1>6. ASSUME NEW n \in Node, ImportFails(n)
      PROVE  /\ faults' = faults + 1
             /\ imports' = imports \/ (tick[n].pc = "row" /\ imports' = Counted(tick[n].id))
  BY <1>6 DEF ImportFails, Fault
<1>7. ASSUME FinishAbandoned PROVE UNCHANGED <<imports, faults>>
  BY <1>7 DEF FinishAbandoned, nodeVars
<1>. QED
  BY <1>1, <1>2, <1>3, <1>4, <1>5, <1>6, <1>7 DEF Next

\* An import that is written was due, and its count goes up by one.
LEMMA ImportCounts ==
    ASSUME TravelInd, ImportBudget, NEW n \in Node, tick[n].pc = "row",
           imports' = Counted(tick[n].id)
    PROVE  /\ tick[n].id \in Id /\ imports[tick[n].id] <= faults
           /\ imports'[tick[n].id] = imports[tick[n].id] + 1
           /\ \A i \in Id \ {tick[n].id} : imports'[i] = imports[i]
<1>1. tick[n].id \in Id
  BY DrainFacts
<1>2. imports \in [Id -> 0..MaxFaults + 2] /\ faults \in 0..MaxFaults
  BY DEF TravelInd, TravelInv, TravelTypeOK
<1>3. Due(n, tick[n].id)
  BY DEF ImportBudget, Due
<1>4. imports[tick[n].id] <= faults
  BY <1>1, <1>3 DEF ImportBudget
<1>5. imports[tick[n].id] < MaxFaults + 2
  BY <1>1, <1>2, <1>4
<1>. QED
  BY <1>1, <1>2, <1>4, <1>5 DEF Counted

LEMMA ImportBudgetNext ==
    ASSUME TravelInd, TravelInd', ImportBudget, [Next]_travelVars
    PROVE  ImportBudget'
<1>1. CASE UNCHANGED travelVars
  <2>1. UNCHANGED <<travel, tick, imports, faults>>
    BY <1>1 DEF travelVars, hubTravelVars, nodeVars
  <2>. QED
    BY <2>1 DEF ImportBudget, ImportsNeedFaults, Due, Pending
<1>2. CASE Next
  <2>1. faults \in Nat /\ faults' \in {faults, faults + 1}
        /\ \A i \in Id : imports[i] \in Nat /\ imports'[i] \in Nat
    BY <1>2, ImportSteps DEF TravelInd, TravelInv, TravelTypeOK
  <2>2. \A i \in Id : imports[i] <= 1 + faults
    BY DEF ImportBudget, ImportsNeedFaults
  <2>3. \A n \in Node : WorksOnTodo(n)
    BY DEF ImportBudget, WorksOnTodo
  <2>4. \A i \in Id : travel'[i] = NoRow => travel[i] = NoRow
    BY <1>2, NextHubEffect, EffectKeepsTable DEF TableKept
  <2>5. \A i \in Id : travel[i] = NoRow => imports[i] = 0
    BY DEF ImportBudget
  <2>6. ASSUME NEW n \in Node, NEW i \in Id, Due(n, i)', faults' = faults
        PROVE  imports[i] <= faults /\ (ImportState(n) => i # tick[n].id)
    <3>1. travel[i] = NoRow \/ Due(n, i)
      BY <1>2, <2>3, <2>6, DueShrinks
    <3>2. ImportState(n) => i # tick[n].id
      BY <1>2, <2>3, <2>6, DueShrinks
    <3>3. Due(n, i) => imports[i] <= faults
      BY DEF ImportBudget
    <3>. QED
      BY <2>1, <2>5, <3>1, <3>2, <3>3
  <2>7. /\ \A i \in Id : imports'[i] <= 1 + faults'
        /\ \A i \in Id : travel'[i] = NoRow => imports'[i] = 0
        /\ \A n \in Node, i \in Id : Due(n, i)' => imports'[i] <= faults'
    <3>1. CASE imports' = imports
      <4>1. ASSUME NEW n \in Node, NEW i \in Id, Due(n, i)' PROVE imports'[i] <= faults'
        <5>1. CASE faults' = faults
          BY <2>6, <3>1, <4>1, <5>1
        <5>2. CASE faults' = faults + 1
          BY <2>1, <2>2, <3>1, <5>2
        <5>. QED
          BY <2>1, <5>1, <5>2
      <4>. QED
        BY <2>1, <2>2, <2>4, <2>5, <3>1, <4>1
    <3>2. ASSUME NEW n \in Node, tick[n].pc = "row", imports' = Counted(tick[n].id),
                 ImportState(n) \/ faults' = faults + 1
          PROVE  /\ \A i \in Id : imports'[i] <= 1 + faults'
                 /\ \A i \in Id : travel'[i] = NoRow => imports'[i] = 0
                 /\ \A m \in Node, i \in Id : Due(m, i)' => imports'[i] <= faults'
      <4>. DEFINE k == tick[n].id
      <4>1. k \in Id /\ imports[k] <= faults /\ imports'[k] = imports[k] + 1
            /\ \A i \in Id \ {k} : imports'[i] = imports[i]
        BY <3>2, ImportCounts
      <4>2. travel[k] # NoRow /\ travel[k].dest = n
        BY <3>2, DrainFacts DEF Row, NoRow
      <4>3. ASSUME NEW i \in Id PROVE imports'[i] <= 1 + faults'
        BY <2>1, <2>2, <4>1
      <4>4. ASSUME NEW i \in Id, travel'[i] = NoRow PROVE imports'[i] = 0
        BY <2>4, <2>5, <4>1, <4>2, <4>4
      <4>5. ASSUME NEW m \in Node, NEW i \in Id, Due(m, i)' PROVE imports'[i] <= faults'
        <5>1. CASE faults' = faults + 1
          BY <2>1, <2>2, <4>1, <5>1
        <5>2. CASE ImportState(n) /\ faults' = faults
          <6>1. imports[i] <= faults
            BY <2>6, <4>5, <5>2
          <6>2. i # k
            <7>1. CASE m = n
              BY <2>6, <4>5, <5>2, <7>1
            <7>2. CASE m # n
              <8>1. travel[i] # NoRow => Due(m, i)
                BY <1>2, <2>3, <4>5, <5>2, DueShrinks
              <8>2. Due(m, i) => travel[i].dest = m
                BY DueAtDest
              <8>. QED
                BY <4>2, <7>2, <8>1, <8>2
            <7>. QED
              BY <7>1, <7>2
          <6>. QED
            BY <4>1, <5>2, <6>1, <6>2
        <5>. QED
          BY <2>1, <3>2, <5>1, <5>2
      <4>. QED
        BY <4>3, <4>4, <4>5
    <3>. QED
      BY <1>2, <3>1, <3>2, ImportSteps DEF ImportState
  <2>8. \A n \in Node : WorksOnTodo(n)'
    BY <1>2, <2>3, TodoStays
  <2>. QED
    BY <2>7, <2>8 DEF ImportBudget, ImportsNeedFaults, WorksOnTodo
<1>. QED
  BY <1>1, <1>2

\* A journey is imported once, and once more for each failure: what makes a node
\* import it again, over a character that has been played since, is a statement
\* that failed, an answer that was lost or a node that stopped.
THEOREM ImportsArePaid == Spec => []ImportsNeedFaults
<1>1. Init => ImportBudget
  <2>. SUFFICES ASSUME Init PROVE ImportBudget
    OBVIOUS
  <2>1. \A i \in Id : imports[i] = 0
    BY DEF Init
  <2>2. \A n \in Node : tick[n].pc = "idle"
    BY DEF Init, Idle
  <2>3. faults = 0
    BY DEF Init
  <2>. QED
    BY <2>1, <2>2, <2>3 DEF ImportBudget, ImportsNeedFaults
<1>2. TravelInd /\ TravelInd' /\ ImportBudget /\ [Next]_travelVars => ImportBudget'
  BY ImportBudgetNext
<1>3. ImportBudget => ImportsNeedFaults
  BY DEF ImportBudget
<1>. QED
  BY <1>1, <1>2, <1>3, TravelInvariance, PTL DEF Spec

-----------------------------------------------------------------------------
(* Logins: what a step does to one player. *)

\* A step changes no journey of p and not where the hub locates p.
SameJourneys(p) ==
    /\ loc'[p] = loc[p]
    /\ \A i \in Id :
         \/ travel'[i] = travel[i]
         \/ travel'[i].player # p /\ (travel[i] = NoRow \/ travel[i].player # p)

LEMMA GoneStays ==
    ASSUME NEW p \in Player, NEW n, SameJourneys(p)
    PROVE  Gone(p, n) => Gone(p, n)'
<1>1. CurrentNode(p)' = CurrentNode(p)
  BY DEF SameJourneys, CurrentNode
<1>2. ASSUME NEW i \in Id, Pending(i), travel[i].player = p PROVE travel'[i] = travel[i]
  BY <1>2 DEF SameJourneys, Pending, NoRow
<1>3. ASSUME NEW i \in Id, Pending(i)', travel'[i].player = p PROVE travel'[i] = travel[i]
  BY <1>3 DEF SameJourneys
<1>. QED
  BY <1>1, <1>2, <1>3 DEF Gone, Pending

\* What a step that leaves p's journeys alone has to respect.
LEMMA LoginStays ==
    ASSUME TravelInd, NEW p \in Player, LoginOf(p), SameJourneys(p), PlaysOnce(p)',
           DeparturesAwaited(p)',
           \A t \in Session : LoggedIn(t, p)' =>
             /\ sess'[t].pc \in {"play", "exported"} /\ char'[sess'[t].at][p].status = "traveling"
                  => Gone(p, sess'[t].at)
             /\ sess'[t].pc \in {"exported", "marked", "waiting"} /\ sess'[t].req.snap.status = "traveling"
                  => Gone(p, sess'[t].at),
           \A n \in Node : Usable(n, p) => Usable(n, p)',
           \A n \in Node : \A i \in Id :
             Importing(n, i)' /\ Pending(i) /\ travel[i].player = p => Importing(n, i) \/ Usable(n, p)'
    PROVE  LoginOf(p)'
<1>1. CurrentNode(p)' = CurrentNode(p) /\ CurrentNode(p) \in Node
  BY CurrentNodes DEF SameJourneys, CurrentNode
<1>2. ASSUME NEW i \in Id, Pending(i), travel[i].player = p PROVE travel'[i] = travel[i]
  BY <1>2 DEF SameJourneys, Pending, NoRow
<1>3. ASSUME NEW i \in Id, travel'[i].player = p PROVE travel'[i] = travel[i]
  BY <1>3 DEF SameJourneys
<1>4. CarriesActive(p)'
  BY <1>3 DEF CarriesActive, LoginOf
<1>5. LockedIsGone(p)'
  BY GoneStays DEF LockedIsGone
<1>6. UsableWhereLocated(p)'
  <2>1. ASSUME \A i \in Id : Pending(i)' => travel'[i].player # p
        PROVE  \A i \in Id : Pending(i) => travel[i].player # p
    BY <2>1, <1>2 DEF Pending
  <2>. QED
    BY <2>1, <1>1 DEF UsableWhereLocated, LoginOf
<1>7. UsableWhereImported(p)'
  <2>1. ASSUME NEW n \in Node, NEW i \in Id, Pending(i)', travel'[i].player = p, Importing(n, i)'
        PROVE  Usable(n, p)'
    <3>1. Pending(i) /\ travel[i].player = p
      BY <2>1, <1>3 DEF Pending
    <3>2. Importing(n, i) \/ Usable(n, p)'
      BY <2>1, <3>1
    <3>3. Importing(n, i) => Usable(n, p)
      BY <3>1 DEF UsableWhereImported, LoginOf
    <3>. QED
      BY <3>2, <3>3
  <2>. QED
    BY <2>1 DEF UsableWhereImported
<1>. QED
  BY <1>4, <1>5, <1>6, <1>7 DEF LoginOf

\* A step of one session.
LEMMA SessionSteps ==
    ASSUME TravelInd, NEW p \in Player, LoginOf(p), SameJourneys(p), tick' = tick,
           NEW s \in Session, NEW v, sess' = [sess EXCEPT ![s] = v],
           v # Offline /\ v.who = p => LoggedIn(s, p) \/ \A t \in Session : ~LoggedIn(t, p),
           v # Offline /\ v.who = p =>
             /\ v.pc \in {"play", "exported"} /\ char'[v.at][p].status = "traveling" => Gone(p, v.at)
             /\ v.pc \in {"exported", "marked", "waiting"} /\ v.req.snap.status = "traveling"
                  => Gone(p, v.at),
           LoggedIn(s, p) \/ \A m \in Node : char'[m][p].status = char[m][p].status,
           \A n \in Node : Usable(n, p) => Usable(n, p)',
           DeparturesAwaited(p)', \A c \in calls' : c.op = "arrived" => c \in calls
    PROVE  LoginOf(p)'
<1>1. sess'[s] = v /\ \A t \in Session \ {s} : sess'[t] = sess[t]
  BY DEF TravelInd, TravelInv, TravelTypeOK
<1>2. ASSUME NEW t \in Session, LoggedIn(t, p), t # s
      PROVE  ~LoggedIn(s, p) /\ (v # Offline => v.who # p)
  BY <1>2 DEF LoginOf, PlaysOnce
<1>3. PlaysOnce(p)'
  BY <1>1, <1>2 DEF PlaysOnce, LoginOf, LoggedIn
<1>4. ASSUME NEW t \in Session, LoggedIn(t, p)'
      PROVE  /\ sess'[t].pc \in {"play", "exported"} /\ char'[sess'[t].at][p].status = "traveling"
                  => Gone(p, sess'[t].at)
             /\ sess'[t].pc \in {"exported", "marked", "waiting"} /\ sess'[t].req.snap.status = "traveling"
                  => Gone(p, sess'[t].at)
  <2>1. CASE t = s
    BY <1>1, <1>4, <2>1 DEF LoggedIn
  <2>2. CASE t # s
    <3>1. sess'[t] = sess[t] /\ LoggedIn(t, p)
      BY <1>1, <1>4, <2>2 DEF LoggedIn
    <3>2. \A m \in Node : char'[m][p].status = char[m][p].status
      BY <1>2, <2>2, <3>1
    <3>3. sess[t].at \in Node
      BY <3>1 DEF LoggedIn, TravelInd, TravelInv, TravelTypeOK, SessionState
    <3>. QED
      BY <3>1, <3>2, <3>3 DEF LoginOf, LockedIsGone
  <2>. QED
    BY <2>1, <2>2
<1>5. \A n \in Node : \A i \in Id : Importing(n, i)' => Importing(n, i)
  BY DEF Importing
<1>. QED
  BY <1>3, <1>4, <1>5, LoginStays

\* A step of a session with another player.
LEMMA OtherSessionSteps ==
    ASSUME TravelInd, NEW p \in Player, LoginOf(p), SameJourneys(p), tick' = tick,
           NEW s \in Session, NEW v, sess' = [sess EXCEPT ![s] = v],
           ~LoggedIn(s, p), v # Offline => v.who # p,
           \A m \in Node : char'[m][p].status = char[m][p].status,
           DeparturesAwaited(p)', \A c \in calls' : c.op = "arrived" => c \in calls
    PROVE  LoginOf(p)'
<1>1. sess'[s] = v /\ \A t \in Session \ {s} : sess'[t] = sess[t]
  BY DEF TravelInd, TravelInv, TravelTypeOK
<1>2. \A n \in Node : Usable(n, p) => Usable(n, p)'
  BY <1>1 DEF Usable, InDeparture, LoggedIn
<1>. QED
  BY <1>2, SessionSteps

\* A step of one drain, which makes rows active or leaves their status.
LEMMA DrainStepsLogin ==
    ASSUME TravelInd, NEW p \in Player, LoginOf(p), SameJourneys(p), sess' = sess,
           NEW n \in Node, NEW v, tick' = [tick EXCEPT ![n] = v],
           \A m \in Node : char'[m][p].status \in {char[m][p].status, "active"},
           \A i \in Id : v.pc \notin {"idle", "drain"} /\ v.id = i /\ Pending(i) /\ travel[i].player = p
             => Importing(n, i) \/ char'[n][p].status = "active",
           \A c \in calls' : c \in calls \/ (c.op = "arrived" /\ Importing(c.from, c.id))
    PROVE  LoginOf(p)'
<1>1. tick'[n] = v /\ \A m \in Node \ {n} : tick'[m] = tick[m]
  BY DEF TravelInd, TravelInv, TravelTypeOK
<1>2. \A m \in Node : Usable(m, p) => Usable(m, p)'
  BY DEF Usable, InDeparture, LoggedIn
<1>3. PlaysOnce(p)'
  BY DEF PlaysOnce, LoginOf, LoggedIn
<1>4. ASSUME NEW t \in Session, LoggedIn(t, p)'
      PROVE  /\ sess'[t].pc \in {"play", "exported"} /\ char'[sess'[t].at][p].status = "traveling"
                  => Gone(p, sess'[t].at)
             /\ sess'[t].pc \in {"exported", "marked", "waiting"} /\ sess'[t].req.snap.status = "traveling"
                  => Gone(p, sess'[t].at)
  <2>1. LoggedIn(t, p)
    BY <1>4 DEF LoggedIn
  <2>2. sess[t].at \in Node
    BY <2>1 DEF LoggedIn, TravelInd, TravelInv, TravelTypeOK, SessionState
  <2>3. char'[sess[t].at][p].status = "traveling" => char[sess[t].at][p].status = "traveling"
    BY <2>2
  <2>. QED
    BY <2>1, <2>3 DEF LoginOf, LockedIsGone
<1>5. ASSUME NEW m \in Node, NEW i \in Id, Importing(m, i)', Pending(i), travel[i].player = p
      PROVE  Importing(m, i) \/ Usable(m, p)'
  <2>1. CASE tick'[m].pc \notin {"idle", "drain"} /\ tick'[m].id = i
    BY <1>1, <1>5, <2>1 DEF Importing, Usable
  <2>2. CASE \E c \in calls' : c.op = "arrived" /\ c.from = m /\ c.id = i
    BY <2>2 DEF Importing
  <2>. QED
    BY <1>5, <2>1, <2>2 DEF Importing
<1>6. DeparturesAwaited(p)'
  BY DEF DeparturesAwaited, LoginOf
<1>. QED
  BY <1>2, <1>3, <1>4, <1>5, <1>6, LoginStays

\* Nobody stops waiting for a departure of p that the hub still has.
LEMMA AwaitedKept ==
    ASSUME NEW p \in Player, DeparturesAwaited(p),
           \A s \in Session : sess[s].pc = "waiting" /\ sess[s].req.player = p =>
             sess'[s] = sess[s] \/ sess[s].req \notin calls',
           \A c \in calls' :
             \/ c \in calls \/ c.op # "submit" \/ c.player # p
             \/ \E s \in Session : sess'[s].pc = "waiting" /\ sess'[s].req = c
    PROVE  DeparturesAwaited(p)'
<1>. SUFFICES ASSUME NEW c \in calls', c.op = "submit", c.player = p
              PROVE  \E s \in Session : sess'[s].pc = "waiting" /\ sess'[s].req = c
  BY DEF DeparturesAwaited
<1>1. ASSUME c \in calls PROVE \E s \in Session : sess'[s].pc = "waiting" /\ sess'[s].req = c
  <2>1. PICK s \in Session : sess[s].pc = "waiting" /\ sess[s].req = c
    BY <1>1 DEF DeparturesAwaited
  <2>2. sess'[s] = sess[s]
    BY <2>1
  <2>. QED
    BY <2>1, <2>2
<1>. QED
  BY <1>1

\* A session's value, as TravelFn and the menu set it.
LEMMA PlayingValue ==
    ASSUME NEW n, NEW p
    PROVE  LET v == Playing(n, p) IN v # Offline /\ v.pc = "play" /\ v.at = n /\ v.who = p
<1>1. Playing(n, p).pc # Offline.pc
  BY DEF Playing, Offline
<1>. QED
  BY <1>1 DEF Playing

LEMMA DepartingValue ==
    ASSUME TravelInd, NEW s \in Session, NEW pc \in {"exported", "marked", "waiting", "failed"},
           sess[s].pc \in {"exported", "marked", "waiting", "failed"},
           sess' = [sess EXCEPT ![s].pc = pc]
    PROVE  \E v : /\ sess' = [sess EXCEPT ![s] = v] /\ sess'[s] = v
                  /\ v # Offline /\ v.pc = pc /\ v.at = sess[s].at
                  /\ v.who = sess[s].who /\ v.req = sess[s].req
<1>. DEFINE u == sess[s]
            v == [u EXCEPT !.pc = pc]
<1>1. u \in [pc : {"exported", "marked", "waiting", "failed"}, at : Node, who : Player, req : SubmitCall]
  BY DepartingFacts
<1>2. sess' = [sess EXCEPT ![s] = v]
  OBVIOUS
<1>. HIDE DEF u
<1>3. v.pc = pc /\ v.at = u.at /\ v.who = u.who /\ v.req = u.req
  BY <1>1
<1>4. v # Offline
  <2>1. v.pc # Offline.pc
    BY <1>3 DEF Offline
  <2>. QED
    BY <2>1
<1>. HIDE DEF v
<1>5. sess'[s] = v
  BY <1>2 DEF TravelInd, TravelInv, TravelTypeOK
<1>. QED
  BY <1>2, <1>3, <1>4, <1>5 DEF u

\* A row of another player, or at another node, is not written.
LEMMA StatusWritten ==
    ASSUME TravelInd, NEW n \in Node, NEW q \in Player, char[n][q] \in CharRow, NEW st \in Status,
           SetPlayerStatus(n, q, st)
    PROVE  /\ char'[n][q].status = st
           /\ \A m \in Node : \A r \in Player : <<m, r>> # <<n, q>> => char'[m][r] = char[m][r]
<1>1. char \in [Node -> [Player -> CharRow \cup {NoRow}]]
  BY DEF TravelInd, TravelInv, TravelTypeOK
<1>. DEFINE new == [char[n][q] EXCEPT !.status = st]
<1>2. new.status = st
  BY DEF CharRow
<1>3. char' = [char EXCEPT ![n] = [char[n] EXCEPT ![q] = new]]
  BY DEF SetPlayerStatus
<1>. HIDE DEF new
<1>. QED
  BY <1>1, <1>2, <1>3

\* Nothing happens at the hub.
LEMMA HubAtRest ==
    ASSUME NEW p, UNCHANGED <<travel, loc>>
    PROVE  SameJourneys(p)
  BY DEF SameJourneys

\* The menu of a session.
LEMMA MenuLogin ==
    ASSUME TravelInd, NEW p \in Player, LoginOf(p), p \notin astray', NEW s \in Session,
           \/ \E n \in Node, q \in Player : Login(s, n, q)
           \/ Logout(s)
           \/ \E d \in Node : ExportPlayer(s, d)
    PROVE  LoginOf(p)'
<1>1. SameJourneys(p) /\ tick' = tick
  BY HubAtRest DEF Login, Logout, ExportPlayer, hubTravelVars
<1>6. DeparturesAwaited(p)' /\ calls' = calls
  <2>1. calls' = calls
    BY DEF Login, Logout, ExportPlayer, hubTravelVars
  <2>2. sess[s].pc # "waiting"
    <3>1. sess[s] = Offline \/ sess[s].pc = "play"
      BY DEF Login, Logout, ExportPlayer
    <3>. QED
      BY <3>1 DEF Offline
  <2>3. \A t \in Session : t # s => sess'[t] = sess[t]
    BY DEF Login, Logout, ExportPlayer, TravelInd, TravelInv, TravelTypeOK
  <2>. QED
    BY <2>1, <2>2, <2>3, AwaitedKept DEF LoginOf
<1>2. ASSUME NEW n \in Node, NEW q \in Player, Login(s, n, q) PROVE LoginOf(p)'
  <2>. DEFINE v == Playing(n, q)
  <2>1. v # Offline /\ v.pc = "play" /\ v.at = n /\ v.who = q
    BY PlayingValue
  <2>2. sess' = [sess EXCEPT ![s] = v] /\ sess[s] = Offline /\ char' = char /\ char[n][q].status = "active"
    BY <1>2 DEF Login
  <2>3. q = p => \A t \in Session : ~LoggedIn(t, p)
    BY <1>2 DEF Login
  <2>4. sess'[s] = v /\ \A t \in Session \ {s} : sess'[t] = sess[t]
    BY <2>2 DEF TravelInd, TravelInv, TravelTypeOK
  <2>. HIDE DEF v
  <2>5. \A m \in Node : Usable(m, p) => Usable(m, p)'
    BY <2>2, <2>4 DEF Usable, InDeparture, LoggedIn
  <2>. QED
    BY <1>1, <1>6, <2>1, <2>2, <2>3, <2>5, SessionSteps
<1>3. CASE Logout(s)
  <2>1. sess' = [sess EXCEPT ![s] = Offline] /\ sess[s].pc = "play" /\ char' = char
    BY <1>3 DEF Logout
  <2>2. sess'[s] = Offline /\ \A t \in Session \ {s} : sess'[t] = sess[t]
    BY <2>1 DEF TravelInd, TravelInv, TravelTypeOK
  <2>3. \A m \in Node : Usable(m, p) => Usable(m, p)'
    BY <2>1, <2>2 DEF Usable, InDeparture, LoggedIn
  <2>. QED
    BY <1>1, <1>6, <2>1, <2>3, SessionSteps
<1>5. ASSUME NEW d \in Node, ExportPlayer(s, d) PROVE LoginOf(p)'
  <2>. DEFINE n == sess[s].at
              q == sess[s].who
              c == [op |-> "submit", by |-> s, from |-> n, player |-> q, dest |-> d,
                    snap |-> char[n][q]]
              v == InTravelFn("exported", c)
  <2>1. n \in Node /\ q \in Player /\ char' = char /\ sess[s].pc = "play" /\ sess[s] # Offline
    BY <1>5, PlayingFacts DEF ExportPlayer, Offline
  <2>2. sess' = [sess EXCEPT ![s] = v]
    BY <1>5 DEF ExportPlayer
  <2>3. c.from = n /\ c.player = q /\ c.snap = char[n][q]
    OBVIOUS
  <2>. HIDE DEF c
  <2>4. v.pc = "exported" /\ v.at = n /\ v.who = q /\ v.req = c
    BY <2>3 DEF InTravelFn
  <2>. HIDE DEF v
  <2>5. sess'[s] = v /\ \A t \in Session \ {s} : sess'[t] = sess[t]
    BY <2>2 DEF TravelInd, TravelInv, TravelTypeOK
  <2>6. \A m \in Node : Usable(m, p) => Usable(m, p)'
    BY <2>1, <2>5 DEF Usable, InDeparture, LoggedIn
  <2>7. q = p => LoggedIn(s, p) /\ (char[n][p].status = "traveling" => Gone(p, n))
    BY <2>1 DEF LoggedIn, LoginOf, LockedIsGone
  <2>8. v.who = p => /\ (v.pc \in {"play", "exported"} /\ char'[v.at][p].status = "traveling"
                           => Gone(p, v.at))
                     /\ (v.pc \in {"exported", "marked", "waiting"} /\ v.req.snap.status = "traveling"
                           => Gone(p, v.at))
    BY <2>1, <2>3, <2>4, <2>7
  <2>9. v.who = p => LoggedIn(s, p)
    BY <2>4, <2>7
  <2>. HIDE DEF n, q
  <2>. QED
    BY <1>1, <1>6, <2>1, <2>2, <2>6, <2>8, <2>9, SessionSteps
<1>. QED
  BY <1>2, <1>3, <1>5

\* TravelFn without an accepted departure.
LEMMA TravelFnLogin ==
    ASSUME TravelInd, NEW p \in Player, LoginOf(p), p \notin astray', NEW s \in Session,
           \/ MarkTraveling(s) \/ Submit(s) \/ UndoTraveling(s)
           \/ SubmitRejected(s) \/ SubmitRefused(s) \/ SubmitLost(s)
           \/ MarkFails(s) \/ UndoFails(s)
    PROVE  LoginOf(p)'
<1>1. SameJourneys(p) /\ tick' = tick
  BY HubAtRest DEF MarkTraveling, Submit, TravelSubmit, SubmitRejected, SubmitRefused, SubmitLost, Refuses,
     UndoTraveling, MarkFails, UndoFails, hubTravelVars
<1>2. sess[s].pc \in {"exported", "marked", "waiting", "failed"}
  BY DEF MarkTraveling, Submit, SubmitRejected, SubmitRefused, SubmitLost, UndoTraveling,
     MarkFails, UndoFails
<1>3. PICK n \in Node, q \in Player :
        n = sess[s].at /\ q = sess[s].who /\ char[n][q] \in CharRow
  BY <1>2, DepartingFacts
<1>4. sess[s] # Offline
  BY <1>2 DEF Offline
<1>8. DeparturesAwaited(p)' /\ \A c \in calls' : c.op = "arrived" => c \in calls
  <2>1. sess[s].req.op = "submit" /\ sess[s].req.player = q
    BY <1>2, <1>3, DepartingFacts DEF SubmitCall
  <2>2. sess \in [Session -> SessionState]
    BY DEF TravelInd, TravelInv, TravelTypeOK
  <2>3. \A t \in Session : t # s => sess'[t] = sess[t]
    BY <2>2 DEF MarkTraveling, Submit, SubmitRejected, SubmitRefused, SubmitLost, UndoTraveling,
       MarkFails, UndoFails
  <2>4. CASE Submit(s)
    <3>1. /\ calls' = calls \cup {sess[s].req} /\ sess[s].pc = "marked"
          /\ sess' = [sess EXCEPT ![s].pc = "waiting"]
      BY <2>4 DEF Submit, TravelSubmit, Admit
    <3>2. "waiting" \in {"exported", "marked", "waiting", "failed"}
      OBVIOUS
    <3>3. \E v : /\ sess' = [sess EXCEPT ![s] = v] /\ sess'[s] = v
                 /\ v # Offline /\ v.pc = "waiting" /\ v.at = sess[s].at
                 /\ v.who = sess[s].who /\ v.req = sess[s].req
      BY <1>2, <3>1, <3>2, DepartingValue, Zenon
    <3>4. sess'[s].pc = "waiting" /\ sess'[s].req = sess[s].req
      BY <3>3
    <3>5. DeparturesAwaited(p)
      BY DEF LoginOf
    <3>6. DeparturesAwaited(p)'
      BY <2>3, <3>1, <3>4, <3>5, AwaitedKept
    <3>. QED
      BY <2>1, <3>1, <3>6
  <2>5. CASE MarkTraveling(s) \/ SubmitRejected(s) \/ UndoTraveling(s) \/ MarkFails(s) \/ UndoFails(s)
    <3>1. calls' = calls /\ sess[s].pc # "waiting"
      BY <2>5 DEF MarkTraveling, SubmitRejected, UndoTraveling, MarkFails, UndoFails, hubTravelVars
    <3>. QED
      BY <2>3, <3>1, AwaitedKept DEF LoginOf
  <2>6. CASE SubmitRefused(s) \/ SubmitLost(s)
    <3>1. calls' \subseteq calls
      BY <2>6 DEF SubmitRefused, Refuses, SubmitLost
    <3>2. q = p => sess[s].req \notin calls'
      BY <1>3, <2>6 DEF SubmitRefused, Refuses, SubmitLost
    <3>3. DeparturesAwaited(p)
      BY DEF LoginOf
    <3>4. DeparturesAwaited(p)'
      BY <2>1, <2>3, <3>1, <3>2, <3>3, AwaitedKept
    <3>. QED
      BY <3>1, <3>4
  <2>. QED
    BY <2>4, <2>5, <2>6
<1>5. CASE MarkTraveling(s)
  <2>1. /\ \A m \in Node : \A r \in Player : <<m, r>> # <<n, q>> => char'[m][r] = char[m][r]
        /\ sess' = [sess EXCEPT ![s].pc = "marked"] /\ sess[s].pc = "exported"
    BY <1>3, <1>5, StatusWritten DEF MarkTraveling, Status
  <2>2. PICK v : /\ sess' = [sess EXCEPT ![s] = v] /\ sess'[s] = v
                 /\ v # Offline /\ v.pc = "marked" /\ v.at = n /\ v.who = q /\ v.req = sess[s].req
    <3>1. "marked" \in {"exported", "marked", "waiting", "failed"}
      OBVIOUS
    <3>2. \E v : /\ sess' = [sess EXCEPT ![s] = v] /\ sess'[s] = v
                 /\ v # Offline /\ v.pc = "marked" /\ v.at = sess[s].at
                 /\ v.who = sess[s].who /\ v.req = sess[s].req
      BY <1>2, <2>1, <3>1, DepartingValue, Zenon
    <3>. QED
      BY <1>3, <3>2
  <2>3. \A t \in Session \ {s} : sess'[t] = sess[t]
    BY <2>2 DEF TravelInd, TravelInv, TravelTypeOK
  <2>4. CASE q = p
    <3>1. LoggedIn(s, p) /\ InDeparture(s, p, n)'
      BY <1>3, <1>4, <2>2, <2>4 DEF LoggedIn, InDeparture
    <3>2. \A m \in Node : Usable(m, p) => Usable(m, p)'
      <4>1. ASSUME NEW m \in Node, m # n, Usable(m, p) PROVE Usable(m, p)'
        <5>1. char'[m][p] = char[m][p]
          BY <2>1, <4>1
        <5>2. \A t \in Session : InDeparture(t, p, m) => InDeparture(t, p, m)'
          BY <1>3, <2>3, <4>1 DEF InDeparture, LoggedIn
        <5>. QED
          BY <4>1, <5>1, <5>2 DEF Usable
      <4>2. Usable(n, p)'
        BY <3>1 DEF Usable
      <4>. QED
        BY <4>1, <4>2
    <3>3. sess[s].req.snap.status = "traveling" => Gone(p, n)
      BY <1>3, <2>1, <3>1 DEF LoginOf, LockedIsGone
    <3>. QED
      BY <1>1, <1>8, <2>2, <3>1, <3>2, <3>3, SessionSteps
  <2>5. CASE q # p
    <3>1. \A m \in Node : char'[m][p].status = char[m][p].status
      BY <1>3, <2>1, <2>5
    <3>2. ~LoggedIn(s, p)
      BY <1>3, <2>5 DEF LoggedIn
    <3>. QED
      BY <1>1, <1>8, <2>2, <2>5, <3>1, <3>2, OtherSessionSteps
  <2>. QED
    BY <2>4, <2>5
<1>6. CASE UndoTraveling(s)
  <2>. DEFINE v == Playing(n, q)
  <2>1. /\ char'[n][q].status = "active"
        /\ \A m \in Node : \A r \in Player : <<m, r>> # <<n, q>> => char'[m][r] = char[m][r]
        /\ sess' = [sess EXCEPT ![s] = v]
    BY <1>3, <1>6, StatusWritten DEF UndoTraveling, Status
  <2>2. v # Offline /\ v.pc = "play" /\ v.at = n /\ v.who = q
    BY PlayingValue
  <2>. HIDE DEF v
  <2>3. sess'[s] = v /\ \A t \in Session \ {s} : sess'[t] = sess[t]
    BY <2>1 DEF TravelInd, TravelInv, TravelTypeOK
  <2>4. CASE q = p
    <3>1. LoggedIn(s, p) /\ char'[n][p].status = "active"
      BY <1>3, <1>4, <2>1, <2>4 DEF LoggedIn
    <3>2. \A m \in Node : Usable(m, p) => Usable(m, p)'
      <4>1. ASSUME NEW m \in Node, m # n, Usable(m, p) PROVE Usable(m, p)'
        <5>1. char'[m][p] = char[m][p]
          BY <2>1, <4>1
        <5>2. \A t \in Session : InDeparture(t, p, m) => InDeparture(t, p, m)'
          BY <1>3, <2>3, <4>1 DEF InDeparture, LoggedIn
        <5>. QED
          BY <4>1, <5>1, <5>2 DEF Usable
      <4>2. Usable(n, p)'
        BY <3>1 DEF Usable
      <4>. QED
        BY <4>1, <4>2
    <3>. QED
      BY <1>1, <1>8, <2>1, <2>2, <3>1, <3>2, SessionSteps
  <2>5. CASE q # p
    <3>1. \A m \in Node : char'[m][p].status = char[m][p].status
      BY <1>3, <2>1, <2>5
    <3>2. ~LoggedIn(s, p)
      BY <1>3, <2>5 DEF LoggedIn
    <3>. QED
      BY <1>1, <1>8, <2>1, <2>2, <2>5, <3>1, <3>2, OtherSessionSteps
  <2>. QED
    BY <2>4, <2>5
<1>9. CASE MarkFails(s) \/ UndoFails(s)
  <2>. DEFINE v == Playing(n, q)
  <2>1. sess' = [sess EXCEPT ![s] = v] /\ char' = char
    BY <1>3, <1>9 DEF MarkFails, UndoFails
  <2>2. v # Offline /\ v.pc = "play" /\ v.at = n /\ v.who = q
    BY PlayingValue
  <2>. HIDE DEF v
  <2>3. \A t \in Session \ {s} : sess'[t] = sess[t]
    BY <2>1 DEF TravelInd, TravelInv, TravelTypeOK
  <2>4. CASE q = p
    <3>1. sess[s].pc = "exported"
      BY <1>3, <1>9, <2>4 DEF MarkFails, UndoFails
    <3>2. LoggedIn(s, p)
      BY <1>3, <1>4, <2>4 DEF LoggedIn
    <3>3. \A t \in Session : \A m \in Node : InDeparture(t, p, m) => InDeparture(t, p, m)'
      BY <2>3, <3>1 DEF InDeparture, LoggedIn
    <3>4. \A m \in Node : Usable(m, p) => Usable(m, p)'
      BY <2>1, <3>3 DEF Usable
    <3>5. char'[n][p].status = "traveling" => Gone(p, n)
      BY <1>3, <2>1, <3>1, <3>2 DEF LoginOf, LockedIsGone
    <3>. QED
      BY <1>1, <1>8, <2>1, <2>2, <3>2, <3>4, <3>5, SessionSteps
  <2>5. CASE q # p
    <3>1. ~LoggedIn(s, p)
      BY <1>3, <2>5 DEF LoggedIn
    <3>. QED
      BY <1>1, <1>8, <2>1, <2>2, <2>5, <3>1, OtherSessionSteps
  <2>. QED
    BY <2>4, <2>5
<1>7. CASE Submit(s) \/ SubmitRejected(s) \/ SubmitRefused(s) \/ SubmitLost(s)
  <2>1. PICK pc \in {"waiting", "failed"} : sess' = [sess EXCEPT ![s].pc = pc]
    BY <1>7 DEF Submit, SubmitRejected, SubmitRefused, SubmitLost
  <2>2. char' = char /\ sess[s].pc \in {"marked", "waiting"}
    BY <1>7 DEF Submit, SubmitRejected, SubmitRefused, SubmitLost
  <2>3. PICK v : /\ sess' = [sess EXCEPT ![s] = v] /\ sess'[s] = v
                 /\ v # Offline /\ v.pc = pc /\ v.at = n /\ v.who = q /\ v.req = sess[s].req
    <3>1. pc \in {"exported", "marked", "waiting", "failed"}
      OBVIOUS
    <3>2. \E v : /\ sess' = [sess EXCEPT ![s] = v] /\ sess'[s] = v
                 /\ v # Offline /\ v.pc = pc /\ v.at = sess[s].at
                 /\ v.who = sess[s].who /\ v.req = sess[s].req
      BY <1>2, <2>1, <3>1, DepartingValue, Zenon
    <3>. QED
      BY <1>3, <3>2
  <2>4. \A t \in Session \ {s} : sess'[t] = sess[t]
    BY <2>3 DEF TravelInd, TravelInv, TravelTypeOK
  <2>5. v.who = p => LoggedIn(s, p)
    BY <1>3, <1>4, <2>3 DEF LoggedIn
  <2>6. \A t \in Session, m \in Node : InDeparture(t, p, m) => InDeparture(t, p, m)'
    <3>1. ASSUME NEW m \in Node, InDeparture(s, p, m) PROVE InDeparture(s, p, m)'
      BY <1>3, <2>3, <3>1 DEF InDeparture, LoggedIn
    <3>. QED
      BY <2>4, <3>1 DEF InDeparture, LoggedIn
  <2>7. \A m \in Node : Usable(m, p) => Usable(m, p)'
    BY <2>2, <2>6 DEF Usable
  <2>8. LoggedIn(s, p) /\ sess[s].req.snap.status = "traveling" => Gone(p, n)
    BY <1>3, <2>2 DEF LoginOf, LockedIsGone
  <2>. QED
    BY <1>1, <1>8, <2>2, <2>3, <2>5, <2>7, <2>8, SessionSteps
<1>. QED
  BY <1>5, <1>6, <1>7, <1>9

\* An accepted departure.
LEMMA AcceptedLogin ==
    ASSUME TravelInd, NEW p \in Player, LoginOf(p), NEW s \in Session, SubmitAccepted(s)
    PROVE  LoginOf(p)'
<1>1. PICK n \in Node, q \in Player, c \in SubmitCall :
        /\ n = sess[s].at /\ q = sess[s].who /\ c = sess[s].req
        /\ c.from = n /\ c.player = q
  BY DepartingFacts DEF SubmitAccepted
<1>. DEFINE v == Playing(n, q)
<1>2. /\ sess' = [sess EXCEPT ![s] = v] /\ sess[s].pc = "waiting"
      /\ SubmitTravel(c) /\ char' = char /\ tick' = tick
  BY <1>1 DEF SubmitAccepted
<1>3. v # Offline /\ v.pc = "play" /\ v.at = n /\ v.who = q
  BY PlayingValue
<1>. HIDE DEF v
<1>4. sess'[s] = v /\ \A t \in Session \ {s} : sess'[t] = sess[t]
  BY <1>2 DEF TravelInd, TravelInv, TravelTypeOK
<1>5. LoggedIn(s, q) /\ \A r : r # q => ~LoggedIn(s, r)
  BY <1>1, <1>2 DEF LoggedIn, Offline
<1>0. PICK k : k = nextId
  OBVIOUS
<1>. DEFINE row == [player |-> q, from |-> n, dest |-> c.dest, snap |-> c.snap, status |-> "pending"]
            at  == [status |-> "traveling", at |-> n, id |-> k]
<1>6. /\ travel' = [travel EXCEPT ![k] = row] /\ loc' = [loc EXCEPT ![q] = at]
      /\ k <= MaxTravels /\ Accepts(c)
  BY <1>0, <1>1, <1>2 DEF SubmitTravel, Departs
<1>7. /\ travel \in [Id -> Row \cup {NoRow}] /\ loc \in [Player -> Location \cup {NoRow}]
      /\ k \in 1..MaxTravels + 1
      /\ \A i \in Id : travel[i] # NoRow => i < k
  BY <1>0 DEF TravelInd, HubInd, HubTypeOK, IdsAreFresh
<1>8. k \in Id /\ travel[k] = NoRow
  BY <1>6, <1>7 DEF Id
<1>9. row.player = q /\ row.from = n /\ row.dest = c.dest /\ row.snap = c.snap /\ row.status = "pending"
  OBVIOUS
<1>. HIDE DEF row, at
<1>10. /\ travel'[k] = row /\ \A i \in Id : i # k => travel'[i] = travel[i]
       /\ \A r \in Player : r # q => loc'[r] = loc[r]
  BY <1>6, <1>7, <1>8
<1>13. DeparturesAwaited(p)' /\ \A d \in calls' : d.op = "arrived" => d \in calls
  <2>1. calls' = calls \ {c} /\ c = sess[s].req
    BY <1>1, <1>2 DEF SubmitTravel
  <2>2. DeparturesAwaited(p)
    BY DEF LoginOf
  <2>3. DeparturesAwaited(p)'
    BY <1>4, <2>1, <2>2, AwaitedKept
  <2>. QED
    BY <2>1, <2>3
<1>11. CASE q # p
  <2>1. SameJourneys(p)
    BY <1>8, <1>9, <1>10, <1>11 DEF SameJourneys
  <2>2. ~LoggedIn(s, p) /\ v.who # p
    BY <1>3, <1>5, <1>11
  <2>. QED
    BY <1>2, <1>13, <2>1, <2>2, OtherSessionSteps
<1>12. CASE q = p
  <2>1. \A i \in Id : Pending(i) => travel[i].player # p
    BY <1>1, <1>6, <1>12 DEF Accepts
  <2>2. c.dest # n /\ ~Gone(p, n)
    BY <1>1, <1>6, <1>12, <2>1 DEF Accepts, Gone
  <2>3. \A i \in Id : Pending(i)' /\ travel'[i].player = p => i = k
    BY <1>10, <2>1 DEF Pending
  <2>4. Pending(k)'
    BY <1>9, <1>10 DEF Pending
  <2>5. \A t \in Session : LoggedIn(t, p)' => t = s
    BY <1>4, <1>5, <1>12 DEF LoginOf, PlaysOnce, LoggedIn
  <2>6. PlaysOnce(p)'
    BY <2>5 DEF PlaysOnce
  <2>7. CarriesActive(p)'
    <3>1. c.snap \in Snapshot
      BY DEF SubmitCall
    <3>2. c.snap.status \in Status
      BY <3>1
    <3>3. c.snap.status # "traveling"
      BY <1>1, <1>2, <1>5, <1>12, <2>2 DEF LoginOf, LockedIsGone
    <3>4. c.snap.status = "active"
      BY <3>2, <3>3 DEF Status
    <3>. QED
      BY <1>9, <1>10, <3>4 DEF CarriesActive, LoginOf
  <2>8. LockedIsGone(p)'
    <3>1. Gone(p, n)'
      BY <1>8, <1>9, <1>10, <1>12, <2>2, <2>3, <2>4 DEF Gone
    <3>2. sess'[s].at = n /\ sess'[s].pc = "play"
      BY <1>3, <1>4
    <3>. QED
      BY <2>5, <3>1, <3>2 DEF LockedIsGone
  <2>9. UsableWhereLocated(p)'
    BY <1>8, <1>9, <1>10, <1>12, <2>4 DEF UsableWhereLocated
  <2>10. UsableWhereImported(p)'
    <3>1. ASSUME NEW m \in Node, Importing(m, k)' PROVE FALSE
      <4>1. Importing(m, k)
        BY <1>2, <1>13, <3>1 DEF Importing
      <4>2. travel[k] # NoRow
        BY <4>1 DEF Importing, TravelInd, TravelInv, DrainsHaveRows, ReportsHaveRows, Imported
      <4>. QED
        BY <1>8, <4>2
    <3>. QED
      BY <2>3, <3>1 DEF UsableWhereImported
  <2>. QED
    BY <1>13, <2>6, <2>7, <2>8, <2>9, <2>10 DEF LoginOf
<1>. QED
  BY <1>11, <1>12

\* An arrival is reported where the character can be used.
LEMMA ArrivesLogin ==
    ASSUME TravelInd, NEW p \in Player, LoginOf(p), NEW c \in calls, ArriveTravel(c),
           travel[c.id].player = p, char' = char, sess' = sess
    PROVE  LoginOf(p)'
<1>1. PICK i, n : i = c.id /\ n = c.from
  OBVIOUS
<1>2. c.op = "arrived" /\ i \in Id /\ n \in Node
  BY <1>1 DEF ArriveTravel, TravelInd, HubInd, HubTypeOK, Call, SubmitCall, ReportCall
<1>3. Pending(i) /\ travel[i].dest = n /\ travel[i].player = p
  BY <1>1 DEF ArriveTravel
<1>4. travel[i] \in Row
  BY <1>2, <1>3, PendingIsRow DEF TravelInd, HubInd
<1>. DEFINE row == [travel[i] EXCEPT !.status = "arrived"]
            at  == [status |-> "active", at |-> n, id |-> 0]
<1>5. travel' = [travel EXCEPT ![i] = row] /\ loc' = [loc EXCEPT ![p] = at] /\ calls' \subseteq calls
  BY <1>1, <1>3 DEF ArriveTravel, Arrives
<1>6. travel \in [Id -> Row \cup {NoRow}] /\ loc \in [Player -> Location \cup {NoRow}]
  BY DEF TravelInd, HubInd, HubTypeOK
<1>7. row.player = p /\ row.snap = travel[i].snap /\ row.status = "arrived"
  BY <1>3, <1>4 DEF Row
<1>8. at.at = n /\ at # NoRow
  <2>1. at.status # NoRow.status
    BY DEF NoRow
  <2>. QED
    BY <2>1
<1>. HIDE DEF row, at
<1>9. travel'[i] = row /\ (\A j \in Id : j # i => travel'[j] = travel[j]) /\ loc'[p] = at
  BY <1>2, <1>5, <1>6
<1>10. \A j \in Id : Pending(j) /\ travel[j].player = p => j = i
  <2>1. p \notin reopened
    BY DEF TravelInd, TravelInv, TravelTypeOK
  <2>2. PendingIsLocated
    BY DEF TravelInd, HubInd
  <2>. QED
    BY <1>2, <1>3, <2>1, <2>2, LocatedById
<1>11. \A j \in Id : Pending(j)' => travel'[j].player # p
  BY <1>7, <1>9, <1>10 DEF Pending
<1>12. CurrentNode(p)' = n
  BY <1>8, <1>9 DEF CurrentNode
<1>13. PlaysOnce(p)'
  BY DEF LoginOf, PlaysOnce, LoggedIn
<1>14. CarriesActive(p)'
  <2>1. travel[i] # NoRow
    BY <1>3 DEF Pending, NoRow
  <2>. QED
    BY <1>2, <1>3, <1>7, <1>9, <2>1 DEF LoginOf, CarriesActive
<1>15. LockedIsGone(p)'
  <2>1. ASSUME NEW m, Gone(p, m) PROVE Gone(p, m)'
    <3>1. m # n
      BY <1>2, <1>3, <2>1 DEF Gone
    <3>. QED
      BY <1>11, <1>12, <3>1 DEF Gone
  <2>. QED
    BY <2>1 DEF LoginOf, LockedIsGone, LoggedIn
<1>16. UsableWhereLocated(p)'
  <2>1. Importing(n, i)
    BY <1>1, <1>2 DEF Importing
  <2>2. Usable(n, p)
    BY <1>2, <1>3, <2>1 DEF LoginOf, UsableWhereImported
  <2>3. Usable(n, p)'
    BY <2>2 DEF Usable, InDeparture, LoggedIn
  <2>. QED
    BY <1>12, <2>3 DEF UsableWhereLocated
<1>17. UsableWhereImported(p)'
  BY <1>11 DEF UsableWhereImported
<1>18. DeparturesAwaited(p)'
  BY <1>5 DEF LoginOf, DeparturesAwaited
<1>. QED
  BY <1>13, <1>14, <1>15, <1>16, <1>17, <1>18 DEF LoginOf

\* The arrival of another player changes no journey of p.
LEMMA OthersArrive ==
    ASSUME TravelInd, NEW p \in Player, NEW c \in calls, ArriveTravel(c), travel[c.id].player # p
    PROVE  SameJourneys(p)
<1>1. PICK i : i = c.id
  OBVIOUS
<1>2. i \in Id /\ c.op = "arrived"
  BY <1>1 DEF ArriveTravel, TravelInd, HubInd, HubTypeOK, Call, SubmitCall, ReportCall
<1>3. travel[i] \in Row /\ travel[i].player # p
  BY <1>1, <1>2, PendingIsRow DEF ArriveTravel, TravelInd, HubInd
<1>. DEFINE row == [travel[i] EXCEPT !.status = "arrived"]
<1>4. travel' = [travel EXCEPT ![i] = row] /\ row.player # p
  BY <1>1, <1>3 DEF ArriveTravel, Arrives, Row
<1>5. travel \in [Id -> Row \cup {NoRow}] /\ loc \in [Player -> Location \cup {NoRow}]
  BY DEF TravelInd, HubInd, HubTypeOK
<1>. HIDE DEF row
<1>6. loc'[p] = loc[p]
  BY <1>1, <1>3, <1>5 DEF ArriveTravel, Arrives
<1>. QED
  BY <1>2, <1>3, <1>4, <1>5, <1>6 DEF SameJourneys

\* A drain starts, or moves on.
LEMMA DrainMovesOnLogin ==
    ASSUME TravelInd, NEW p \in Player, LoginOf(p), SameJourneys(p), sess' = sess, char' = char,
           NEW n \in Node, NEW v, tick' = [tick EXCEPT ![n] = v], v.pc \in {"idle", "drain"},
           calls' \subseteq calls
    PROVE  LoginOf(p)'
<1>1. \A m \in Node : char'[m][p].status \in {char[m][p].status, "active"}
  OBVIOUS
<1>2. \A i \in Id : v.pc \notin {"idle", "drain"} /\ v.id = i /\ Pending(i) /\ travel[i].player = p
        => Importing(n, i) \/ char'[n][p].status = "active"
  OBVIOUS
<1>3. \A c \in calls' : c \in calls \/ (c.op = "arrived" /\ Importing(c.from, c.id))
  OBVIOUS
<1>. QED
  BY <1>1, <1>2, <1>3, DrainStepsLogin

LEMMA AnsweredLogin ==
    ASSUME TravelInd, NEW p \in Player, LoginOf(p), NEW n \in Node, ArrivalAnswered(n)
    PROVE  LoginOf(p)'
<1>1. PICK i : i = tick[n].id
  OBVIOUS
<1>2. PICK c : c = Arrival(n, i)
  OBVIOUS
<1>3. c \in calls /\ c.op = "arrived" /\ calls' \subseteq calls /\ (ArriveTravel(c) \/ Refuses(c))
      /\ char' = char /\ sess' = sess /\ Dropped(n, i)
  BY <1>1, <1>2 DEF ArrivalAnswered, NextArrival, Arrival, ArriveTravel, Refuses
<1>. DEFINE v == [pc |-> "drain", todo |-> tick[n].todo \ {i}, id |-> 0]
<1>4. tick' = [tick EXCEPT ![n] = v] /\ v.pc = "drain"
  BY <1>3 DEF Dropped, TravelInd, TravelInv, TravelTypeOK
<1>. HIDE DEF v
<1>5. ASSUME SameJourneys(p) PROVE LoginOf(p)'
  BY <1>3, <1>4, <1>5, DrainMovesOnLogin
<1>6. CASE Refuses(c)
  BY <1>5, <1>6, HubAtRest DEF Refuses
<1>7. CASE ArriveTravel(c)
  BY <1>3, <1>5, <1>7, ArrivesLogin, OthersArrive
<1>. QED
  BY <1>3, <1>6, <1>7

\* The rest of a drain.
LEMMA DrainLogin ==
    ASSUME TravelInd, NEW p \in Player, LoginOf(p), NEW n \in Node, ~ArrivalAnswered(n),
           Drain(n) \/ ArrivalLost(n) \/ ImportFails(n) \/ ImportHomeFails(n)
    PROVE  LoginOf(p)'
<1>1. SameJourneys(p) /\ sess' = sess
  BY HubAtRest DEF Drain, DrainFetches, DrainEnds, ImportPlayer, ImportClashes, ImportState, ImportHome,
     ReportArrival, ReportsFrom, TravelReport, ArrivalLost, ImportFails, ImportHomeFails, hubTravelVars
<1>2. tick \in [Node -> TickState] /\ char \in [Node -> [Player -> CharRow \cup {NoRow}]]
  BY DEF TravelInd, TravelInv, TravelTypeOK, TickState
<1>3. ASSUME NEW v, tick' = [tick EXCEPT ![n] = v], v.pc \in {"idle", "drain"}, char' = char,
             calls' \subseteq calls
      PROVE  LoginOf(p)'
  BY <1>1, <1>3, DrainMovesOnLogin
<1>4. CASE DrainFetches(n)
  <2>. DEFINE v == [pc |-> "drain", todo |-> PendingTravel(n), id |-> 0]
  <2>1. tick' = [tick EXCEPT ![n] = v] /\ v.pc = "drain" /\ char' = char /\ calls' = calls
    BY <1>4 DEF DrainFetches, hubTravelVars
  <2>. HIDE DEF v
  <2>. QED
    BY <1>3, <2>1
<1>5. CASE DrainEnds(n)
  BY <1>3, <1>5 DEF DrainEnds, Idle, hubTravelVars
<1>6. CASE (\E i \in Id : ImportClashes(n, i)) \/ ArrivalLost(n) \/ ImportFails(n)
  <2>1. PICK i : Dropped(n, i)
    BY <1>6 DEF ImportClashes, ArrivalLost, ImportFails, NextArrival
  <2>. DEFINE v == [pc |-> "drain", todo |-> tick[n].todo \ {i}, id |-> 0]
  <2>2. tick' = [tick EXCEPT ![n] = v] /\ v.pc = "drain" /\ char' = char /\ calls' \subseteq calls
    BY <1>2, <1>6, <2>1 DEF ImportClashes, ArrivalLost, ImportFails, Dropped, hubTravelVars
  <2>. HIDE DEF v
  <2>. QED
    BY <1>3, <2>2
<1>7. ASSUME NEW i \in Id, ImportPlayer(n, i) PROVE LoginOf(p)'
  <2>. DEFINE q == travel[i].player
              r == char[n][q]
              new == travel[i].snap
              v == [tick[n] EXCEPT !.pc = "row", !.id = i]
  <2>1. travel[i] # NoRow /\ q \in Player /\ calls' = calls
    BY <1>7, ImportPlayerRows, DrainFacts DEF ImportPlayer, hubTravelVars
  <2>2. char' = [char EXCEPT ![n] = [char[n] EXCEPT ![q] = new]] /\ new.status = travel[i].snap.status
    BY <1>7 DEF ImportPlayer
  <2>3. tick' = [tick EXCEPT ![n] = v]
    BY <1>2, <1>7 DEF ImportPlayer
  <2>4. v.id = i
    BY <1>2 DEF TickState
  <2>. HIDE DEF new, v
  <2>5. q = p => new.status = "active"
    BY <2>1, <2>2 DEF LoginOf, CarriesActive
  <2>6. \A m \in Node : char'[m][p].status \in {char[m][p].status, "active"}
    BY <1>2, <2>1, <2>2, <2>5
  <2>7. q = p => char'[n][p].status = "active"
    BY <1>2, <2>2, <2>5
  <2>8. \A j \in Id : v.pc \notin {"idle", "drain"} /\ v.id = j /\ Pending(j) /\ travel[j].player = p
          => Importing(n, j) \/ char'[n][p].status = "active"
    BY <2>4, <2>7
  <2>9. \A c \in calls' : c \in calls \/ (c.op = "arrived" /\ Importing(c.from, c.id))
    BY <2>1
  <2>. HIDE DEF q, r
  <2>. QED
    BY <1>1, <2>3, <2>6, <2>8, <2>9, DrainStepsLogin
<1>8. ASSUME ImportState(n) \/ ImportHome(n) \/ ImportHomeFails(n) PROVE LoginOf(p)'
  <2>1. PICK i : i = tick[n].id
    OBVIOUS
  <2>. DEFINE q == travel[i].player
              r == char[n][q]
  <2>2. /\ tick[n].pc \in {"row", "state"} /\ i \in Id /\ q \in Player /\ r \in CharRow
    BY <1>8, <2>1, DrainFacts DEF ImportState, ImportHome, ImportHomeFails
  <2>3. PICK new : /\ char' = [char EXCEPT ![n] = [char[n] EXCEPT ![q] = new]]
                   /\ new.status \in {r.status, "active"}
    <3>2. CASE ImportHome(n)
      <4>. DEFINE st == IF Home[q] = n THEN "active" ELSE r.status
                  new == [r EXCEPT !.status = st]
      <4>1. st \in {r.status, "active"}
        OBVIOUS
      <4>2. char' = [char EXCEPT ![n] = [char[n] EXCEPT ![q] = new]]
        BY <2>1, <3>2 DEF ImportHome
      <4>. HIDE DEF st
      <4>3. new.status = st
        BY <2>2 DEF CharRow
      <4>. HIDE DEF new
      <4>. QED
        BY <4>1, <4>2, <4>3
    <3>3. CASE ImportState(n) \/ ImportHomeFails(n)
      <4>1. char' = [char EXCEPT ![n] = [char[n] EXCEPT ![q] = r]]
        BY <1>2, <3>3 DEF ImportState, ImportHomeFails
      <4>. QED
        BY <4>1
    <3>. QED
      BY <1>8, <3>2, <3>3
  <2>4. \A m \in Node : char'[m][p].status \in {char[m][p].status, "active"}
    BY <1>2, <2>2, <2>3
  <2>5. PICK pc : pc \in {"state", "imported"} /\ tick' = [tick EXCEPT ![n].pc = pc]
    BY <1>8 DEF ImportState, ImportHome, ImportHomeFails
  <2>. DEFINE v == [tick[n] EXCEPT !.pc = pc]
  <2>6. v.id = i /\ tick' = [tick EXCEPT ![n] = v]
    BY <1>2, <2>1, <2>5 DEF TickState
  <2>7. Importing(n, i) /\ calls' = calls
    BY <1>8, <2>1, <2>2 DEF Importing, ImportState, ImportHome, ImportHomeFails, hubTravelVars
  <2>. HIDE DEF v
  <2>8. \A j \in Id : v.pc \notin {"idle", "drain"} /\ v.id = j /\ Pending(j) /\ travel[j].player = p
          => Importing(n, j) \/ char'[n][p].status = "active"
    BY <2>6, <2>7
  <2>9. \A c \in calls' : c \in calls \/ (c.op = "arrived" /\ Importing(c.from, c.id))
    BY <2>7
  <2>. HIDE DEF q, r
  <2>. QED
    BY <1>1, <2>4, <2>6, <2>8, <2>9, DrainStepsLogin
<1>9. CASE ReportArrival(n)
  <2>1. PICK i : i = tick[n].id
    OBVIOUS
  <2>2. char' = char /\ tick' = [tick EXCEPT ![n].pc = "waiting", ![n].id = i] /\ Importing(n, i)
        /\ calls' = calls \cup {Arrival(n, i)}
    BY <1>9, <2>1 DEF ReportArrival, ReportsFrom, TravelReport, Admit, Importing
  <2>. DEFINE v == [tick[n] EXCEPT !.pc = "waiting", !.id = i]
  <2>3. tick' = [tick EXCEPT ![n] = v] /\ v.id = i
    BY <1>2, <2>2 DEF TickState
  <2>. HIDE DEF v
  <2>4. \A j \in Id : v.pc \notin {"idle", "drain"} /\ v.id = j /\ Pending(j) /\ travel[j].player = p
          => Importing(n, j) \/ char'[n][p].status = "active"
    BY <2>2, <2>3
  <2>5. \A m \in Node : char'[m][p].status \in {char[m][p].status, "active"}
    BY <2>2
  <2>6. Arrival(n, i).op = "arrived" /\ Arrival(n, i).from = n /\ Arrival(n, i).id = i
    BY DEF Arrival
  <2>7. PICK a : a = Arrival(n, i)
    OBVIOUS
  <2>8. \A c \in calls' : c \in calls \/ (c.op = "arrived" /\ Importing(c.from, c.id))
    BY <2>2, <2>6, <2>7
  <2>. QED
    BY <1>1, <2>3, <2>4, <2>5, <2>8, DrainStepsLogin
<1>. QED
  BY <1>4, <1>5, <1>6, <1>7, <1>8, <1>9 DEF Drain

\* A node stops while p is not departing from it.
LEMMA CrashLogin ==
    ASSUME TravelInd, NEW p \in Player, LoginOf(p), p \notin astray', NEW n \in Node, Crash(n)
    PROVE  LoginOf(p)'
<1>1. SameJourneys(p) /\ char' = char /\ calls' = calls
  BY HubAtRest DEF Crash, hubTravelVars
<1>2. \A t \in Session : sess'[t] = IF sess[t] # Offline /\ sess[t].at = n THEN Offline ELSE sess[t]
  BY DEF Crash
<1>3. \A t \in Session : ~InDeparture(t, p, n)
  BY DEF Crash
<1>4. \A t \in Session : LoggedIn(t, p)' => sess'[t] = sess[t] /\ LoggedIn(t, p)
  BY <1>2 DEF LoggedIn
<1>5. ASSUME NEW t \in Session, NEW m, InDeparture(t, p, m) PROVE sess'[t] = sess[t]
  <2>1. m # n
    BY <1>3, <1>5
  <2>. QED
    BY <1>2, <1>5, <2>1 DEF InDeparture
<1>6. PlaysOnce(p)'
  BY <1>4 DEF LoginOf, PlaysOnce
<1>7. \A m \in Node : Usable(m, p) => Usable(m, p)'
  <2>1. \A t \in Session : \A m \in Node : InDeparture(t, p, m) => InDeparture(t, p, m)'
    BY <1>5 DEF InDeparture, LoggedIn
  <2>. QED
    BY <1>1, <2>1 DEF Usable
<1>8. DeparturesAwaited(p)'
  <2>1. ASSUME NEW s \in Session, sess[s].pc = "waiting", sess[s].req.player = p
        PROVE  sess'[s] = sess[s]
    <3>1. sess[s].who = p /\ sess[s] # Offline
      BY <2>1, DepartingFacts DEF Offline
    <3>2. InDeparture(s, p, sess[s].at)
      BY <2>1, <3>1 DEF InDeparture, LoggedIn
    <3>. QED
      BY <1>5, <3>2
  <2>2. DeparturesAwaited(p)
    BY DEF LoginOf
  <2>. QED
    BY <1>1, <2>1, <2>2, AwaitedKept
<1>9. ASSUME NEW m \in Node, NEW i \in Id, Importing(m, i)' PROVE Importing(m, i)
  <2>1. tick'[m] = tick[m] \/ tick'[m] = Idle
    BY DEF Crash, TravelInd, TravelInv, TravelTypeOK
  <2>. QED
    BY <1>1, <1>9, <2>1 DEF Importing, Idle
<1>10. ASSUME NEW t \in Session, LoggedIn(t, p)'
      PROVE  /\ sess'[t].pc \in {"play", "exported"} /\ char'[sess'[t].at][p].status = "traveling"
                  => Gone(p, sess'[t].at)
             /\ sess'[t].pc \in {"exported", "marked", "waiting"} /\ sess'[t].req.snap.status = "traveling"
                  => Gone(p, sess'[t].at)
  BY <1>1, <1>4, <1>10 DEF LoginOf, LockedIsGone
<1>. QED
  BY <1>1, <1>6, <1>7, <1>8, <1>9, <1>10, LoginStays

\* The hub finishes a request whose client is gone: a departure of p is none.
LEMMA AbandonedLogin ==
    ASSUME TravelInd, NEW p \in Player, LoginOf(p), FinishAbandoned
    PROVE  LoginOf(p)'
<1>1. PICK c \in calls \ Awaited : Transaction(c)
  BY DEF FinishAbandoned
<1>2. char' = char /\ sess' = sess /\ tick' = tick
  BY DEF FinishAbandoned, nodeVars
<1>3. calls' \subseteq calls /\ ~BlockTravel(c)
  BY <1>1 DEF Transaction, SubmitTravel, ArriveTravel, BlockTravel, Refuses, TravelInd, TravelInv, ReportsHaveRows
<1>4. ASSUME SameJourneys(p) PROVE LoginOf(p)'
  <2>1. PlaysOnce(p)' /\ DeparturesAwaited(p)'
    BY <1>2, <1>3 DEF LoginOf, PlaysOnce, DeparturesAwaited, LoggedIn
  <2>2. \A m \in Node : Usable(m, p) => Usable(m, p)'
    BY <1>2 DEF Usable, InDeparture, LoggedIn
  <2>3. \A m \in Node : \A i \in Id : Importing(m, i)' => Importing(m, i)
    BY <1>2, <1>3 DEF Importing
  <2>4. ASSUME NEW t \in Session, LoggedIn(t, p)'
        PROVE  /\ sess'[t].pc \in {"play", "exported"} /\ char'[sess'[t].at][p].status = "traveling"
                    => Gone(p, sess'[t].at)
               /\ sess'[t].pc \in {"exported", "marked", "waiting"} /\ sess'[t].req.snap.status = "traveling"
                    => Gone(p, sess'[t].at)
    BY <1>2, <2>4 DEF LoginOf, LockedIsGone, LoggedIn
  <2>. QED
    BY <1>4, <2>1, <2>2, <2>3, <2>4, LoginStays
<1>5. CASE Refuses(c)
  BY <1>4, <1>5, HubAtRest DEF Refuses
<1>6. CASE ArriveTravel(c)
  BY <1>1, <1>2, <1>4, <1>6, ArrivesLogin, OthersArrive
<1>7. CASE SubmitTravel(c)
  <2>1. c.op = "submit" /\ c \in SubmitCall
    BY <1>1, <1>7 DEF SubmitTravel, TravelInd, HubInd, HubTypeOK, Call, SubmitCall, ReportCall
  <2>2. c.player # p
    BY <1>1, <2>1 DEF LoginOf, DeparturesAwaited, Awaited
  <2>3. PICK k : k = nextId
    OBVIOUS
  <2>4. /\ travel \in [Id -> Row \cup {NoRow}] /\ loc \in [Player -> Location \cup {NoRow}]
        /\ k \in Id /\ travel[k] = NoRow
    BY <1>7, <2>3 DEF SubmitTravel, TravelInd, HubInd, HubTypeOK, IdsAreFresh, Id
  <2>. DEFINE row == [player |-> c.player, from |-> c.from, dest |-> c.dest,
                      snap |-> c.snap, status |-> "pending"]
  <2>5. travel' = [travel EXCEPT ![k] = row] /\ row.player = c.player
    BY <1>7, <2>3 DEF SubmitTravel, Departs
  <2>6. loc'[p] = loc[p]
    BY <1>7, <2>2, <2>4 DEF SubmitTravel, Departs
  <2>. HIDE DEF row
  <2>7. SameJourneys(p)
    BY <2>2, <2>4, <2>5, <2>6 DEF SameJourneys
  <2>. QED
    BY <1>4, <2>7
<1>. QED
  BY <1>1, <1>3, <1>5, <1>6, <1>7 DEF Transaction

-----------------------------------------------------------------------------
(* The invariant of logins. *)

\* Everybody is active at home.
LEMMA LoginInvInit == Init => LoginInv
<1>. SUFFICES ASSUME Init PROVE LoginInv
  OBVIOUS
<1>1. calls = {} /\ travel = [i \in Id |-> NoRow] /\ loc = [p \in Player |-> NoRow]
  BY DEF Init, HubInit
<1>2. \A t \in Session, p \in Player : ~LoggedIn(t, p)
  BY DEF Init, LoggedIn
<1>3. \A i \in Id : ~Pending(i)
  BY <1>1 DEF Pending, NoRow
<1>4. ASSUME NEW p \in Player
      PROVE  PlaysOnce(p) /\ CarriesActive(p) /\ LockedIsGone(p) /\ DeparturesAwaited(p)
  BY <1>1, <1>2 DEF PlaysOnce, CarriesActive, LockedIsGone, DeparturesAwaited
<1>5. ASSUME NEW p \in Player PROVE UsableWhereLocated(p) /\ UsableWhereImported(p)
  <2>1. CurrentNode(p) = Home[p] /\ Home[p] \in Node
    BY <1>1 DEF CurrentNode
  <2>. DEFINE new == [status |-> "active"]
  <2>2. new.status = "active"
    OBVIOUS
  <2>3. char = [n \in Node |-> [r \in Player |-> IF Home[r] = n THEN new ELSE NoRow]]
    BY DEF Init
  <2>. HIDE DEF new
  <2>4. char[Home[p]][p] = new
    BY <2>1, <2>3
  <2>. QED
    BY <1>3, <2>1, <2>2, <2>4 DEF UsableWhereLocated, UsableWhereImported, Usable
<1>. QED
  BY <1>4, <1>5 DEF LoginInv, LoginOf

\* Nobody who went astray comes back.
LEMMA AstrayStays ==
    ASSUME Next PROVE astray \subseteq astray'
<1>1. ASSUME NEW s \in Session,
             \/ \E n \in Node, p \in Player : Login(s, n, p)
             \/ Logout(s)
             \/ \E d \in Node : ExportPlayer(s, d)
             \/ TravelFn(s) \/ MarkFails(s) \/ SubmitLost(s) \/ UndoFails(s)
      PROVE  astray \subseteq astray'
  BY <1>1 DEF Login, Logout, ExportPlayer, TravelFn, MarkTraveling, Submit, SubmitRejected,
     SubmitAccepted, SubmitRefused, UndoTraveling, MarkFails, SubmitLost, UndoFails
<1>2. ASSUME NEW n \in Node,
             Drain(n) \/ ArrivalLost(n) \/ ImportFails(n) \/ ImportHomeFails(n) \/ Crash(n)
      PROVE  astray \subseteq astray'
  BY <1>2 DEF Drain, DrainFetches, DrainEnds, ImportPlayer, ImportClashes, ImportState, ImportHome,
     ReportArrival, ReportsFrom, ArrivalAnswered, ArrivalLost, ImportFails, ImportHomeFails, Crash
<1>3. CASE FinishAbandoned
  BY <1>3 DEF FinishAbandoned, nodeVars
<1>. QED
  BY <1>1, <1>2, <1>3 DEF Next

\* LoginInv is inductive, relative to TravelInd.
LEMMA LoginInvNext == TravelInd /\ LoginInv /\ [Next]_travelVars => LoginInv'
<1>1. ASSUME TravelInd, LoginInv, UNCHANGED travelVars PROVE LoginInv'
  <2>1. UNCHANGED <<travel, loc, calls, char, sess, tick, astray>>
    BY <1>1 DEF travelVars, hubTravelVars, nodeVars
  <2>2. ASSUME NEW p \in Player, LoginOf(p) PROVE LoginOf(p)'
    <3>1. PlaysOnce(p)' /\ CarriesActive(p)' /\ DeparturesAwaited(p)'
      BY <2>1, <2>2 DEF LoginOf, PlaysOnce, CarriesActive, DeparturesAwaited, LoggedIn
    <3>2. LockedIsGone(p)'
      BY <2>1, <2>2 DEF LoginOf, LockedIsGone, LoggedIn, Gone, Pending, CurrentNode
    <3>3. UsableWhereLocated(p)' /\ UsableWhereImported(p)'
      BY <2>1, <2>2 DEF LoginOf, UsableWhereLocated, UsableWhereImported, Usable, InDeparture, LoggedIn,
         Importing, Pending, CurrentNode
    <3>. QED
      BY <3>1, <3>2, <3>3 DEF LoginOf
  <2>. QED
    BY <1>1, <2>1, <2>2 DEF LoginInv
<1>2. ASSUME TravelInd, LoginInv, Next, NEW p \in Player, p \notin astray'
      PROVE  LoginOf(p)'
  <2>1. LoginOf(p)
    BY <1>2, AstrayStays DEF LoginInv
  <2>2. ASSUME NEW s \in Session,
               \/ \E n \in Node, q \in Player : Login(s, n, q)
               \/ Logout(s)
               \/ \E d \in Node : ExportPlayer(s, d)
        PROVE  LoginOf(p)'
    BY <1>2, <2>1, <2>2, MenuLogin
  <2>3. ASSUME NEW s \in Session, TravelFn(s) \/ MarkFails(s) \/ SubmitLost(s) \/ UndoFails(s)
        PROVE  LoginOf(p)'
    BY <1>2, <2>1, <2>3, TravelFnLogin, AcceptedLogin DEF TravelFn
  <2>4. ASSUME NEW n \in Node, Drain(n) \/ ArrivalLost(n) \/ ImportFails(n) \/ ImportHomeFails(n)
        PROVE  LoginOf(p)'
    BY <1>2, <2>1, <2>4, DrainLogin, AnsweredLogin
  <2>5. ASSUME NEW n \in Node, Crash(n) PROVE LoginOf(p)'
    BY <1>2, <2>1, <2>5, CrashLogin
  <2>6. CASE FinishAbandoned
    BY <1>2, <2>1, <2>6, AbandonedLogin
  <2>. QED
    BY <1>2, <2>2, <2>3, <2>4, <2>5, <2>6 DEF Next
<1>3. ASSUME TravelInd, LoginInv, Next PROVE LoginInv'
  BY <1>2, <1>3 DEF LoginInv
<1>. QED
  BY <1>1, <1>3

\* Once everything has come to rest, a player can log in where the hub locates
\* the player, whatever failed: the checks of SubmitTravel keep a session that
\* stays at the origin's menu from departing with a locked character, and every
\* departure that fails is undone.  Excepted is who was on two terminals at
\* once, who was departing when the node stopped, whose departure was given up
\* while the hub had the request, and whose refused departure could not be
\* undone.
THEOREM TravelersCanLogin == Spec => []CanLoginWhereLocated
<1>1. TravelInd /\ LoginInv => CanLoginWhereLocated
  <2>. SUFFICES ASSUME TravelInd, LoginInv, Quiet, NEW p \in Player \ astray
                PROVE  char[CurrentNode(p)][p].status = "active"
    BY DEF CanLoginWhereLocated
  <2>1. Usable(CurrentNode(p), p)
    BY DEF LoginInv, LoginOf, UsableWhereLocated, Quiet
  <2>2. \A t \in Session : ~InDeparture(t, p, CurrentNode(p))
    BY DEF InDeparture, Quiet
  <2>. QED
    BY <2>1, <2>2 DEF Usable
<1>2. Spec => [](TravelInd /\ LoginInv)
  BY TravelIndInit, TravelIndNext, LoginInvInit, LoginInvNext, PTL DEF Spec
<1>. QED
  BY <1>1, <1>2, PTL

=============================================================================
