--------------------------- MODULE EventSyncProof ---------------------------
(***************************************************************************)
(* Proofs about EventSync: the inductive invariant, the properties that    *)
(* follow from it, and that the protocol implements ReplicatedLog.         *)
(***************************************************************************)
EXTENDS EventSyncRefinement, FiniteSetTheorems, TLAPS

-----------------------------------------------------------------------------
(* Type correctness. *)

\* The handlers of an event are a set of naturals.
LEMMA HandlersOfType ==
    ASSUME NEW e \in EventId
    PROVE  /\ HandlersOf(e) \subseteq Nat
           /\ \A i \in HandlersOf(e) : <<e, i>> \in HandlerKey
<1>1. Event[e[1]][e[2]].type \in Types
  BY EventAssumption DEF EventId
<1>2. Handlers[Event[e[1]][e[2]].type] \in Nat
  BY <1>1, EventAssumption
<1>3. HandlersOf(e) \subseteq Nat
  BY <1>2 DEF HandlersOf
<1>4. ASSUME NEW i \in HandlersOf(e)
      PROVE  <<e, i>> \in HandlerKey
  <2>1. <<e, i>> \in {e} \X HandlersOf(e)
    OBVIOUS
  <2>. QED
    BY <2>1 DEF HandlerKey
<1>. QED
  BY <1>3, <1>4

\* Serving a row keeps requests, feed and Ledger well typed.
LEMMA ServeRowType ==
    ASSUME TypeOK, NEW n \in Node, NEW r \in Request, NEW s \in Seqs, ServeRow(n, r, s)
    PROVE  /\ Served(r, s) \in Request
           /\ feed' \in Seq(EventId)
           /\ ledger' \in [Obligation -> Debt]
<1>1. Served(r, s) \in Request
  BY DEF Served, Request
<1>2. feed' \in Seq(EventId)
  BY DEF ServeRow, Appended, TypeOK, EventId
<1>3. ledger' \in [Obligation -> Debt]
  <2>1. Event[n][s] \in [type : Types, ob : Obligation, weight : Nat]
    BY EventAssumption
  <2>2. ledger[Event[n][s].ob] \in Debt
    BY <2>1 DEF TypeOK
  <2>3. Materialized(Event[n][s]) \in [Obligation -> Debt]
    BY <2>1, <2>2 DEF TypeOK, Debt, Materialized
  <2>. QED
    BY <2>3 DEF ServeRow, TypeOK
<1>. QED
  BY <1>1, <1>2, <1>3

LEMMA InitType == Init => TypeOK
<1>1. \A k \in HandlerKey : 0 \in Nat
  OBVIOUS
<1>. QED
  BY BoundsAssumption DEF Init, TypeOK, Request, NoRequest, Debt

LEMMA NextType == IndInv /\ [Next]_vars => TypeOK'
<1>. SUFFICES ASSUME TypeOK, PageFollowsCursor, HandlingInProgress, [Next]_vars
              PROVE  TypeOK'
  BY DEF IndInv
<1>. USE BoundsAssumption DEF Seqs
<1>1. ASSUME NEW n \in Node, Emit(n) PROVE TypeOK'
  BY <1>1 DEF Emit, TypeOK, tickVars, hubVars
<1>2. ASSUME NEW n \in Node, EmitFails(n) PROVE TypeOK'
  BY <1>2 DEF EmitFails, Fault, TypeOK, diskVars, tickVars, hubVars
<1>3. ASSUME NEW n \in Node, TickNothingToPush(n) PROVE TypeOK'
  <2>1. pc' \in [Node -> {"idle", "push", "pull", "apply", "handle", "mark", "down"}]
    BY <1>3 DEF TickNothingToPush, TypeOK
  <2>2. UNCHANGED <<diskVars, seq, live, page, hidx, zombies, hubVars, runs, faults>>
    BY <1>3 DEF TickNothingToPush
  <2>. QED
    BY <2>1, <2>2 DEF TypeOK, diskVars, hubVars
<1>4. ASSUME NEW n \in Node, TickPush(n) PROVE TypeOK'
  <2>0. log[n] \in SUBSET Seqs /\ live \in [Node -> Request]
        /\ pc \in [Node -> {"idle", "push", "pull", "apply", "handle", "mark", "down"}]
    BY DEF TypeOK
  <2>1. PICK top \in EventsSince(n), mat \in SUBSET EventsSince(n) :
          live' = [live EXCEPT ![n] = [todo |-> EventsSince(n), mat |-> mat, top |-> top]]
    BY <1>4 DEF TickPush
  <2>2. EventsSince(n) \subseteq Seqs /\ top \in 0..MaxSeq
    BY <2>0, <2>1 DEF EventsSince
  <2>3. [todo |-> EventsSince(n), mat |-> mat, top |-> top] \in Request
    BY <2>1, <2>2 DEF Request
  <2>4. live' \in [Node -> Request]
    BY <2>0, <2>1, <2>3
  <2>5. pc' \in [Node -> {"idle", "push", "pull", "apply", "handle", "mark", "down"}]
    BY <1>4, <2>0 DEF TickPush
  <2>6. UNCHANGED <<diskVars, seq, page, hidx, zombies, hubVars, runs, faults>>
    BY <1>4 DEF TickPush
  <2>. QED
    BY <2>4, <2>5, <2>6 DEF TypeOK, diskVars, hubVars
<1>5. ASSUME NEW n \in Node, PushAcked(n) PROVE TypeOK'
  <2>1. live[n].top \in 0..MaxSeq
    BY DEF TypeOK, Request
  <2>2. NoRequest \in Request
    BY DEF Request, NoRequest
  <2>3. pushCur' \in [Node -> 0..MaxSeq] /\ live' \in [Node -> Request]
    BY <1>5, <2>1, <2>2 DEF PushAcked, AckedAt, TypeOK
  <2>. QED
    BY <1>5, <2>3 DEF PushAcked, AckedAt, TypeOK, hubVars
<1>6. ASSUME NEW n \in Node, HubServes(n) PROVE TypeOK'
  <2>1. PICK s \in Seqs : ServeRow(n, live[n], s) /\ live' = [live EXCEPT ![n] = Served(@, s)]
    BY <1>6 DEF HubServes
  <2>2. live[n] \in Request
    BY DEF TypeOK
  <2>. QED
    BY <1>6, <2>1, <2>2, ServeRowType DEF HubServes, TypeOK, diskVars
<1>7. ASSUME NEW n \in Node, HubServesZombie(n) PROVE TypeOK'
  <2>1. PICK z \in zombies[n], s \in Seqs :
          /\ ServeRow(n, z, s)
          /\ zombies' = [zombies EXCEPT ![n] = (@ \ {z}) \cup Unfinished({Served(z, s)})]
    BY <1>7 DEF HubServesZombie
  <2>2. z \in Request
    BY DEF TypeOK
  <2>3. Unfinished({Served(z, s)}) \subseteq Request
    BY <2>1, <2>2, ServeRowType DEF Unfinished
  <2>. QED
    BY <1>7, <2>1, <2>2, <2>3, ServeRowType DEF HubServesZombie, TypeOK, diskVars, tickVars
<1>8. ASSUME NEW n \in Node, Pull(n) PROVE TypeOK'
  BY <1>8 DEF Pull, FeedSince, Eligible, TypeOK, diskVars, hubVars
<1>9. ASSUME NEW n \in Node, ApplyStores(n) PROVE TypeOK'
  <2>1. PICK i \in page[n] : stored' = [stored EXCEPT ![n] = @ \cup {feed[i]}]
    BY <1>9 DEF ApplyStores
  <2>2. feed[i] \in EventId
    BY DEF PageFollowsCursor, TypeOK
  <2>. QED
    BY <1>9, <2>1, <2>2 DEF ApplyStores, TypeOK, hubVars
<1>10. ASSUME NEW n \in Node, HandlerSkipped(n) PROVE TypeOK'
  <2>1. hidx' \in [Node -> Nat]
    BY <1>10 DEF HandlerSkipped, TypeOK
  <2>2. UNCHANGED <<diskVars, seq, pc, live, page, zombies, hubVars, runs, faults>>
    BY <1>10 DEF HandlerSkipped
  <2>. QED
    BY <2>1, <2>2 DEF TypeOK, hubVars, diskVars
<1>11. ASSUME NEW n \in Node, HandlerRuns(n) PROVE TypeOK'
  <2>0. PICK i \in page[n] :
          /\ hidx[n] \in HandlersOf(feed[i])
          /\ runs' = [runs EXCEPT ![n][<<feed[i], hidx[n]>>] = @ + 1]
    BY <1>11 DEF HandlerRuns
  <2>. DEFINE k == <<feed[i], hidx[n]>>
  <2>1. k \in HandlerKey
    BY <2>0, HandlersOfType DEF PageFollowsCursor, TypeOK
  <2>. HIDE DEF k
  <2>2. runs[n] \in [HandlerKey -> Nat]
    BY DEF TypeOK
  <2>3. [runs[n] EXCEPT ![k] = @ + 1] \in [HandlerKey -> Nat]
    BY <2>1, <2>2
  <2>4. runs' \in [Node -> [HandlerKey -> Nat]]
    BY <2>0, <2>3 DEF TypeOK, k
  <2>. QED
    BY <1>11, <2>4 DEF HandlerRuns, TypeOK, hubVars, diskVars
<1>12. ASSUME NEW n \in Node, MarkHandler(n) PROVE TypeOK'
  <2>1. PICK i \in page[n] :
          /\ Least(i, page[n])
          /\ applied' = [applied EXCEPT ![n] = @ \cup {<<feed[i], hidx[n]>>}]
    BY <1>12 DEF MarkHandler
  <2>2. page[n] \subseteq Int
    BY DEF TypeOK
  <2>3. hidx[n] \in HandlersOf(feed[i])
    BY <1>12, <2>1, <2>2 DEF HandlingInProgress, MarkHandler, Least
  <2>4. feed[i] \in EventId
    BY DEF PageFollowsCursor, TypeOK
  <2>5. <<feed[i], hidx[n]>> \in HandlerKey
    BY <2>3, <2>4, HandlersOfType
  <2>6. applied' \in [Node -> SUBSET HandlerKey]
    BY <2>1, <2>5 DEF TypeOK
  <2>. QED
    BY <1>12, <2>6 DEF MarkHandler, TypeOK, hubVars
<1>13. ASSUME NEW n \in Node, SetHubCursor(n) PROVE TypeOK'
  BY <1>13 DEF SetHubCursor, CursorSet, TypeOK, hubVars
<1>14. ASSUME NEW n \in Node, TickEnds(n) PROVE TypeOK'
  BY <1>14 DEF TickEnds, TypeOK, hubVars, diskVars
<1>15. ASSUME NEW n \in Node, TickAborts(n) PROVE TypeOK'
  BY <1>15 DEF TickAborts, StopTick, Abandoned, Unfinished, Fault, TypeOK, hubVars, diskVars, Request, NoRequest
<1>16. ASSUME NEW n \in Node, Crash(n) PROVE TypeOK'
  BY <1>16 DEF Crash, StopTick, Abandoned, Unfinished, Fault, TypeOK, hubVars, diskVars, Request, NoRequest
<1>17. ASSUME NEW n \in Node, Restart(n) PROVE TypeOK'
  BY <1>17 DEF Restart, RestartedWith, TypeOK, hubVars, diskVars
<1>18. CASE UNCHANGED vars
  BY <1>18 DEF vars, TypeOK
<1>. QED
  BY <1>1, <1>2, <1>3, <1>4, <1>5, <1>6, <1>7, <1>8, <1>9, <1>10, <1>11, <1>12, <1>13,
     <1>14, <1>15, <1>16, <1>17, <1>18 DEF Next, Sync

-----------------------------------------------------------------------------
(* How one step changes the logs and the feed. *)

\* Serving a row appends at most that row, and only when it was missing and
\* everything before it in its source's log is already in the feed.
LEMMA ServeRowFeed ==
    ASSUME IndInv, NEW n \in Node, NEW r \in zombies[n] \cup {live[n]},
           NEW s \in Seqs, ServeRow(n, r, s)
    PROVE  \/ feed' = feed
           \/ /\ feed' = Append(feed, <<n, s>>)
              /\ ~InFeed(<<n, s>>)
              /\ s \in log[n]
              /\ \A u \in log[n] : u < s => InFeed(<<n, u>>)
<1>1. CASE r.todo = {}
  BY <1>1 DEF ServeRow
<1>2. CASE r.todo # {}
  <2>1. s \in r.todo /\ \A u \in r.todo : s <= u
    BY <1>2 DEF ServeRow, NextRow, Least
  <2>2. s \in log[n] /\ \A u \in log[n] : u < s => u \in r.todo \/ InFeed(<<n, u>>)
    BY <2>1 DEF IndInv, RequestsLeaveNoHole
  <2>3. log[n] \subseteq Int /\ s \in Int
    BY BoundsAssumption DEF IndInv, TypeOK, Seqs
  <2>4. \A u \in log[n] : u < s => InFeed(<<n, u>>)
    BY <2>1, <2>2, <2>3
  <2>. QED
    BY <1>2, <2>2, <2>4 DEF ServeRow, Appended
<1>. QED
  BY <1>1, <1>2

\* Only Emit adds to a log, and only the hub's appends add to the feed.
LogAndFeedStep ==
    \/ log' = log /\ feed' = feed
    \/ /\ feed' = feed
       /\ \E n \in Node :
            /\ pc[n] # "down"
            /\ seq[n] + 1 \in Seqs
            /\ log' = [log EXCEPT ![n] = @ \cup {seq[n] + 1}]
    \/ /\ log' = log
       /\ \E n \in Node : \E s \in log[n] :
            /\ feed' = Append(feed, <<n, s>>)
            /\ ~InFeed(<<n, s>>)
            /\ \A u \in log[n] : u < s => InFeed(<<n, u>>)

LEMMA StepOfLogAndFeed == IndInv /\ [Next]_vars => LogAndFeedStep
<1>. SUFFICES ASSUME IndInv, [Next]_vars
              PROVE  LogAndFeedStep
  OBVIOUS
<1>1. ASSUME NEW n \in Node, Emit(n) PROVE LogAndFeedStep
  <2>1. seq[n] \in 0..MaxSeq /\ seq[n] < MaxSeq /\ MaxSeq \in Nat
    BY <1>1, BoundsAssumption DEF Emit, IndInv, TypeOK
  <2>2. seq[n] + 1 \in Seqs
    BY <2>1 DEF Seqs
  <2>. QED
    BY <1>1, <2>2 DEF Emit, LogAndFeedStep, hubVars
<1>2. ASSUME NEW n \in Node, HubServes(n) PROVE LogAndFeedStep
  <2>1. PICK s \in Seqs : ServeRow(n, live[n], s)
    BY <1>2 DEF HubServes
  <2>2. log' = log
    BY <1>2 DEF HubServes, diskVars
  <2>. QED
    BY <2>1, <2>2, ServeRowFeed DEF LogAndFeedStep
<1>3. ASSUME NEW n \in Node, HubServesZombie(n) PROVE LogAndFeedStep
  <2>1. PICK z \in zombies[n], s \in Seqs : ServeRow(n, z, s)
    BY <1>3 DEF HubServesZombie
  <2>2. log' = log
    BY <1>3 DEF HubServesZombie, diskVars
  <2>. QED
    BY <2>1, <2>2, ServeRowFeed DEF LogAndFeedStep
<1>4. CASE log' = log /\ feed' = feed
  BY <1>4 DEF LogAndFeedStep
<1>. QED
  BY <1>1, <1>2, <1>3, <1>4
  DEF Next, Sync, EmitFails, TickNothingToPush, TickPush, PushAcked, AckedAt, Pull, ApplyStores,
      HandlerSkipped, HandlerRuns, MarkHandler, SetHubCursor, CursorSet, TickEnds, TickAborts, Crash,
      Restart, RestartedWith, vars, diskVars, hubVars

\* Rows of the feed keep their place.
LEMMA FeedGrows ==
    ASSUME TypeOK, LogAndFeedStep
    PROVE  /\ Len(feed') \in Nat /\ Len(feed) \in Nat
           /\ Len(feed) <= Len(feed')
           /\ \A i \in 1..Len(feed) : feed'[i] = feed[i]
           /\ \A e : InFeed(e) => InFeed(e)'
<1>1. feed \in Seq(EventId)
  BY DEF TypeOK
<1>2. CASE feed' = feed
  BY <1>1, <1>2 DEF InFeed
<1>3. ASSUME NEW n \in Node, NEW s \in log[n], feed' = Append(feed, <<n, s>>)
      PROVE  /\ Len(feed') \in Nat /\ Len(feed) \in Nat
             /\ Len(feed) <= Len(feed')
             /\ \A i \in 1..Len(feed) : feed'[i] = feed[i]
  <2>1. <<n, s>> \in EventId
    BY DEF TypeOK, EventId
  <2>. QED
    BY <1>1, <1>3, <2>1
<1>4. ASSUME NEW n \in Node, NEW s \in log[n], feed' = Append(feed, <<n, s>>), NEW e, InFeed(e)
      PROVE  InFeed(e)'
  BY <1>3, <1>4 DEF InFeed
<1>. QED
  BY <1>2, <1>3, <1>4 DEF LogAndFeedStep

-----------------------------------------------------------------------------
(* The feed: closed, in source order and free of duplicates. *)

LEMMA FeedStep ==
    IndInv /\ [Next]_vars => FeedIsClosed' /\ FeedHasNoDuplicates' /\ FeedInSourceOrder'
<1>. SUFFICES ASSUME IndInv, [Next]_vars
              PROVE  FeedIsClosed' /\ FeedHasNoDuplicates' /\ FeedInSourceOrder'
  OBVIOUS
<1>. USE DEF IndInv
<1>0. feed \in Seq(EventId) /\ Len(feed) \in Nat /\ \A n \in Node : log[n] \subseteq Int
  BY BoundsAssumption DEF TypeOK, Seqs
<1>1. CASE log' = log /\ feed' = feed
  BY <1>1 DEF FeedIsClosed, FeedHasNoDuplicates, FeedInSourceOrder, InFeed
<1>2. ASSUME NEW n \in Node, pc[n] # "down", feed' = feed,
             log' = [log EXCEPT ![n] = @ \cup {seq[n] + 1}]
      PROVE  FeedIsClosed' /\ FeedHasNoDuplicates' /\ FeedInSourceOrder'
  <2>1. \A s \in log[n] : s <= seq[n]
    BY <1>2 DEF CountersFollowLog
  <2>2. ASSUME NEW i \in 1..Len(feed)
        PROVE  /\ feed[i][2] \in log'[feed[i][1]]
               /\ \A s \in log'[feed[i][1]] : s < feed[i][2] => InFeed(<<feed[i][1], s>>)
    <3>1. feed[i] \in EventId /\ feed[i][1] \in Node
      BY <1>0 DEF EventId
    <3>2. feed[i][2] \in log[feed[i][1]]
      BY DEF FeedIsClosed
    <3>3. \A s \in log[feed[i][1]] : s < feed[i][2] => InFeed(<<feed[i][1], s>>)
      BY DEF FeedIsClosed
    <3>4. feed[i][1] = n => ~(seq[n] + 1 < feed[i][2])
      BY <2>1, <3>2, <1>0, BoundsAssumption DEF TypeOK
    <3>. QED
      BY <1>2, <3>1, <3>2, <3>3, <3>4 DEF TypeOK
  <2>3. FeedIsClosed'
    BY <1>2, <2>2 DEF FeedIsClosed, InFeed
  <2>. QED
    BY <1>2, <2>3 DEF FeedHasNoDuplicates, FeedInSourceOrder
<1>3. ASSUME NEW n \in Node, NEW s \in log[n], log' = log,
             feed' = Append(feed, <<n, s>>), ~InFeed(<<n, s>>),
             \A u \in log[n] : u < s => InFeed(<<n, u>>)
      PROVE  FeedIsClosed' /\ FeedHasNoDuplicates' /\ FeedInSourceOrder'
  <2>0. log' = log /\ s \in log[n] /\ \A u \in log[n] : u < s => InFeed(<<n, u>>)
    BY <1>3
  <2>1. LogAndFeedStep
    BY <1>3 DEF LogAndFeedStep
  <2>2. \A e : InFeed(e) => InFeed(e)'
    BY <2>1, FeedGrows
  <2>3. <<n, s>> \in EventId
    BY DEF TypeOK, EventId
  <2>4. /\ Len(feed') = Len(feed) + 1
        /\ feed'[Len(feed) + 1] = <<n, s>>
        /\ \A i \in 1..Len(feed) : feed'[i] = feed[i]
    BY <1>0, <1>3, <2>3
  <2>5. \A i \in 1..Len(feed)' : i = Len(feed) + 1 \/ i \in 1..Len(feed)
    BY <1>0, <2>4
  <2>6. FeedIsClosed'
    <3>1. ASSUME NEW i \in 1..Len(feed)
          PROVE  (/\ feed[i][2] \in log[feed[i][1]]
                  /\ \A u \in log[feed[i][1]] : u < feed[i][2] => InFeed(<<feed[i][1], u>>))'
      <4>1. /\ feed[i][2] \in log[feed[i][1]]
            /\ \A u \in log[feed[i][1]] : u < feed[i][2] => InFeed(<<feed[i][1], u>>)
        BY DEF FeedIsClosed
      <4>2. \A u : InFeed(<<feed[i][1], u>>) => \E k \in 1..Len(feed') : feed'[k] = <<feed[i][1], u>>
        BY <2>2 DEF InFeed
      <4>. QED
        BY <2>0, <2>4, <4>1, <4>2 DEF InFeed
    <3>2. ASSUME NEW i \in 1..Len(feed'), i = Len(feed) + 1
          PROVE  (/\ feed[i][2] \in log[feed[i][1]]
                  /\ \A u \in log[feed[i][1]] : u < feed[i][2] => InFeed(<<feed[i][1], u>>))'
      <4>1. \A u : InFeed(<<n, u>>) => \E k \in 1..Len(feed') : feed'[k] = <<n, u>>
        BY <2>2 DEF InFeed
      <4>2. feed'[i][1] = n /\ feed'[i][2] = s
        BY <2>4, <3>2
      <4>. QED
        BY <2>0, <4>1, <4>2 DEF InFeed
    <3>. QED
      BY <2>5, <3>1, <3>2 DEF FeedIsClosed
  <2>7. \A i \in 1..Len(feed) : feed[i] # <<n, s>>
    BY <1>3 DEF InFeed
  <2>8. FeedHasNoDuplicates'
    BY <1>0, <2>4, <2>5, <2>7 DEF FeedHasNoDuplicates
  <2>9. ASSUME NEW i \in 1..Len(feed), feed[i][1] = n
        PROVE  feed[i][2] < s
    <3>1. feed[i][2] \in log[n]
      BY <2>9 DEF FeedIsClosed
    <3>2. feed[i] = <<n, feed[i][2]>>
      BY <1>0, <2>9 DEF EventId
    <3>3. feed[i][2] # s
      BY <2>7, <3>2
    <3>4. ~(s < feed[i][2])
      BY <1>3, <2>9 DEF FeedIsClosed
    <3>. QED
      BY <1>0, <3>1, <3>3, <3>4
  <2>10. FeedInSourceOrder'
    <3>1. ASSUME NEW i \in 1..Len(feed), NEW j \in 1..Len(feed), feed[i][1] = feed[j][1], i < j
          PROVE  feed[i][2] < feed[j][2]
      BY <3>1 DEF FeedInSourceOrder
    <3>. QED
      BY <1>0, <2>4, <2>5, <2>9, <3>1 DEF FeedInSourceOrder
  <2>. QED
    BY <2>6, <2>8, <2>10
<1>. QED
  BY <1>1, <1>2, <1>3, StepOfLogAndFeed DEF LogAndFeedStep

-----------------------------------------------------------------------------
(* The push side: counters, requests and the push cursor. *)

PushInv == CountersFollowLog /\ RequestsLeaveNoHole /\ LiveRequestCovers /\ PushedIsInFeed

\* What the pull side of a Tick leaves alone.
PushSideUnchanged ==
    /\ UNCHANGED <<log, seq, pushCur, live, zombies, feed>>
    /\ \A m \in Node : /\ pc'[m] = "push" <=> pc[m] = "push"
                       /\ pc'[m] = "down" <=> pc[m] = "down"

LEMMA PullActionsKeepPushSide ==
    ASSUME TypeOK, NEW n \in Node,
           \/ TickNothingToPush(n) \/ Pull(n) \/ ApplyStores(n) \/ HandlerSkipped(n)
           \/ HandlerRuns(n) \/ MarkHandler(n) \/ SetHubCursor(n) \/ TickEnds(n)
    PROVE  PushSideUnchanged
BY DEF TickNothingToPush, Pull, ApplyStores, HandlerSkipped, HandlerRuns, MarkHandler,
       SetHubCursor, CursorSet, TickEnds, PushSideUnchanged, TypeOK, diskVars, hubVars

\* A served row leaves the rest of its request without a hole.
LEMMA ServedLeavesNoHole ==
    ASSUME IndInv, LogAndFeedStep, log' = log,
           NEW n \in Node, NEW r \in zombies[n] \cup {live[n]}, NEW s \in Seqs,
           ServeRow(n, r, s)
    PROVE  /\ Served(r, s).todo \subseteq r.todo
           /\ Served(r, s).top = r.top
           /\ \A u \in r.todo : u \in Served(r, s).todo \/ InFeed(<<n, u>>)'
<1>. r \in Request
  BY DEF IndInv, TypeOK
<1>1. Served(r, s).todo \subseteq r.todo /\ Served(r, s).top = r.top
  BY DEF Served, Request
<1>2. ASSUME NEW u \in r.todo, u \notin Served(r, s).todo
      PROVE  InFeed(<<n, u>>)'
  <2>1. r.todo # {} /\ u = s
    BY <1>2 DEF Served, Request
  <2>2. feed' = Appended(<<n, s>>)
    BY <2>1 DEF ServeRow
  <2>3. <<n, s>> \in EventId /\ feed \in Seq(EventId)
    BY DEF EventId, IndInv, TypeOK
  <2>4. CASE InFeed(<<n, s>>)
    BY <2>1, <2>2, <2>4 DEF Appended, InFeed
  <2>5. CASE ~InFeed(<<n, s>>)
    <3>1. feed' = Append(feed, <<n, s>>)
      BY <2>2, <2>5 DEF Appended
    <3>2. Len(feed') = Len(feed) + 1 /\ feed'[Len(feed) + 1] = <<n, s>> /\ Len(feed) \in Nat
      BY <2>3, <3>1
    <3>. QED
      BY <2>1, <3>2 DEF InFeed
  <2>. QED
    BY <2>4, <2>5
<1>. QED
  BY <1>1, <1>2

LEMMA PushStep == IndInv /\ [Next]_vars => PushInv'
<1>. SUFFICES ASSUME IndInv, [Next]_vars
              PROVE  PushInv'
  OBVIOUS
<1>. USE DEF IndInv
<1>a. LogAndFeedStep
  BY StepOfLogAndFeed
<1>b. \A e : InFeed(e) => InFeed(e)'
  BY <1>a, FeedGrows
<1>c. /\ \A n \in Node : log[n] \subseteq Int /\ seq[n] \in Int /\ pushCur[n] \in Int
      /\ \A n \in Node : live[n].top \in Int /\ live[n].todo \subseteq Int
      /\ \A n \in Node : \A r \in zombies[n] : r.todo \subseteq Int
      /\ \A n \in Node : pushCur[n] >= 0
  BY BoundsAssumption DEF TypeOK, Seqs, Request
<1>d. NoRequest.todo = {}
  BY DEF NoRequest
<1>1. CASE PushSideUnchanged
  <2>. /\ UNCHANGED <<log, seq, pushCur, live, zombies, feed>>
       /\ \A m \in Node : pc'[m] = "push" <=> pc[m] = "push"
       /\ \A m \in Node : pc'[m] = "down" <=> pc[m] = "down"
    BY <1>1 DEF PushSideUnchanged
  <2>1. CountersFollowLog'
    BY DEF CountersFollowLog
  <2>2. RequestsLeaveNoHole'
    BY <1>b DEF RequestsLeaveNoHole
  <2>3. LiveRequestCovers'
    BY <1>b DEF LiveRequestCovers
  <2>4. PushedIsInFeed'
    BY <1>b DEF PushedIsInFeed
  <2>. QED
    BY <2>1, <2>2, <2>3, <2>4 DEF PushInv
<1>2. ASSUME NEW n \in Node, Emit(n) PROVE PushInv'
  <2>1. /\ seq' = [seq EXCEPT ![n] = @ + 1] /\ log' = [log EXCEPT ![n] = @ \cup {seq[n] + 1}]
        /\ UNCHANGED <<pushCur, live, zombies, pc, feed>> /\ pc[n] # "down"
    BY <1>2 DEF Emit, tickVars, hubVars
  <2>2. \A s \in log[n] : s <= seq[n]
    BY <2>1 DEF CountersFollowLog
  <2>3. /\ log'[n] = log[n] \cup {seq[n] + 1} /\ seq'[n] = seq[n] + 1
        /\ \A m \in Node \ {n} : log'[m] = log[m] /\ seq'[m] = seq[m]
    BY <2>1 DEF TypeOK
  <2>4. CountersFollowLog'
    BY <1>c, <2>1, <2>2, <2>3 DEF CountersFollowLog
  <2>5. RequestsLeaveNoHole'
    BY <1>b, <1>c, <2>1, <2>2, <2>3 DEF RequestsLeaveNoHole
  <2>6. LiveRequestCovers'
    BY <1>b, <1>c, <2>1, <2>2, <2>3 DEF LiveRequestCovers
  <2>7. pushCur[n] < seq[n] + 1
    <3>1. pushCur[n] \in log[n] \cup {0}
      BY DEF CountersFollowLog
    <3>2. seq[n] >= 0
      BY BoundsAssumption DEF TypeOK
    <3>. QED
      BY <1>c, <2>2, <3>1, <3>2
  <2>8. PushedIsInFeed'
    BY <1>b, <1>c, <2>1, <2>3, <2>7 DEF PushedIsInFeed
  <2>. QED
    BY <2>4, <2>5, <2>6, <2>8 DEF PushInv
<1>3. ASSUME NEW n \in Node, EmitFails(n) PROVE PushInv'
  <2>1. /\ seq' = [seq EXCEPT ![n] = @ + 1]
        /\ UNCHANGED <<log, pushCur, live, zombies, pc, feed>>
    BY <1>3 DEF EmitFails, tickVars, hubVars, diskVars
  <2>2. CountersFollowLog'
    BY <1>c, <2>1 DEF CountersFollowLog, TypeOK
  <2>. QED
    BY <1>b, <2>1, <2>2 DEF PushInv, RequestsLeaveNoHole, LiveRequestCovers, PushedIsInFeed
<1>4. ASSUME NEW n \in Node, TickPush(n) PROVE PushInv'
  <2>1. PICK top \in EventsSince(n) :
          /\ Greatest(top, EventsSince(n))
          /\ live' = [live EXCEPT ![n] =
               [todo |-> EventsSince(n),
                mat |-> {s \in EventsSince(n) : Event[n][s].type \in DebtTypes},
                top |-> top]]
    BY <1>4 DEF TickPush
  <2>2. UNCHANGED <<log, seq, pushCur, zombies, feed>> /\ pc[n] = "idle" /\ pc' = [pc EXCEPT ![n] = "push"]
    BY <1>4 DEF TickPush, diskVars, hubVars
  <2>3. /\ live'[n].todo = EventsSince(n) /\ live'[n].top = top
        /\ \A m \in Node \ {n} : live'[m] = live[m]
    BY <2>1 DEF TypeOK
  <2>4. top \in log[n] /\ pushCur[n] < top /\ \A s \in log[n] : s > pushCur[n] => s \in EventsSince(n)
    BY <2>1 DEF EventsSince
  <2>5. \A s \in log[n] : ~(s > pushCur[n]) => InFeed(<<n, s>>)
    BY <1>c DEF PushedIsInFeed
  <2>6. \A s \in log[n] : s \in live'[n].todo \/ InFeed(<<n, s>>)'
    BY <1>b, <2>3, <2>4, <2>5
  <2>7. CountersFollowLog'
    BY <2>2 DEF CountersFollowLog, TypeOK
  <2>8. RequestsLeaveNoHole'
    <3>1. ASSUME NEW m \in Node \ {n}, NEW r \in zombies[m] \cup {live'[m]}
          PROVE  /\ r.todo \subseteq log[m]
                 /\ \A t \in r.todo : \A s \in log[m] : s < t => s \in r.todo \/ InFeed(<<m, s>>)'
      BY <1>b, <2>3 DEF RequestsLeaveNoHole
    <3>2. ASSUME NEW r \in zombies[n]
          PROVE  /\ r.todo \subseteq log[n]
                 /\ \A t \in r.todo : \A s \in log[n] : s < t => s \in r.todo \/ InFeed(<<n, s>>)'
      BY <1>b DEF RequestsLeaveNoHole
    <3>3. live'[n].todo \subseteq log[n]
      BY <2>3 DEF EventsSince
    <3>. QED
      BY <2>2, <2>6, <3>1, <3>2, <3>3 DEF RequestsLeaveNoHole
  <2>9. LiveRequestCovers'
    BY <1>b, <1>c, <2>2, <2>3, <2>4, <2>6 DEF LiveRequestCovers, TypeOK
  <2>10. PushedIsInFeed'
    BY <1>b, <2>2 DEF PushedIsInFeed
  <2>. QED
    BY <2>7, <2>8, <2>9, <2>10 DEF PushInv
<1>5. ASSUME NEW n \in Node, PushAcked(n) PROVE PushInv'
  <2>1. /\ pc[n] = "push" /\ live[n].todo = {}
        /\ pushCur' = [pushCur EXCEPT ![n] = live[n].top]
        /\ live' = [live EXCEPT ![n] = NoRequest]
        /\ pc' = [pc EXCEPT ![n] = "pull"]
        /\ UNCHANGED <<log, seq, zombies, feed>>
    BY <1>5 DEF PushAcked, AckedAt, hubVars
  <2>2. live'[n] = NoRequest /\ \A m \in Node \ {n} : live'[m] = live[m]
    BY <2>1 DEF TypeOK
  <2>3. CountersFollowLog'
    BY <2>1 DEF CountersFollowLog, LiveRequestCovers, TypeOK
  <2>4. RequestsLeaveNoHole'
    BY <1>b, <1>d, <2>1, <2>2 DEF RequestsLeaveNoHole
  <2>5. LiveRequestCovers'
    BY <1>b, <2>1, <2>2 DEF LiveRequestCovers, TypeOK
  <2>6. PushedIsInFeed'
    BY <1>b, <2>1 DEF PushedIsInFeed, LiveRequestCovers, TypeOK
  <2>. QED
    BY <2>3, <2>4, <2>5, <2>6 DEF PushInv
<1>6. ASSUME NEW n \in Node, HubServes(n) PROVE PushInv'
  <2>1. PICK s \in Seqs : ServeRow(n, live[n], s) /\ live' = [live EXCEPT ![n] = Served(@, s)]
    BY <1>6 DEF HubServes
  <2>2. UNCHANGED <<log, seq, pushCur, zombies, pc>>
    BY <1>6 DEF HubServes, diskVars
  <2>3. live'[n] = Served(live[n], s) /\ \A m \in Node \ {n} : live'[m] = live[m]
    BY <2>1 DEF TypeOK
  <2>4. /\ live'[n].todo \subseteq live[n].todo /\ live'[n].top = live[n].top
        /\ \A u \in live[n].todo : u \in live'[n].todo \/ InFeed(<<n, u>>)'
    BY <1>a, <2>1, <2>2, <2>3, ServedLeavesNoHole
  <2>5. RequestsLeaveNoHole'
    <3>1. ASSUME NEW m \in Node \ {n}, NEW r \in zombies[m] \cup {live'[m]}
          PROVE  /\ r.todo \subseteq log[m]
                 /\ \A t \in r.todo : \A u \in log[m] : u < t => u \in r.todo \/ InFeed(<<m, u>>)'
      BY <1>b, <2>3 DEF RequestsLeaveNoHole
    <3>2. ASSUME NEW r \in zombies[n]
          PROVE  /\ r.todo \subseteq log[n]
                 /\ \A t \in r.todo : \A u \in log[n] : u < t => u \in r.todo \/ InFeed(<<n, u>>)'
      BY <1>b DEF RequestsLeaveNoHole
    <3>3. /\ live'[n].todo \subseteq log[n]
          /\ \A t \in live'[n].todo : \A u \in log[n] :
               u < t => u \in live'[n].todo \/ InFeed(<<n, u>>)'
      BY <1>b, <2>4 DEF RequestsLeaveNoHole
    <3>. QED
      BY <2>2, <3>1, <3>2, <3>3 DEF RequestsLeaveNoHole
  <2>6. LiveRequestCovers'
    BY <1>6, <1>b, <2>2, <2>3, <2>4 DEF LiveRequestCovers, HubServes
  <2>. QED
    BY <1>b, <2>2, <2>5, <2>6 DEF PushInv, CountersFollowLog, PushedIsInFeed
<1>7. ASSUME NEW n \in Node, HubServesZombie(n) PROVE PushInv'
  <2>1. PICK z \in zombies[n], s \in Seqs :
          /\ ServeRow(n, z, s)
          /\ zombies' = [zombies EXCEPT ![n] = (@ \ {z}) \cup Unfinished({Served(z, s)})]
    BY <1>7 DEF HubServesZombie
  <2>2. UNCHANGED <<log, seq, pushCur, live, pc>>
    BY <1>7 DEF HubServesZombie, diskVars, tickVars
  <2>3. /\ zombies'[n] \subseteq zombies[n] \cup {Served(z, s)}
        /\ \A m \in Node \ {n} : zombies'[m] = zombies[m]
    BY <2>1 DEF TypeOK, Unfinished
  <2>4. /\ Served(z, s).todo \subseteq z.todo
        /\ \A u \in z.todo : u \in Served(z, s).todo \/ InFeed(<<n, u>>)'
    BY <1>a, <2>1, <2>2, ServedLeavesNoHole
  <2>5. RequestsLeaveNoHole'
    <3>1. ASSUME NEW m \in Node, NEW r \in zombies[m] \cup {live[m]}
          PROVE  /\ r.todo \subseteq log[m]
                 /\ \A t \in r.todo : \A u \in log[m] : u < t => u \in r.todo \/ InFeed(<<m, u>>)'
      BY <1>b DEF RequestsLeaveNoHole
    <3>2. /\ Served(z, s).todo \subseteq log[n]
          /\ \A t \in Served(z, s).todo : \A u \in log[n] :
               u < t => u \in Served(z, s).todo \/ InFeed(<<n, u>>)'
      BY <1>b, <2>4 DEF RequestsLeaveNoHole
    <3>. QED
      BY <2>2, <2>3, <3>1, <3>2 DEF RequestsLeaveNoHole
  <2>. QED
    BY <1>b, <2>2, <2>5 DEF PushInv, CountersFollowLog, PushedIsInFeed, LiveRequestCovers
<1>8. ASSUME NEW n \in Node, NEW where \in {"idle", "down"}, StopTick(n, where),
             where = "idle" => pc[n] # "down" /\ seq' = seq,
             \A m \in Node \ {n} : seq'[m] = seq[m],
             UNCHANGED <<log, pushCur, feed>>
      PROVE  PushInv'
  <2>1. /\ pc' = [pc EXCEPT ![n] = where]
        /\ live' = [live EXCEPT ![n] = NoRequest]
        /\ zombies' = [zombies EXCEPT ![n] = zombies[n] \cup Unfinished({live[n]})]
    BY <1>8 DEF StopTick, Abandoned
  <2>2. /\ \A m \in Node : zombies'[m] \subseteq zombies[m] \cup {live[m]}
        /\ live'[n] = NoRequest
        /\ \A m \in Node \ {n} : live'[m] = live[m] /\ pc'[m] = pc[m]
        /\ pc'[n] = where
    BY <2>1 DEF TypeOK, Unfinished
  <2>3. CountersFollowLog'
    BY <1>8, <2>2 DEF CountersFollowLog
  <2>4. RequestsLeaveNoHole'
    <3>1. ASSUME NEW m \in Node, NEW r \in zombies[m] \cup {live[m]}
          PROVE  /\ r.todo \subseteq log[m]
                 /\ \A t \in r.todo : \A u \in log[m] : u < t => u \in r.todo \/ InFeed(<<m, u>>)'
      BY <1>b DEF RequestsLeaveNoHole
    <3>2. \A m \in Node : \A r \in zombies'[m] \cup {live'[m]} :
             r \in zombies[m] \cup {live[m]} \/ r = NoRequest
      BY <2>2
    <3>. QED
      BY <1>8, <1>d, <3>1, <3>2 DEF RequestsLeaveNoHole
  <2>5. LiveRequestCovers'
    BY <1>8, <1>b, <2>2 DEF LiveRequestCovers
  <2>. QED
    BY <1>8, <1>b, <2>3, <2>4, <2>5 DEF PushInv, PushedIsInFeed
<1>9. ASSUME NEW n \in Node, TickAborts(n) PROVE PushInv'
  BY <1>8, <1>9 DEF TickAborts, diskVars, hubVars
<1>10. ASSUME NEW n \in Node, Crash(n) PROVE PushInv'
  <2>1. \A m \in Node \ {n} : seq'[m] = seq[m]
    BY <1>10 DEF Crash, TypeOK
  <2>. QED
    BY <1>8, <1>10, <2>1 DEF Crash, diskVars, hubVars
<1>11. ASSUME NEW n \in Node, Restart(n) PROVE PushInv'
  <2>1. PICK m \in log[n] \cup {0} :
          Greatest(m, log[n] \cup {0}) /\ seq' = [seq EXCEPT ![n] = m]
    BY <1>11 DEF Restart, RestartedWith
  <2>2. /\ pc[n] = "down" /\ pc' = [pc EXCEPT ![n] = "idle"]
        /\ UNCHANGED <<log, pushCur, live, zombies, feed>>
    BY <1>11 DEF Restart, RestartedWith, hubVars, TypeOK
  <2>3. CountersFollowLog'
    BY <2>1, <2>2 DEF CountersFollowLog, Greatest, TypeOK
  <2>. QED
    BY <1>b, <2>2, <2>3
    DEF PushInv, RequestsLeaveNoHole, LiveRequestCovers, PushedIsInFeed, TypeOK
<1>12. CASE UNCHANGED vars
  BY <1>1, <1>12 DEF vars, PushSideUnchanged
<1>. QED
  BY <1>1, <1>2, <1>3, <1>4, <1>5, <1>6, <1>7, <1>9, <1>10, <1>11, <1>12,
     PullActionsKeepPushSide DEF Next, Sync

-----------------------------------------------------------------------------
(* The pull side: page, handlers and the pull cursor. *)

PullInv == PageFollowsCursor /\ HandlingInProgress /\ NoGapBelowCursor /\ StoredFollowsFeed

\* What the push side of a Tick leaves alone.
PullSideUnchanged ==
    /\ UNCHANGED <<hubCur, stored, applied, page, hidx>>
    /\ \A m \in Node : /\ pc'[m] = "handle" <=> pc[m] = "handle"
                       /\ pc'[m] = "mark" <=> pc[m] = "mark"

LEMMA PushActionsKeepPullSide ==
    ASSUME TypeOK, NEW n \in Node,
           \/ Emit(n) \/ EmitFails(n) \/ TickNothingToPush(n) \/ TickPush(n) \/ PushAcked(n)
           \/ HubServes(n) \/ HubServesZombie(n) \/ TickEnds(n) \/ Restart(n)
    PROVE  PullSideUnchanged
BY DEF Emit, EmitFails, TickNothingToPush, TickPush, PushAcked, AckedAt, HubServes, HubServesZombie,
       TickEnds, Restart, RestartedWith, PullSideUnchanged, TypeOK, diskVars, tickVars

\* A page is a prefix of the eligible rows: a row before one of the page's is
\* eligible only if it is in the page too.
LEMMA FeedSinceIsPrefix ==
    ASSUME TypeOK, NEW n \in Node, NEW i \in FeedSince(n), NEW j \in Eligible(n), j < i
    PROVE  j \in FeedSince(n)
<1>. DEFINE Before(k) == {l \in Eligible(n) : l < k}
<1>1. feed \in Seq(EventId) /\ Len(feed) \in Nat
  BY DEF TypeOK
<1>2. Eligible(n) \subseteq 1..Len(feed) /\ i \in Eligible(n)
  BY DEF Eligible, FeedSince
<1>3. IsFiniteSet(1..Len(feed))
  BY <1>1, FS_Interval
<1>4. IsFiniteSet(Before(i)) /\ Before(i) \subseteq 1..Len(feed)
  BY <1>2, <1>3, FS_Subset
<1>5. Before(j) \subseteq Before(i)
  BY <1>1, <1>2
<1>6. IsFiniteSet(Before(j)) /\ Cardinality(Before(j)) <= Cardinality(Before(i))
  BY <1>4, <1>5, FS_Subset
<1>7. Cardinality(Before(i)) < PullLimit
  BY DEF FeedSince
<1>8. Cardinality(Before(j)) \in Nat /\ Cardinality(Before(i)) \in Nat /\ PullLimit \in Nat
  BY <1>4, <1>6, FS_CardinalityType, BoundsAssumption
<1>9. Cardinality(Before(j)) < PullLimit
  BY <1>6, <1>7, <1>8
<1>. QED
  BY <1>9 DEF FeedSince

\* The body of HandlingInProgress for node n at feed row i.
HandlingAt(n, h, marks, at, i) ==
    /\ feed[i] \in stored[n]
    /\ \A k \in HandlersOf(feed[i]) : k < h => <<feed[i], k>> \in marks
    /\ h > 0
    /\ at = "mark" => h \in HandlersOf(feed[i])

LEMMA UniqueLeast ==
    ASSUME NEW S \in SUBSET Nat, NEW x, NEW y, Least(x, S), Least(y, S)
    PROVE  x = y
BY DEF Least

LEMMA PullStep == IndInv /\ [Next]_vars => PullInv'
<1>. SUFFICES ASSUME IndInv, [Next]_vars
              PROVE  PullInv'
  OBVIOUS
<1>. USE DEF IndInv
<1>a. /\ Len(feed') \in Nat /\ Len(feed) \in Nat /\ Len(feed) <= Len(feed')
      /\ \A i \in 1..Len(feed) : feed'[i] = feed[i]
  BY StepOfLogAndFeed, FeedGrows
<1>b. \A n \in Node : hubCur[n] \in Nat /\ page[n] \subseteq Nat /\ hidx[n] \in Nat
  BY DEF TypeOK
<1>c. \A n \in Node : hubCur[n] <= Len(feed)
  BY DEF PageFollowsCursor
<1>h. \A n \in Node : \A i \in page[n] :
         /\ HandlersOf(feed[i]) \subseteq Nat
         /\ \A h \in Nat : h > 0 /\ h \notin HandlersOf(feed[i]) => \A k \in HandlersOf(feed[i]) : k < h
  <2>. SUFFICES ASSUME NEW n \in Node, NEW i \in page[n]
                PROVE  /\ HandlersOf(feed[i]) \subseteq Nat
                       /\ \A h \in Nat : h > 0 /\ h \notin HandlersOf(feed[i]) =>
                            \A k \in HandlersOf(feed[i]) : k < h
    OBVIOUS
  <2>1. feed[i] \in EventId
    BY DEF PageFollowsCursor, TypeOK
  <2>2. Handlers[Event[feed[i][1]][feed[i][2]].type] \in Nat
    BY <2>1, EventAssumption DEF EventId
  <2>3. PICK last \in Nat : HandlersOf(feed[i]) = 1..last
    BY <2>2 DEF HandlersOf
  <2>. QED
    BY <2>3
\* Where the cursor stays, a growing feed leaves both feed invariants alone.
<1>d. ASSUME \A n \in Node : stored[n] \subseteq stored'[n] /\ applied[n] \subseteq applied'[n]
      PROVE  \A n \in Node : \A e : FullyApplied(n, e) => FullyApplied(n, e)'
  BY <1>d DEF FullyApplied
<1>e. ASSUME \A n \in Node : stored[n] \subseteq stored'[n] /\ applied[n] \subseteq applied'[n],
             hubCur' = hubCur
      PROVE  NoGapBelowCursor'
  <2>. SUFFICES ASSUME NEW n \in Node, NEW i \in 1..Len(feed'), i <= hubCur[n], feed'[i][1] # n
                PROVE  /\ feed'[i] \in stored'[n]
                       /\ \A k \in HandlersOf(feed'[i]) : <<feed'[i], k>> \in applied'[n]
    BY <1>e DEF NoGapBelowCursor, FullyApplied
  <2>1. i \in 1..Len(feed) /\ feed'[i] = feed[i]
    BY <1>a, <1>b, <1>c
  <2>2. FullyApplied(n, feed[i])
    BY <2>1 DEF NoGapBelowCursor
  <2>. QED
    BY <1>e, <2>1, <2>2 DEF FullyApplied
<1>f. ASSUME NEW n \in Node, NEW e \in stored[n],
             \A m \in Node : stored[m] \subseteq stored'[m] /\ applied[m] \subseteq applied'[m]
      PROVE  /\ e[1] # n
             /\ \E i \in 1..Len(feed') :
                  /\ feed'[i] = e
                  /\ \A j \in 1..i-1 : feed'[j][1] # n =>
                       feed'[j] \in stored'[n] /\ \A k \in HandlersOf(feed'[j]) : <<feed'[j], k>> \in applied'[n]
  <2>1. PICK i \in 1..Len(feed) :
          /\ feed[i] = e
          /\ \A j \in 1..i-1 : feed[j][1] # n => FullyApplied(n, feed[j])
    BY DEF StoredFollowsFeed
  <2>0. e[1] # n
    BY DEF StoredFollowsFeed
  <2>2. i \in 1..Len(feed') /\ \A j \in 1..i-1 : j \in 1..Len(feed)
    BY <1>a
  <2>3. feed'[i] = e /\ \A j \in 1..i-1 : feed'[j] = feed[j]
    BY <1>a, <2>1, <2>2
  <2>4. \A j \in 1..i-1 : feed[j][1] # n =>
          feed[j] \in stored'[n] /\ \A k \in HandlersOf(feed[j]) : <<feed[j], k>> \in applied'[n]
    BY <1>f, <2>1 DEF FullyApplied
  <2>. QED
    BY <2>0, <2>2, <2>3, <2>4
<1>g. ASSUME UNCHANGED <<stored>>, \A n \in Node : applied[n] \subseteq applied'[n]
      PROVE  StoredFollowsFeed'
  BY <1>f, <1>g DEF StoredFollowsFeed, FullyApplied
<1>1. CASE PullSideUnchanged
  <2>. /\ UNCHANGED <<hubCur, stored, applied, page, hidx>>
       /\ \A m \in Node : pc'[m] = "handle" <=> pc[m] = "handle"
       /\ \A m \in Node : pc'[m] = "mark" <=> pc[m] = "mark"
    BY <1>1 DEF PullSideUnchanged
  <2>1. PageFollowsCursor'
    BY <1>a, <1>b DEF PageFollowsCursor
  <2>2. HandlingInProgress'
    <3>. SUFFICES ASSUME NEW n \in Node, pc'[n] \in {"handle", "mark"}
                  PROVE  \E i \in page[n] :
                           /\ Least(i, page[n])
                           /\ feed'[i] \in stored[n]
                           /\ \A k \in HandlersOf(feed'[i]) : k < hidx[n] => <<feed'[i], k>> \in applied[n]
                           /\ hidx[n] > 0
                           /\ pc'[n] = "mark" => hidx[n] \in HandlersOf(feed'[i])
      BY DEF HandlingInProgress, Least
    <3>1. \A i \in page[n] : feed'[i] = feed[i]
      BY <1>a DEF PageFollowsCursor
    <3>. QED
      BY <3>1 DEF HandlingInProgress
  <2>. QED
    BY <1>e, <1>g, <2>1, <2>2 DEF PullInv
<1>2. ASSUME NEW n \in Node, Pull(n) PROVE PullInv'
  <2>1. /\ UNCHANGED <<hubCur, stored, applied, hidx, feed>>
        /\ page' = [page EXCEPT ![n] = FeedSince(n)]
        /\ pc[n] = "pull" /\ pc' = [pc EXCEPT ![n] = "apply"]
    BY <1>2 DEF Pull, diskVars, hubVars
  <2>2. /\ page'[n] = FeedSince(n) /\ \A m \in Node \ {n} : page'[m] = page[m] /\ pc'[m] = pc[m]
        /\ pc'[n] = "apply"
    BY <2>1 DEF TypeOK
  <2>3. FeedSince(n) \subseteq Eligible(n)
    BY DEF FeedSince
  <2>4. \A i \in FeedSince(n) : \A j \in Eligible(n) : j < i => j \in FeedSince(n)
    BY FeedSinceIsPrefix
  <2>5. PageFollowsCursor'
    BY <2>1, <2>2, <2>3, <2>4 DEF PageFollowsCursor, Eligible
  <2>6. HandlingInProgress'
    BY <2>1, <2>2 DEF HandlingInProgress, Least
  <2>. QED
    BY <1>e, <1>g, <2>1, <2>5, <2>6 DEF PullInv
<1>3. ASSUME NEW n \in Node, ApplyStores(n) PROVE PullInv'
  <2>1. PICK i \in page[n] :
          Least(i, page[n]) /\ stored' = [stored EXCEPT ![n] = @ \cup {feed[i]}]
    BY <1>3 DEF ApplyStores
  <2>2. /\ UNCHANGED <<hubCur, applied, page, feed>> /\ hidx' = [hidx EXCEPT ![n] = 1]
        /\ pc' = [pc EXCEPT ![n] = "handle"]
    BY <1>3 DEF ApplyStores, hubVars
  <2>3. /\ stored'[n] = stored[n] \cup {feed[i]} /\ hidx'[n] = 1 /\ pc'[n] = "handle"
        /\ \A m \in Node \ {n} : stored'[m] = stored[m] /\ hidx'[m] = hidx[m] /\ pc'[m] = pc[m]
    BY <2>1, <2>2 DEF TypeOK
  <2>4. PageFollowsCursor'
    BY <2>2 DEF PageFollowsCursor
  <2>5. i \in 1..Len(feed) /\ feed[i] \in EventId
    BY DEF PageFollowsCursor, TypeOK
  <2>6. HandlersOf(feed[i]) \subseteq Nat \ {0}
    <3>1. Handlers[Event[feed[i][1]][feed[i][2]].type] \in Nat
      BY <2>5, EventAssumption DEF EventId
    <3>. QED
      BY <3>1 DEF HandlersOf
  <2>7. HandlingInProgress'
    <3>1. ASSUME NEW m \in Node \ {n}, pc[m] \in {"handle", "mark"}
          PROVE  \E l \in page[m] :
                   /\ Least(l, page[m])
                   /\ feed[l] \in stored[m]
                   /\ \A k \in HandlersOf(feed[l]) : k < hidx[m] => <<feed[l], k>> \in applied[m]
                   /\ hidx[m] > 0
                   /\ pc[m] = "mark" => hidx[m] \in HandlersOf(feed[l])
      BY <3>1 DEF HandlingInProgress
    <3>. SUFFICES ASSUME NEW m \in Node, pc'[m] \in {"handle", "mark"}
                  PROVE  \E l \in page[m] :
                           /\ Least(l, page[m])
                           /\ feed[l] \in stored'[m]
                           /\ \A k \in HandlersOf(feed[l]) : k < hidx'[m] => <<feed[l], k>> \in applied[m]
                           /\ hidx'[m] > 0
                           /\ pc'[m] = "mark" => hidx'[m] \in HandlersOf(feed[l])
      BY <2>2 DEF HandlingInProgress, Least
    <3>2. CASE m = n
      BY <2>1, <2>3, <2>6, <3>2
    <3>3. CASE m # n
      BY <2>3, <3>1, <3>3
    <3>. QED
      BY <3>2, <3>3
  <2>8. NoGapBelowCursor'
    BY <1>e, <2>2, <2>3
  <2>9. \A j \in 1..i-1 : feed[j][1] # n => FullyApplied(n, feed[j])
    <3>. SUFFICES ASSUME NEW j \in 1..i-1, feed[j][1] # n PROVE FullyApplied(n, feed[j])
      OBVIOUS
    <3>1. j \in 1..Len(feed) /\ j \notin page[n]
      BY <1>b, <2>1, <2>5 DEF Least
    <3>2. j <= hubCur[n]
      BY <1>b, <2>5, <3>1 DEF PageFollowsCursor
    <3>. QED
      BY <3>1, <3>2 DEF NoGapBelowCursor
  <2>10. StoredFollowsFeed'
    <3>. SUFFICES ASSUME NEW m \in Node, NEW e \in stored'[m]
                  PROVE  /\ e[1] # m
                         /\ \E l \in 1..Len(feed') :
                              /\ feed'[l] = e
                              /\ \A j \in 1..l-1 : feed'[j][1] # m =>
                                   feed'[j] \in stored'[m] /\ \A k \in HandlersOf(feed'[j]) : <<feed'[j], k>> \in applied'[m]
      BY DEF StoredFollowsFeed, FullyApplied
    <3>1. CASE e \in stored[m]
      BY <1>f, <2>2, <2>3, <3>1
    <3>2. CASE m = n /\ e = feed[i]
      BY <2>2, <2>3, <2>5, <2>9, <3>2 DEF FullyApplied, PageFollowsCursor
    <3>. QED
      BY <2>3, <3>1, <3>2
  <2>. QED
    BY <2>4, <2>7, <2>8, <2>10 DEF PullInv
<1>4. ASSUME NEW n \in Node, HandlerSkipped(n) PROVE PullInv'
  <2>1. PICK i \in page[n] :
          /\ Least(i, page[n]) /\ hidx[n] \in HandlersOf(feed[i])
          /\ <<feed[i], hidx[n]>> \in applied[n]
    BY <1>4 DEF HandlerSkipped
  <2>2. /\ UNCHANGED <<hubCur, stored, applied, page, feed, pc>>
        /\ hidx' = [hidx EXCEPT ![n] = @ + 1] /\ pc[n] = "handle"
    BY <1>4 DEF HandlerSkipped, diskVars, hubVars
  <2>3. hidx'[n] = hidx[n] + 1 /\ \A m \in Node \ {n} : hidx'[m] = hidx[m]
    BY <2>2 DEF TypeOK
  <2>4. PageFollowsCursor'
    BY <2>2 DEF PageFollowsCursor
  <2>5. HandlingAt(n, hidx'[n], applied[n], "handle", i)
    <3>1. HandlingAt(n, hidx[n], applied[n], "handle", i)
      BY <1>b, <2>1, <2>2, UniqueLeast DEF HandlingInProgress, HandlingAt
    <3>2. HandlersOf(feed[i]) \subseteq Nat
      BY <1>h
    <3>. QED
      BY <1>b, <2>1, <2>3, <3>1, <3>2 DEF HandlingAt
  <2>6. HandlingInProgress'
    BY <2>1, <2>2, <2>3, <2>5 DEF HandlingInProgress, HandlingAt, Least
  <2>. QED
    BY <1>e, <1>g, <2>2, <2>4, <2>6 DEF PullInv
<1>5. ASSUME NEW n \in Node, HandlerRuns(n) PROVE PullInv'
  <2>1. PICK i \in page[n] : Least(i, page[n]) /\ hidx[n] \in HandlersOf(feed[i])
    BY <1>5 DEF HandlerRuns
  <2>2. /\ UNCHANGED <<hubCur, stored, applied, page, feed, hidx>>
        /\ pc' = [pc EXCEPT ![n] = "mark"] /\ pc[n] = "handle"
    BY <1>5 DEF HandlerRuns, diskVars, hubVars
  <2>3. pc'[n] = "mark" /\ \A m \in Node \ {n} : pc'[m] = pc[m]
    BY <2>2 DEF TypeOK
  <2>4. PageFollowsCursor'
    BY <2>2 DEF PageFollowsCursor
  <2>5. HandlingAt(n, hidx[n], applied[n], "mark", i)
    BY <1>b, <2>1, <2>2, UniqueLeast DEF HandlingInProgress, HandlingAt
  <2>6. HandlingInProgress'
    BY <2>1, <2>2, <2>3, <2>5 DEF HandlingInProgress, HandlingAt, Least
  <2>. QED
    BY <1>e, <1>g, <2>2, <2>4, <2>6 DEF PullInv
<1>6. ASSUME NEW n \in Node, MarkHandler(n) PROVE PullInv'
  <2>1. PICK i \in page[n] :
          Least(i, page[n]) /\ applied' = [applied EXCEPT ![n] = @ \cup {<<feed[i], hidx[n]>>}]
    BY <1>6 DEF MarkHandler
  <2>2. /\ UNCHANGED <<hubCur, stored, page, feed>>
        /\ hidx' = [hidx EXCEPT ![n] = @ + 1]
        /\ pc' = [pc EXCEPT ![n] = "handle"] /\ pc[n] = "mark"
    BY <1>6 DEF MarkHandler, hubVars
  <2>3. /\ hidx'[n] = hidx[n] + 1 /\ pc'[n] = "handle"
        /\ applied'[n] = applied[n] \cup {<<feed[i], hidx[n]>>}
        /\ \A m \in Node \ {n} : hidx'[m] = hidx[m] /\ pc'[m] = pc[m] /\ applied'[m] = applied[m]
    BY <2>1, <2>2 DEF TypeOK
  <2>4. PageFollowsCursor'
    BY <2>2 DEF PageFollowsCursor
  <2>5. HandlingAt(n, hidx'[n], applied'[n], "handle", i)
    <3>1. HandlingAt(n, hidx[n], applied[n], "mark", i)
      BY <1>b, <2>1, <2>2, UniqueLeast DEF HandlingInProgress, HandlingAt
    <3>2. HandlersOf(feed[i]) \subseteq Nat
      BY <1>h
    <3>. QED
      BY <1>b, <2>3, <3>1, <3>2 DEF HandlingAt
  <2>6. HandlingInProgress'
    BY <2>1, <2>2, <2>3, <2>5 DEF HandlingInProgress, HandlingAt, Least
  <2>. QED
    BY <1>e, <1>g, <2>2, <2>3, <2>4, <2>6 DEF PullInv
<1>7. ASSUME NEW n \in Node, SetHubCursor(n) PROVE PullInv'
  <2>1. PICK i \in page[n] :
          /\ Least(i, page[n]) /\ hidx[n] \notin HandlersOf(feed[i])
          /\ hubCur' = [hubCur EXCEPT ![n] = i]
          /\ page' = [page EXCEPT ![n] = @ \ {i}]
    BY <1>7 DEF SetHubCursor, CursorSet
  <2>2. /\ UNCHANGED <<stored, applied, feed>>
        /\ pc' = [pc EXCEPT ![n] = "apply"] /\ pc[n] = "handle"
        /\ hidx' = [hidx EXCEPT ![n] = 0]
    BY <1>7 DEF SetHubCursor, CursorSet, hubVars
  <2>3. /\ hubCur'[n] = i /\ page'[n] = page[n] \ {i} /\ pc'[n] = "apply"
        /\ \A m \in Node \ {n} : /\ hubCur'[m] = hubCur[m] /\ page'[m] = page[m]
                                 /\ pc'[m] = pc[m] /\ hidx'[m] = hidx[m]
    BY <2>1, <2>2 DEF TypeOK
  <2>4. i \in 1..Len(feed) /\ \A l \in page[n] : l = i \/ l > i
    BY <1>b, <2>1 DEF PageFollowsCursor, Least
  <2>5. PageFollowsCursor'
    <3>1. ASSUME NEW l \in page[n], l # i
          PROVE  /\ l \in 1..Len(feed) /\ l > i /\ feed[l][1] # n
                 /\ \A j \in 1..Len(feed) : i < j /\ j < l /\ feed[j][1] # n => j \in page[n] \ {i}
      BY <1>b, <2>4, <3>1 DEF PageFollowsCursor
    <3>. QED
      BY <1>a, <2>2, <2>3, <2>4, <3>1 DEF PageFollowsCursor
  <2>6. FullyApplied(n, feed[i])
    <3>1. HandlingAt(n, hidx[n], applied[n], "handle", i)
      BY <1>b, <2>1, <2>2, UniqueLeast DEF HandlingInProgress, HandlingAt
    <3>2. \A k \in HandlersOf(feed[i]) : k < hidx[n]
      BY <1>b, <1>h, <2>1, <3>1 DEF HandlingAt
    <3>. QED
      BY <3>1, <3>2 DEF HandlingAt, FullyApplied
  <2>7. HandlingInProgress'
    BY <2>2, <2>3 DEF HandlingInProgress, Least
  <2>8. NoGapBelowCursor'
    <3>1. ASSUME NEW l \in 1..Len(feed), l <= i, feed[l][1] # n
          PROVE  FullyApplied(n, feed[l])
      <4>1. CASE l = i
        BY <2>6, <4>1
      <4>2. CASE l # i
        <5>1. l \notin page[n]
          BY <1>b, <2>4, <3>1, <4>2
        <5>2. l <= hubCur[n]
          BY <1>b, <2>4, <3>1, <4>2, <5>1 DEF PageFollowsCursor
        <5>. QED
          BY <3>1, <5>2 DEF NoGapBelowCursor
      <4>. QED
        BY <4>1, <4>2
    <3>. QED
      BY <2>2, <2>3, <3>1 DEF NoGapBelowCursor, FullyApplied
  <2>. QED
    BY <1>g, <2>2, <2>5, <2>7, <2>8 DEF PullInv
<1>8. ASSUME NEW n \in Node, NEW where \in {"idle", "down"}, StopTick(n, where),
             UNCHANGED <<hubCur, stored, applied, feed>>
      PROVE  PullInv'
  <2>1. /\ page'[n] = {} /\ pc'[n] = where
        /\ \A m \in Node \ {n} : page'[m] = page[m] /\ pc'[m] = pc[m] /\ hidx'[m] = hidx[m]
    BY <1>8 DEF StopTick, TypeOK
  <2>2. PageFollowsCursor'
    BY <1>8, <2>1 DEF PageFollowsCursor
  <2>3. HandlingInProgress'
    BY <1>8, <2>1 DEF HandlingInProgress, Least
  <2>. QED
    BY <1>e, <1>g, <1>8, <2>2, <2>3 DEF PullInv
<1>9. ASSUME NEW n \in Node, TickAborts(n) PROVE PullInv'
  BY <1>8, <1>9 DEF TickAborts, diskVars, hubVars
<1>10. ASSUME NEW n \in Node, Crash(n) PROVE PullInv'
  BY <1>8, <1>10 DEF Crash, diskVars, hubVars
<1>11. CASE UNCHANGED vars
  BY <1>1, <1>11 DEF vars, PullSideUnchanged
<1>. QED
  BY <1>1, <1>2, <1>3, <1>4, <1>5, <1>6, <1>7, <1>9, <1>10, <1>11, PushActionsKeepPullSide
  DEF Next, Sync

-----------------------------------------------------------------------------
(* The handlers' executions. *)

\* Away from HandlerRuns, MarkHandler and failures nothing is run or marked.
RunsSideUnchanged ==
    /\ UNCHANGED <<applied, runs, faults>>
    /\ \A n \in Node : \A k : Marking(n, k)' <=> Marking(n, k)

LEMMA RunsStep == IndInv /\ [Next]_vars => RunsAreAccounted'
<1>. SUFFICES ASSUME IndInv, [Next]_vars
              PROVE  RunsAreAccounted'
  OBVIOUS
<1>. USE DEF IndInv
<1>a. /\ \A i \in 1..Len(feed) : feed'[i] = feed[i]
      /\ \A n \in Node : \A i \in page[n] : feed'[i] = feed[i]
  BY StepOfLogAndFeed, FeedGrows DEF PageFollowsCursor
<1>b. /\ faults \in Nat
      /\ \A n \in Node : page[n] \subseteq Nat /\ hidx[n] \in Nat
      /\ \A n \in Node : runs[n] \in [HandlerKey -> Nat]
      /\ \A n \in Node : \A k \in HandlerKey : runs[n][k] \in Nat
  BY BoundsAssumption DEF TypeOK
<1>1. CASE RunsSideUnchanged
  BY <1>1 DEF RunsSideUnchanged, RunsAreAccounted
<1>2. ASSUME UNCHANGED <<applied, runs, faults, page, hidx>>,
             \A m \in Node : pc'[m] = "mark" <=> pc[m] = "mark"
      PROVE  RunsAreAccounted'
  <2>1. \A n \in Node : \A k : Marking(n, k)' <=> Marking(n, k)
    BY <1>a, <1>2 DEF Marking, Least
  <2>. QED
    BY <1>1, <1>2, <2>1 DEF RunsSideUnchanged
<1>3. ASSUME NEW n \in Node, UNCHANGED <<applied, runs, faults, feed>>,
             pc[n] # "mark", pc'[n] # "mark",
             \A m \in Node \ {n} : page'[m] = page[m] /\ hidx'[m] = hidx[m] /\ pc'[m] = pc[m]
      PROVE  RunsAreAccounted'
  <2>1. \A m \in Node : \A k : Marking(m, k)' <=> Marking(m, k)
    BY <1>3 DEF Marking, Least
  <2>. QED
    BY <1>1, <1>3, <2>1 DEF RunsSideUnchanged
<1>4. ASSUME NEW n \in Node, HandlerRuns(n) PROVE RunsAreAccounted'
  <2>1. PICK i \in page[n] :
          /\ Least(i, page[n])
          /\ hidx[n] \in HandlersOf(feed[i])
          /\ <<feed[i], hidx[n]>> \notin applied[n]
          /\ runs' = [runs EXCEPT ![n][<<feed[i], hidx[n]>>] = @ + 1]
    BY <1>4 DEF HandlerRuns
  <2>2. /\ UNCHANGED <<applied, page, hidx, feed, faults>>
        /\ pc[n] = "handle" /\ pc' = [pc EXCEPT ![n] = "mark"]
    BY <1>4 DEF HandlerRuns, diskVars, hubVars
  <2>. DEFINE key == <<feed[i], hidx[n]>>
  <2>3. key \in HandlerKey
    BY <2>1, HandlersOfType DEF PageFollowsCursor, TypeOK
  <2>4. \A k : Marking(n, k)' <=> k = key
    BY <1>b, <2>1, <2>2, UniqueLeast DEF Marking, Least, TypeOK
  <2>5. \A m \in Node \ {n} : \A k : Marking(m, k)' <=> Marking(m, k)
    BY <2>2 DEF Marking, Least, TypeOK
  <2>6. \A k : ~Marking(n, k)
    BY <2>2 DEF Marking
  <2>. HIDE DEF key
  <2>7. runs' = [runs EXCEPT ![n][key] = @ + 1] /\ key \notin applied[n]
    BY <2>1 DEF key
  <2>8. /\ runs'[n][key] = runs[n][key] + 1
        /\ \A k \in HandlerKey \ {key} : runs'[n][k] = runs[n][k]
        /\ \A m \in Node \ {n} : runs'[m] = runs[m]
    BY <1>b, <2>3, <2>7 DEF TypeOK
  <2>9. runs[n][key] <= faults
    BY <1>b, <2>3, <2>6, <2>7 DEF RunsAreAccounted
  <2>. QED
    BY <1>b, <2>2, <2>3, <2>4, <2>5, <2>6, <2>8, <2>9 DEF RunsAreAccounted
<1>5. ASSUME NEW n \in Node, MarkHandler(n) PROVE RunsAreAccounted'
  <2>1. PICK i \in page[n] :
          Least(i, page[n]) /\ applied' = [applied EXCEPT ![n] = @ \cup {<<feed[i], hidx[n]>>}]
    BY <1>5 DEF MarkHandler
  <2>2. /\ UNCHANGED <<page, feed, faults, runs>>
        /\ pc[n] = "mark" /\ pc' = [pc EXCEPT ![n] = "handle"]
        /\ \A m \in Node \ {n} : hidx'[m] = hidx[m]
    BY <1>5 DEF MarkHandler, hubVars, TypeOK
  <2>3. /\ applied'[n] = applied[n] \cup {<<feed[i], hidx[n]>>}
        /\ \A m \in Node \ {n} : applied'[m] = applied[m] /\ pc'[m] = pc[m]
        /\ pc'[n] = "handle"
    BY <2>1, <2>2 DEF TypeOK
  <2>4. \A k : Marking(n, k) <=> k = <<feed[i], hidx[n]>>
    BY <1>b, <2>1, <2>2, UniqueLeast DEF Marking
  <2>5. \A k : ~Marking(n, k)'
    BY <2>3 DEF Marking
  <2>6. \A m \in Node \ {n} : \A k : Marking(m, k)' <=> Marking(m, k)
    BY <2>2, <2>3 DEF Marking, Least
  <2>. QED
    BY <2>2, <2>3, <2>4, <2>5, <2>6 DEF RunsAreAccounted
<1>6. ASSUME NEW n \in Node, NEW where \in {"idle", "down"}, StopTick(n, where),
             UNCHANGED <<applied, feed, runs>>, faults' = faults + 1
      PROVE  RunsAreAccounted'
  <2>1. \A m \in Node \ {n} : page'[m] = page[m] /\ pc'[m] = pc[m] /\ hidx'[m] = hidx[m]
    BY <1>6 DEF StopTick, TypeOK
  <2>2. \A m \in Node : \A k : Marking(m, k)' => Marking(m, k)
    BY <1>6, <2>1 DEF Marking, Least, StopTick, TypeOK
  <2>. QED
    BY <1>b, <1>6, <2>2 DEF RunsAreAccounted
<1>7. ASSUME NEW n \in Node, EmitFails(n) PROVE RunsAreAccounted'
  <2>1. UNCHANGED <<applied, page, hidx, feed, runs, pc>> /\ faults' = faults + 1
    BY <1>7 DEF EmitFails, Fault, diskVars, tickVars, hubVars
  <2>2. \A m \in Node : \A k : Marking(m, k)' <=> Marking(m, k)
    BY <2>1 DEF Marking, Least
  <2>. QED
    BY <1>b, <2>1, <2>2 DEF RunsAreAccounted
<1>8. ASSUME NEW n \in Node,
             \/ Emit(n) \/ TickNothingToPush(n) \/ TickPush(n) \/ PushAcked(n)
             \/ HubServes(n) \/ HubServesZombie(n) \/ TickEnds(n) \/ Restart(n)
      PROVE  RunsAreAccounted'
  <2>1. PullSideUnchanged
    BY <1>8, PushActionsKeepPullSide
  <2>2. UNCHANGED <<runs, faults>>
    BY <1>8 DEF Emit, TickNothingToPush, TickPush, PushAcked, AckedAt, HubServes, HubServesZombie,
                TickEnds, Restart, RestartedWith
  <2>. QED
    BY <1>2, <2>1, <2>2 DEF PullSideUnchanged
<1>9. ASSUME NEW n \in Node, Pull(n) \/ ApplyStores(n) \/ HandlerSkipped(n) \/ SetHubCursor(n)
      PROVE  RunsAreAccounted'
  BY <1>3, <1>9 DEF Pull, ApplyStores, HandlerSkipped, SetHubCursor, CursorSet, diskVars, hubVars, TypeOK
<1>10. ASSUME NEW n \in Node, TickAborts(n) \/ Crash(n) PROVE RunsAreAccounted'
  BY <1>6, <1>10 DEF TickAborts, Crash, Fault, diskVars, hubVars
<1>11. CASE UNCHANGED vars
  BY <1>2, <1>11 DEF vars
<1>. QED
  BY <1>4, <1>5, <1>7, <1>8, <1>9, <1>10, <1>11 DEF Next, Sync

-----------------------------------------------------------------------------
(* The theorems. *)

\* Initially nothing has been emitted, pushed or pulled.
LEMMA InitInv == Init => IndInv
<1>. SUFFICES ASSUME Init PROVE IndInv
  OBVIOUS
<1>1. TypeOK
  BY InitType
<1>2. Len(feed) = 0 /\ 1..0 = {}
  BY DEF Init
<1>3. FeedIsClosed /\ FeedHasNoDuplicates /\ FeedInSourceOrder /\ NoGapBelowCursor
  BY <1>2 DEF FeedIsClosed, FeedHasNoDuplicates, FeedInSourceOrder, NoGapBelowCursor
<1>4. CountersFollowLog /\ PushedIsInFeed /\ HandlingInProgress /\ StoredFollowsFeed
  BY DEF Init, CountersFollowLog, PushedIsInFeed, HandlingInProgress, StoredFollowsFeed
<1>5. RequestsLeaveNoHole /\ LiveRequestCovers
  BY DEF Init, RequestsLeaveNoHole, LiveRequestCovers, NoRequest
<1>6. PageFollowsCursor
  BY <1>2 DEF Init, PageFollowsCursor
<1>7. RunsAreAccounted
  <2>1. \A n \in Node : \A k \in HandlerKey : runs[n][k] = 0 /\ k \notin applied[n] /\ ~Marking(n, k)
    BY DEF Init, Marking
  <2>. QED
    BY <2>1 DEF RunsAreAccounted, Init
<1>. QED
  BY <1>1, <1>3, <1>4, <1>5, <1>6, <1>7 DEF IndInv

LEMMA NextInv == IndInv /\ [Next]_vars => IndInv'
BY NextType, FeedStep, PushStep, PullStep, RunsStep DEF IndInv, PushInv, PullInv

\* The invariant holds of every reachable state, whatever fails.
THEOREM Invariance == Spec => []IndInv
BY InitInv, NextInv, PTL DEF Spec

\* Every variable keeps its type.
THEOREM TypeCorrect == Spec => []TypeOK
<1>1. IndInv => TypeOK
  BY DEF IndInv
<1>. QED
  BY <1>1, Invariance, PTL

\* Whatever is lost, retried or abandoned, what the push cursor has passed is
\* in the feed.
THEOREM FeedIsFaithful == Spec => []PushedIsInFeed
<1>1. IndInv => PushedIsInFeed
  BY DEF IndInv
<1>. QED
  BY <1>1, Invariance, PTL

\* However often handleEventsPush is given an event, by retries and by requests
\* the node gave up on, the feed has it once.
THEOREM FeedListsOnce == Spec => []FeedHasNoDuplicates
<1>1. IndInv => FeedHasNoDuplicates
  BY DEF IndInv
<1>. QED
  BY <1>1, Invariance, PTL

\* The feed keeps every source's order, although requests of one node that are
\* served row by row may overlap.
THEOREM FeedIsOrdered == Spec => []FeedInSourceOrder
<1>1. IndInv => FeedInSourceOrder
  BY DEF IndInv
<1>. QED
  BY <1>1, Invariance, PTL

\* What the pull cursor has passed is stored and fully handled.
THEOREM CursorIsSafe == Spec => []NoGapBelowCursor
<1>1. IndInv => NoGapBelowCursor
  BY DEF IndInv
<1>. QED
  BY <1>1, Invariance, PTL

\* A node ingests every other node's events in emission order.
THEOREM SourceOrderIsKept == Spec => []AppliedInSourceOrder
<1>1. IndInv => AppliedInSourceOrder
  <2>. SUFFICES ASSUME IndInv, NEW m \in Node, NEW e \in stored[m], NEW s \in log[e[1]], s < e[2]
                PROVE  FullyApplied(m, <<e[1], s>>)
    BY DEF AppliedInSourceOrder
  <2>. USE DEF IndInv
  <2>1. PICK i \in 1..Len(feed) :
          /\ feed[i] = e
          /\ \A j \in 1..i-1 : feed[j][1] # m => FullyApplied(m, feed[j])
    BY DEF StoredFollowsFeed
  <2>2. e[1] # m
    BY DEF StoredFollowsFeed
  <2>3. InFeed(<<e[1], s>>)
    BY <2>1 DEF FeedIsClosed
  <2>4. PICK j \in 1..Len(feed) : feed[j] = <<e[1], s>>
    BY <2>3 DEF InFeed
  <2>5. feed[j][1] = e[1] /\ feed[j][2] = s
    BY <2>4
  <2>6. e \in EventId /\ e[1] \in Node /\ e[2] \in Int
    <3>1. e \in EventId
      BY DEF TypeOK
    <3>. QED
      BY <3>1, BoundsAssumption DEF EventId, Seqs
  <2>7. s \in Int
    BY <2>6, BoundsAssumption DEF TypeOK, Seqs
  <2>8. ~(i < j)
    BY <2>1, <2>5, <2>6, <2>7 DEF FeedInSourceOrder
  <2>9. i # j
    BY <2>1, <2>5, <2>6, <2>7
  <2>10. j \in 1..i-1
    BY <2>8, <2>9 DEF TypeOK
  <2>. QED
    BY <2>1, <2>2, <2>4, <2>5, <2>10
<1>. QED
  BY <1>1, Invariance, PTL

\* A handler marked applied has run, and reruns are paid for by faults.
THEOREM RerunsNeedFaults == Spec => []HandlerRerunNeedsFault
<1>1. IndInv => HandlerRerunNeedsFault
  BY DEF IndInv, RunsAreAccounted, HandlerRerunNeedsFault
<1>. QED
  BY <1>1, Invariance, PTL

\* No step, failing or not, moves a cursor back.
THEOREM CursorsAreMonotone == Spec => CursorsNeverRegress
<1>1. ASSUME IndInv, [Next]_vars
      PROVE  [\A n \in Node : pushCur'[n] >= pushCur[n] /\ hubCur'[n] >= hubCur[n]]_vars
  <2>. USE DEF IndInv
  <2>0. \A n \in Node : pushCur[n] \in Int /\ hubCur[n] \in Int
    BY <1>1, BoundsAssumption DEF TypeOK
  <2>1. ASSUME UNCHANGED <<pushCur, hubCur>>
        PROVE  \A n \in Node : pushCur'[n] >= pushCur[n] /\ hubCur'[n] >= hubCur[n]
    BY <2>0, <2>1
  <2>2. ASSUME NEW m \in Node, PushAcked(m)
        PROVE  \A n \in Node : pushCur'[n] >= pushCur[n] /\ hubCur'[n] >= hubCur[n]
    <3>1. pushCur[m] <= live[m].top /\ live[m].top \in Int
      BY <1>1, <2>2, BoundsAssumption DEF PushAcked, AckedAt, LiveRequestCovers, TypeOK, Request
    <3>. QED
      BY <1>1, <2>0, <2>2, <3>1 DEF PushAcked, AckedAt, TypeOK
  <2>3. ASSUME NEW m \in Node, SetHubCursor(m)
        PROVE  \A n \in Node : pushCur'[n] >= pushCur[n] /\ hubCur'[n] >= hubCur[n]
    <3>1. PICK i \in page[m] : hubCur' = [hubCur EXCEPT ![m] = i]
      BY <2>3 DEF SetHubCursor, CursorSet
    <3>2. i > hubCur[m] /\ i \in Int
      BY <1>1 DEF PageFollowsCursor
    <3>. QED
      BY <1>1, <2>0, <2>3, <3>1, <3>2 DEF SetHubCursor, CursorSet, TypeOK
  <2>4. ASSUME NEW m \in Node, Restart(m)
        PROVE  UNCHANGED <<pushCur, hubCur>>
    BY <1>1, <2>4 DEF Restart, RestartedWith, TypeOK
  <2>. QED
    BY <1>1, <2>1, <2>2, <2>3, <2>4
    DEF Next, Sync, Emit, EmitFails, TickNothingToPush, TickPush, HubServes, HubServesZombie,
        Pull, ApplyStores, HandlerSkipped, HandlerRuns, MarkHandler, TickEnds, TickAborts, Crash,
        vars, diskVars
<1>. QED
  BY <1>1, Invariance, PTL DEF Spec, CursorsNeverRegress

\* No row that a retry or an abandoned request brings to the hub again reopens
\* a resolved debt.
THEOREM ResolvedIsFinal == Spec => ResolvedStaysResolved
<1>. DEFINE Kept == \A o \in Obligation : ledger[o].status = "resolved" => ledger'[o].status = "resolved"
<1>1. ASSUME IndInv, [Next]_vars PROVE [Kept]_vars
  <2>. USE DEF IndInv
  <2>1. ASSUME NEW n \in Node, NEW r, NEW s \in Seqs, ServeRow(n, r, s) PROVE Kept
    <3>1. CASE ledger' = ledger
      BY <3>1
    <3>2. CASE ledger' = Materialized(Event[n][s])
      <4>1. Event[n][s] \in [type : Types, ob : Obligation, weight : Nat]
        BY EventAssumption
      <4>2. \A o \in Obligation : ledger[o] \in Debt
        BY <1>1 DEF TypeOK
      <4>. QED
        BY <1>1, <3>2, <4>1, <4>2 DEF Materialized, TypeOK, Debt
    <3>. QED
      BY <2>1, <3>1, <3>2 DEF ServeRow
  <2>2. ASSUME NEW n \in Node, HubServes(n) \/ HubServesZombie(n) PROVE Kept
    BY <2>1, <2>2 DEF HubServes, HubServesZombie
  <2>. QED
    BY <1>1, <2>2
    DEF Next, Sync, Emit, EmitFails, TickNothingToPush, TickPush, PushAcked, AckedAt, Pull,
        ApplyStores, HandlerSkipped, HandlerRuns, MarkHandler, SetHubCursor, CursorSet, TickEnds,
        TickAborts, Crash, Restart, RestartedWith, vars, hubVars
<1>. QED
  BY <1>1, Invariance, PTL DEF Spec, ResolvedStaysResolved

-----------------------------------------------------------------------------
(* EventSync implements ReplicatedLog. *)

\* What lies before the first row of a page is consumed, so that consuming
\* this row, or nothing, is a step of the replicated log.
LEMMA FirstRowIsNext ==
    ASSUME IndInv, NEW n \in Node, NEW i \in page[n], Least(i, page[n]),
           UNCHANGED <<log, feed>>,
           \/ ConsumedAt' = ConsumedAt
           \/ /\ feed[i] \notin ConsumedAt[n]
              /\ ConsumedAt' = [ConsumedAt EXCEPT ![n] = @ \cup {feed[i]}]
    PROVE  [Abstract!Next]_(Abstract!vars)
<1>. USE DEF IndInv
<1>1. CASE ConsumedAt' = ConsumedAt
  BY <1>1 DEF Abstract!vars
<1>2. CASE /\ feed[i] \notin ConsumedAt[n]
           /\ ConsumedAt' = [ConsumedAt EXCEPT ![n] = @ \cup {feed[i]}]
  <2>1. i \in 1..Len(feed) /\ feed[i][1] # n
    BY DEF PageFollowsCursor
  <2>2. ASSUME NEW j \in 1..i-1, feed[j][1] # n PROVE feed[j] \in ConsumedAt[n]
    <3>1. j \in 1..Len(feed) /\ j < i /\ hubCur[n] \in Nat
      BY <2>1 DEF TypeOK
    <3>2. j \notin page[n]
      BY <3>1, <2>1 DEF Least, TypeOK
    <3>3. j <= hubCur[n]
      BY <2>2, <3>1, <3>2 DEF PageFollowsCursor
    <3>4. FullyApplied(n, feed[j])
      BY <2>2, <3>1, <3>3 DEF NoGapBelowCursor
    <3>. QED
      BY <3>4 DEF ConsumedAt, FullyApplied
  <2>3. Abstract!Consume(n)
    BY <1>2, <2>1, <2>2 DEF Abstract!Consume
  <2>. QED
    BY <2>3 DEF Abstract!Next
<1>. QED
  BY <1>1, <1>2

\* A step after which at most e is newly applied at n consumes e or nothing.
LEMMA ConsumesAtMost ==
    ASSUME NEW n \in Node, NEW e,
           \A m \in Node : \A d :
               FullyApplied(m, d)' <=> \/ FullyApplied(m, d)
                                       \/ m = n /\ d = e /\ FullyApplied(n, e)'
    PROVE  \/ ConsumedAt' = ConsumedAt
           \/ /\ e \notin ConsumedAt[n]
              /\ ConsumedAt' = [ConsumedAt EXCEPT ![n] = @ \cup {e}]
<1>1. \A m \in Node : \A d : d \in ConsumedAt[m] <=> FullyApplied(m, d)
  BY DEF ConsumedAt, FullyApplied
<1>2. \A m \in Node : \A d : d \in ConsumedAt'[m] <=> FullyApplied(m, d)'
  BY DEF ConsumedAt, FullyApplied
<1>3. /\ ConsumedAt = [m \in Node |-> ConsumedAt[m]]
      /\ ConsumedAt' = [m \in Node |-> ConsumedAt'[m]]
  BY DEF ConsumedAt
<1>4. \A m \in Node \ {n} : ConsumedAt'[m] = ConsumedAt[m]
  BY <1>1, <1>2
<1>5. CASE e \in ConsumedAt[n] \/ ~FullyApplied(n, e)'
  <2>1. ConsumedAt'[n] = ConsumedAt[n]
    BY <1>1, <1>2, <1>5
  <2>2. \A m \in Node : ConsumedAt'[m] = ConsumedAt[m]
    BY <1>4, <2>1
  <2>. QED
    BY <1>3, <2>2
<1>6. CASE e \notin ConsumedAt[n] /\ FullyApplied(n, e)'
  <2>1. ConsumedAt'[n] = ConsumedAt[n] \cup {e}
    BY <1>1, <1>2, <1>6
  <2>. QED
    BY <1>3, <1>4, <1>6, <2>1
<1>. QED
  BY <1>5, <1>6

LEMMA StepImplements == IndInv /\ [Next]_vars => [Abstract!Next]_(Abstract!vars)
<1>. SUFFICES ASSUME IndInv, [Next]_vars PROVE [Abstract!Next]_(Abstract!vars)
  OBVIOUS
<1>. USE DEF IndInv
<1>1. ASSUME UNCHANGED <<log, feed, stored, applied>> PROVE UNCHANGED Abstract!vars
  BY <1>1 DEF Abstract!vars, ConsumedAt, FullyApplied
<1>2. ASSUME NEW n \in Node, Emit(n) PROVE Abstract!Next
  <2>1. seq[n] \in 0..MaxSeq /\ seq[n] < MaxSeq /\ MaxSeq \in Nat /\ log[n] \subseteq Int
    BY <1>2, BoundsAssumption DEF Emit, TypeOK, Seqs
  <2>2. seq[n] + 1 \in Seqs /\ \A t \in log[n] : t < seq[n] + 1
    BY <1>2, <2>1 DEF Emit, CountersFollowLog, Seqs
  <2>3. ConsumedAt' = ConsumedAt /\ feed' = feed
    BY <1>2 DEF Emit, ConsumedAt, FullyApplied, hubVars
  <2>4. Abstract!Emit(n)
    BY <1>2, <2>2, <2>3 DEF Emit, Abstract!Emit
  <2>. QED
    BY <2>4 DEF Abstract!Next
<1>3. ASSUME NEW n \in Node, HubServes(n) \/ HubServesZombie(n) PROVE [Abstract!Next]_(Abstract!vars)
  <2>1. UNCHANGED <<log, stored, applied>>
    BY <1>3 DEF HubServes, HubServesZombie, diskVars
  <2>2. CASE feed' = feed
    BY <1>1, <2>1, <2>2
  <2>3. ASSUME NEW m \in Node, NEW s \in log[m],
               feed' = Append(feed, <<m, s>>), ~InFeed(<<m, s>>),
               \A u \in log[m] : u < s => InFeed(<<m, u>>)
        PROVE  Abstract!Next
    <3>1. ConsumedAt' = ConsumedAt
      BY <2>1 DEF ConsumedAt, FullyApplied
    <3>2. Abstract!Publish(m)
      BY <2>1, <2>3, <3>1 DEF Abstract!Publish, Abstract!IsPublished, InFeed
    <3>. QED
      BY <3>2 DEF Abstract!Next
  <2>. QED
    BY <2>2, <2>3, StepOfLogAndFeed DEF LogAndFeedStep
<1>4. ASSUME NEW n \in Node, ApplyStores(n) PROVE [Abstract!Next]_(Abstract!vars)
  <2>1. PICK i \in page[n] : Least(i, page[n]) /\ stored' = [stored EXCEPT ![n] = @ \cup {feed[i]}]
    BY <1>4 DEF ApplyStores
  <2>2. UNCHANGED <<log, feed, applied>>
    BY <1>4 DEF ApplyStores, hubVars
  <2>3. \/ ConsumedAt' = ConsumedAt
        \/ /\ feed[i] \notin ConsumedAt[n]
           /\ ConsumedAt' = [ConsumedAt EXCEPT ![n] = @ \cup {feed[i]}]
    <3>1. \A m \in Node : \A d :
            FullyApplied(m, d)' <=> \/ FullyApplied(m, d)
                                    \/ m = n /\ d = feed[i] /\ FullyApplied(n, feed[i])'
      BY <2>1, <2>2 DEF FullyApplied, TypeOK
    <3>. QED
      BY <3>1, ConsumesAtMost
  <2>. QED
    BY <2>1, <2>2, <2>3, FirstRowIsNext
<1>5. ASSUME NEW n \in Node, MarkHandler(n) PROVE [Abstract!Next]_(Abstract!vars)
  <2>1. PICK i \in page[n] :
          Least(i, page[n]) /\ applied' = [applied EXCEPT ![n] = @ \cup {<<feed[i], hidx[n]>>}]
    BY <1>5 DEF MarkHandler
  <2>2. UNCHANGED <<log, feed, stored>>
    BY <1>5 DEF MarkHandler, hubVars
  <2>3. \A m \in Node : \A d :
          FullyApplied(m, d)' <=> \/ FullyApplied(m, d)
                                  \/ m = n /\ d = feed[i] /\ FullyApplied(n, feed[i])'
    BY <2>1, <2>2 DEF FullyApplied, TypeOK
  <2>4. \/ ConsumedAt' = ConsumedAt
        \/ /\ feed[i] \notin ConsumedAt[n]
           /\ ConsumedAt' = [ConsumedAt EXCEPT ![n] = @ \cup {feed[i]}]
    BY <2>3, ConsumesAtMost
  <2>. QED
    BY <2>1, <2>2, <2>4, FirstRowIsNext
<1>. QED
  BY <1>1, <1>2, <1>3, <1>4, <1>5
  DEF Next, Sync, EmitFails, TickNothingToPush, TickPush, PushAcked, AckedAt, Pull,
      HandlerSkipped, HandlerRuns, SetHubCursor, CursorSet, TickEnds, TickAborts, Crash,
      Restart, RestartedWith, vars, diskVars, hubVars

\* With any number of nodes and whatever fails, what the nodes and the hub do
\* is what ReplicatedLog allows: each log is published in order, and each node
\* consumes the others' events in the order of the feed, each of them once.
THEOREM Implementation == Spec => ImplementsReplicatedLog
<1>1. Init => Abstract!Init
  BY DEF Init, Abstract!Init, ConsumedAt
<1>. QED
  BY <1>1, StepImplements, Invariance, PTL DEF Spec, ImplementsReplicatedLog, Abstract!Spec

=============================================================================
