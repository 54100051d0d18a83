------------------------------ MODULE EventSync ------------------------------
(***************************************************************************)
(* The event spine of an InterDOOR network: every node keeps a local log   *)
(* of sequenced events (engine/store.go Emit), its Syncer pushes the log   *)
(* to the hub and pulls everyone else's events from the hub's feed         *)
(* (fed/fed.go Syncer.Tick), and Store.ApplyEvent runs the handlers of a   *)
(* pulled event (engine/eventlog.go).  The hub appends pushed events to    *)
(* its feed and folds the debt events into its Ledger index                *)
(* (hub/server.go handleEventsPush, hub/sqlite.go).                        *)
(*                                                                         *)
(* One step is one committed SQL statement or one RPC: sessions emit       *)
(* between any two steps of a Tick, requests of several nodes interleave   *)
(* at the hub row by row, a request the client has given up on keeps       *)
(* running, and a node may crash anywhere.                                 *)
(***************************************************************************)
EXTENDS Integers, Sequences, FiniteSets

CONSTANTS
    Node,       \* the federated nodes
    Obligation, \* the debts the events are about
    Event,      \* Event[n][s]: type and payload of the s-th event of n's log
    Handlers,   \* Handlers[t]: how many handlers OnEvent registered for type t
    MaxSeq,     \* bound: events a node emits
    MaxFaults,  \* bound: crashes, failed statements and failed RPCs
    PullLimit   \* events per feed page (500 in Client.Pull)

\* The event types that MaterializeEvents folds into the hub's debts table.
DebtTypes == {"debt.created", "debt.adjusted", "debt.resolved"}

\* All the types the program emits.
Types == DebtTypes \cup {"player.created", "player.died", "player.traveled", "pvp.resolved"}

Seqs == 1..MaxSeq

ASSUME BoundsAssumption ==
    /\ MaxSeq \in Nat
    /\ MaxFaults \in Nat
    /\ PullLimit \in Nat \ {0}

ASSUME EventAssumption ==
    /\ Event \in [Node -> [Seqs -> [type : Types, ob : Obligation, weight : Nat]]]
    /\ Handlers \in [Types -> Nat]

VARIABLES
    log,      \* log[n]: seqs of n's own rows in its events table (persistent)
    seq,      \* seq[n]: Store.seq, the in-memory sequence counter
    pushCur,  \* pushCur[n]: sync_state.last_pushed_seq (persistent)
    hubCur,   \* hubCur[n]: sync_state.hub_cursor (persistent)
    stored,   \* stored[n]: foreign events in n's events table (persistent)
    applied,  \* applied[n]: event_handler_state rows "applied" (persistent)
    pc,       \* pc[n]: where n's Syncer stands; "down" when n is not running
    live,     \* live[n]: the push request n's Tick waits for
    zombies,  \* zombies[n]: push requests n gave up on, still served by the hub
    page,     \* page[n]: hub_seqs of the pulled page that n has yet to finish
    hidx,     \* hidx[n]: index of the handler ApplyEvent is at
    feed,     \* the hub's events table in hub_seq order (persistent)
    ledger,   \* the hub's debts table (persistent)
    runs,     \* history: runs[n][<<e, i>>], executions of handler i on event e at n
    faults    \* failures so far

hubVars  == <<feed, ledger>>
diskVars == <<log, pushCur, hubCur, stored, applied>>
tickVars == <<pc, live, page, hidx>>
vars == <<log, seq, pushCur, hubCur, stored, applied, pc, live, zombies, page,
          hidx, feed, ledger, runs, faults>>

-----------------------------------------------------------------------------
EventId == Node \X Seqs

HandlersOf(e) == 1..Handlers[Event[e[1]][e[2]].type]

\* (event, handler index) pairs, the primary key of event_handler_state.
HandlerKey == UNION {{e} \X HandlersOf(e) : e \in EventId}

InFeed(e) == \E i \in 1..Len(feed) : feed[i] = e

\* A push request: the seqs still to append, those still to materialize, and
\* the last seq of the batch, which becomes the push cursor.
Request == [todo : SUBSET Seqs, mat : SUBSET Seqs, top : 0..MaxSeq]

NoRequest == [todo |-> {}, mat |-> {}, top |-> 0]

Debt == [status : {"none", "open", "resolved"}, weight : Nat]

Least(x, S) == x \in S /\ \A y \in S : x <= y

Greatest(x, S) == x \in S /\ \A y \in S : y <= x

Init ==
    /\ log = [n \in Node |-> {}]
    /\ seq = [n \in Node |-> 0]
    /\ pushCur = [n \in Node |-> 0]
    /\ hubCur = [n \in Node |-> 0]
    /\ stored = [n \in Node |-> {}]
    /\ applied = [n \in Node |-> {}]
    /\ pc = [n \in Node |-> "idle"]
    /\ live = [n \in Node |-> NoRequest]
    /\ zombies = [n \in Node |-> {}]
    /\ page = [n \in Node |-> {}]
    /\ hidx = [n \in Node |-> 0]
    /\ feed = << >>
    /\ ledger = [o \in Obligation |-> [status |-> "none", weight |-> 0]]
    /\ runs = [n \in Node |-> [k \in HandlerKey |-> 0]]
    /\ faults = 0

Fault == faults < MaxFaults /\ faults' = faults + 1

-----------------------------------------------------------------------------
(* The node's event log. *)

\* Store.Emit, from a session or from the Syncer: counter and row under one lock.
Emit(n) ==
    /\ pc[n] # "down"
    /\ seq[n] < MaxSeq
    /\ seq' = [seq EXCEPT ![n] = @ + 1]
    /\ log' = [log EXCEPT ![n] = @ \cup {seq[n] + 1}]
    /\ UNCHANGED <<pushCur, hubCur, stored, applied, tickVars, zombies, hubVars, runs, faults>>

\* Store.Emit whose INSERT fails: the counter stays incremented, a seq is skipped.
EmitFails(n) ==
    /\ pc[n] # "down"
    /\ seq[n] < MaxSeq
    /\ Fault
    /\ seq' = [seq EXCEPT ![n] = @ + 1]
    /\ UNCHANGED <<diskVars, tickVars, zombies, hubVars, runs>>

-----------------------------------------------------------------------------
(* Syncer.Tick: push. *)

\* Mutant: an off-by-one in the query skips the first unpushed event.
EventsSinceOffByOne(n) == {s \in log[n] : s > pushCur[n] + 1}

\* Store.EventsSince(self, last_pushed_seq), in seq order.
EventsSince(n) == {s \in log[n] : s > pushCur[n]}

\* Heartbeat answered, cursors read, nothing to push: go on to the pull.
TickNothingToPush(n) ==
    /\ pc[n] = "idle"
    /\ EventsSince(n) = {}
    /\ pc' = [pc EXCEPT ![n] = "pull"]
    /\ UNCHANGED <<diskVars, seq, live, page, hidx, zombies, hubVars, runs, faults>>

\* Client.Push posts the whole backlog and waits for the answer.
TickPush(n) ==
    /\ pc[n] = "idle"
    /\ \E top \in EventsSince(n) :
         /\ Greatest(top, EventsSince(n))
         /\ live' = [live EXCEPT ![n] =
              [todo |-> EventsSince(n),
               mat |-> {s \in EventsSince(n) : Event[n][s].type \in DebtTypes},
               top |-> top]]
    /\ pc' = [pc EXCEPT ![n] = "push"]
    /\ UNCHANGED <<diskVars, seq, page, hidx, zombies, hubVars, runs, faults>>

\* What an acknowledged push does when the cursor is set to c.
AckedAt(n, c) ==
    /\ pc[n] = "push"
    /\ live[n].todo = {} /\ live[n].mat = {}
    /\ pushCur' = [pushCur EXCEPT ![n] = c]
    /\ live' = [live EXCEPT ![n] = NoRequest]
    /\ pc' = [pc EXCEPT ![n] = "pull"]
    /\ UNCHANGED <<log, hubCur, stored, applied, seq, page, hidx, zombies, hubVars, runs, faults>>

\* Mutant: the counter at the time of the answer.
PushAckedCounter(n) == AckedAt(n, seq[n])

\* The 200 arrives and SetPushCursor records the batch's last seq.
PushAcked(n) == AckedAt(n, live[n].top)

-----------------------------------------------------------------------------
(* The hub: handleEventsPush serves one row of one request at a time. *)

\* AppendEvents for one event: INSERT OR IGNORE, unique on event_id.
Appended(e) == IF InFeed(e) THEN feed ELSE Append(feed, e)

\* Mutant: debt.created as INSERT OR REPLACE.
MaterializedReplacing(ev) ==
    [ledger EXCEPT ![ev.ob] =
        CASE ev.type = "debt.created"  -> [status |-> "open", weight |-> ev.weight]
          [] ev.type = "debt.resolved" -> [@ EXCEPT !.status = "resolved"]
          [] OTHER -> @]

\* MaterializeEvents for one event.
Materialized(ev) ==
    [ledger EXCEPT ![ev.ob] =
        CASE ev.type = "debt.created" /\ @.status = "none" ->
               [status |-> "open", weight |-> ev.weight]
          [] ev.type = "debt.resolved" /\ @.status # "none" ->
               [@ EXCEPT !.status = "resolved"]
          [] ev.type = "debt.adjusted" /\ @.status = "open" ->
               [@ EXCEPT !.weight = ev.weight]
          [] OTHER -> @]

\* The next row of request r: every append precedes every materialization.
NextRow(r, s) == IF r.todo # {} THEN Least(s, r.todo) ELSE Least(s, r.mat)

Served(r, s) ==
    IF r.todo # {} THEN [r EXCEPT !.todo = @ \ {s}] ELSE [r EXCEPT !.mat = @ \ {s}]

\* Errors of MaterializeEvents are ignored by the handler.
ServeRow(n, r, s) ==
    /\ NextRow(r, s)
    /\ feed' = IF r.todo # {} THEN Appended(<<n, s>>) ELSE feed
    /\ ledger' = IF r.todo # {} THEN ledger ELSE Materialized(Event[n][s])

HubServes(n) ==
    /\ pc[n] = "push"
    /\ \E s \in Seqs :
         /\ ServeRow(n, live[n], s)
         /\ live' = [live EXCEPT ![n] = Served(@, s)]
    /\ UNCHANGED <<diskVars, seq, pc, page, hidx, zombies, runs, faults>>

\* The requests among rs that have rows left.
Unfinished(rs) == {r \in rs : r.todo # {} \/ r.mat # {}}

\* The same for a request whose client is gone: handlers ignore the request
\* context.  Two zombies with the same rows left are one member of the set:
\* serving a row a second time is what the other one would do.
HubServesZombie(n) ==
    /\ \E z \in zombies[n] : \E s \in Seqs :
         /\ ServeRow(n, z, s)
         /\ zombies' = [zombies EXCEPT ![n] = (@ \ {z}) \cup Unfinished({Served(z, s)})]
    /\ UNCHANGED <<diskVars, seq, tickVars, runs, faults>>

-----------------------------------------------------------------------------
(* Syncer.Tick: pull and apply. *)

\* The rows FeedSince may return to n: after the cursor and not n's own.
Eligible(n) == {i \in 1..Len(feed) : i > hubCur[n] /\ feed[i][1] # n}

\* Mutant: ORDER BY hub_seq DESC.
FeedSinceLatest(n) ==
    {i \in Eligible(n) : Cardinality({j \in Eligible(n) : j > i}) < PullLimit}

\* FeedSince: the first PullLimit of them in hub_seq order.
FeedSince(n) ==
    {i \in Eligible(n) : Cardinality({j \in Eligible(n) : j < i}) < PullLimit}

Pull(n) ==
    /\ pc[n] = "pull"
    /\ page' = [page EXCEPT ![n] = FeedSince(n)]
    /\ pc' = [pc EXCEPT ![n] = "apply"]
    /\ UNCHANGED <<diskVars, seq, live, hidx, zombies, hubVars, runs, faults>>

\* ApplyEvent, first statement: INSERT OR IGNORE the event row.
ApplyStores(n) ==
    /\ pc[n] = "apply"
    /\ \E i \in page[n] :
         /\ Least(i, page[n])
         /\ stored' = [stored EXCEPT ![n] = @ \cup {feed[i]}]
    /\ hidx' = [hidx EXCEPT ![n] = 1]
    /\ pc' = [pc EXCEPT ![n] = "handle"]
    /\ UNCHANGED <<log, pushCur, hubCur, applied, seq, live, page, zombies, hubVars, runs, faults>>

\* The loop over handlersFor(e.Type).  A handler marked "applied" is skipped;
\* a row that was just inserted has no marks, so both loops of the code agree.
HandlerSkipped(n) ==
    /\ pc[n] = "handle"
    /\ \E i \in page[n] :
         /\ Least(i, page[n])
         /\ hidx[n] \in HandlersOf(feed[i])
         /\ <<feed[i], hidx[n]>> \in applied[n]
    /\ hidx' = [hidx EXCEPT ![n] = @ + 1]
    /\ UNCHANGED <<diskVars, seq, pc, live, page, zombies, hubVars, runs, faults>>

\* h(e) runs and commits its effect ...
HandlerRuns(n) ==
    /\ pc[n] = "handle"
    /\ \E i \in page[n] :
         /\ Least(i, page[n])
         /\ hidx[n] \in HandlersOf(feed[i])
         /\ <<feed[i], hidx[n]>> \notin applied[n]
         /\ runs' = [runs EXCEPT ![n][<<feed[i], hidx[n]>>] = @ + 1]
    /\ pc' = [pc EXCEPT ![n] = "mark"]
    /\ UNCHANGED <<diskVars, seq, live, page, hidx, zombies, hubVars, faults>>

\* ... and markHandler records it, in a statement of its own.
MarkHandler(n) ==
    /\ pc[n] = "mark"
    /\ \E i \in page[n] :
         /\ Least(i, page[n])
         /\ applied' = [applied EXCEPT ![n] = @ \cup {<<feed[i], hidx[n]>>}]
    /\ hidx' = [hidx EXCEPT ![n] = @ + 1]
    /\ pc' = [pc EXCEPT ![n] = "handle"]
    /\ UNCHANGED <<log, pushCur, hubCur, stored, seq, live, page, zombies, hubVars, runs, faults>>

\* What SetHubCursor(c) does after row i of the page.
CursorSet(n, i, c) ==
    /\ pc[n] = "handle"
    /\ Least(i, page[n])
    /\ hidx[n] \notin HandlersOf(feed[i])
    /\ hubCur' = [hubCur EXCEPT ![n] = c]
    /\ page' = [page EXCEPT ![n] = @ \ {i}]
    /\ hidx' = [hidx EXCEPT ![n] = 0]
    /\ pc' = [pc EXCEPT ![n] = "apply"]
    /\ UNCHANGED <<log, pushCur, stored, applied, seq, live, zombies, hubVars, runs, faults>>

\* Mutant: the cursor jumps to the head that FeedSince reports.
SetHubCursorHead(n) == \E i \in page[n] : CursorSet(n, i, Len(feed))

\* ApplyEvent returned: SetHubCursor(p.HubSeq).
SetHubCursor(n) == \E i \in page[n] : CursorSet(n, i, i)

\* The page is done; the drains and the roster exchange follow, then the Tick ends.
TickEnds(n) ==
    /\ pc[n] = "apply"
    /\ page[n] = {}
    /\ pc' = [pc EXCEPT ![n] = "idle"]
    /\ UNCHANGED <<diskVars, seq, live, page, hidx, zombies, hubVars, runs, faults>>

-----------------------------------------------------------------------------
(* Failures. *)

\* What n's Syncer leaves behind when it stops where it is: an unanswered push
\* may still be served, or never (a zombie nobody schedules).
Abandoned(n) == zombies[n] \cup Unfinished({live[n]})

StopTick(n, where) ==
    /\ pc' = [pc EXCEPT ![n] = where]
    /\ live' = [live EXCEPT ![n] = NoRequest]
    /\ zombies' = [zombies EXCEPT ![n] = Abandoned(n)]
    /\ page' = [page EXCEPT ![n] = {}]
    /\ hidx' = [hidx EXCEPT ![n] = 0]

\* Mutant: a failed handler is marked "applied" instead of "failed".
TickAbortsMarking(n) ==
    /\ pc[n] \notin {"idle", "down"}
    /\ Fault
    /\ StopTick(n, "idle")
    /\ applied' = [applied EXCEPT ![n] =
         @ \cup {<<feed[i], hidx[n]>> : i \in {j \in page[n] : hidx[n] \in HandlersOf(feed[j])}}]
    /\ UNCHANGED <<log, pushCur, hubCur, stored, seq, hubVars, runs>>

\* An RPC error, a lost answer, a failed statement or a handler's error:
\* Tick returns the error and Run tries again at the next tick.
TickAborts(n) ==
    /\ pc[n] \notin {"idle", "down"}
    /\ Fault
    /\ StopTick(n, "idle")
    /\ UNCHANGED <<diskVars, seq, hubVars, runs>>

\* Mutant: events are only buffered until they are pushed.
CrashLosesTail(n) ==
    /\ pc[n] # "down"
    /\ Fault
    /\ StopTick(n, "down")
    /\ seq' = [seq EXCEPT ![n] = 0]
    /\ log' = [log EXCEPT ![n] = {s \in @ : s <= pushCur[n]}]
    /\ UNCHANGED <<pushCur, hubCur, stored, applied, hubVars, runs>>

Crash(n) ==
    /\ pc[n] # "down"
    /\ Fault
    /\ StopTick(n, "down")
    /\ seq' = [seq EXCEPT ![n] = 0]
    /\ UNCHANGED <<diskVars, hubVars, runs>>

\* What a restart does when sync_state then holds these cursors.
RestartedWith(n, push, hub) ==
    /\ pc[n] = "down"
    /\ \E m \in log[n] \cup {0} :
         /\ Greatest(m, log[n] \cup {0})
         /\ seq' = [seq EXCEPT ![n] = m]
    /\ pc' = [pc EXCEPT ![n] = "idle"]
    /\ pushCur' = [pushCur EXCEPT ![n] = push]
    /\ hubCur' = [hubCur EXCEPT ![n] = hub]
    /\ UNCHANGED <<log, stored, applied, live, page, hidx, zombies, hubVars, runs, faults>>

\* Mutant: the schema's INSERT OR IGNORE INTO sync_state as INSERT OR REPLACE.
RestartResetting(n) == RestartedWith(n, 0, 0)

\* Mutant: Migrate without the query that resumes the counter.
RestartFromZero(n) ==
    /\ pc[n] = "down"
    /\ pc' = [pc EXCEPT ![n] = "idle"]
    /\ UNCHANGED <<diskVars, seq, live, page, hidx, zombies, hubVars, runs, faults>>

\* main, Store.Open and Migrate: the counter resumes from MAX(seq).
Restart(n) == RestartedWith(n, pushCur[n], hubCur[n])

-----------------------------------------------------------------------------
\* What the Syncer and the hub do for node n by themselves.
Sync(n) ==
    \/ TickNothingToPush(n) \/ TickPush(n) \/ PushAcked(n) \/ HubServes(n)
    \/ Pull(n) \/ ApplyStores(n) \/ HandlerSkipped(n) \/ HandlerRuns(n)
    \/ MarkHandler(n) \/ SetHubCursor(n) \/ TickEnds(n) \/ Restart(n)

Next ==
    \E n \in Node :
        \/ Emit(n) \/ EmitFails(n)
        \/ Sync(n)
        \/ HubServesZombie(n)
        \/ TickAborts(n) \/ Crash(n)

Spec == Init /\ [][Next]_vars

\* Run's ticker fires for ever, the hub answers, an operator restarts a node.
\* Nothing is assumed of sessions, of failures or of abandoned requests.
Fairness == \A n \in Node : WF_vars(Sync(n))

FairSpec == Spec /\ Fairness

-----------------------------------------------------------------------------
(* Properties. *)

TypeOK ==
    /\ log \in [Node -> SUBSET Seqs]
    /\ seq \in [Node -> 0..MaxSeq]
    /\ pushCur \in [Node -> 0..MaxSeq]
    /\ hubCur \in [Node -> Nat]
    /\ stored \in [Node -> SUBSET EventId]
    /\ applied \in [Node -> SUBSET HandlerKey]
    /\ pc \in [Node -> {"idle", "push", "pull", "apply", "handle", "mark", "down"}]
    /\ live \in [Node -> Request]
    /\ zombies \in [Node -> SUBSET Request]
    /\ page \in [Node -> SUBSET Nat]
    /\ hidx \in [Node -> Nat]
    /\ feed \in Seq(EventId)
    /\ ledger \in [Obligation -> Debt]
    /\ runs \in [Node -> [HandlerKey -> Nat]]
    /\ faults \in 0..MaxFaults

\* Every event the push cursor has passed is in the hub's feed, whatever was
\* lost, retried or abandoned: Tick never skips an event of its own log.
PushedIsInFeed ==
    \A n \in Node : \A s \in log[n] : s <= pushCur[n] => InFeed(<<n, s>>)

\* AppendEvents keeps one row per event, although a retried batch and an
\* abandoned one may be served row by row at the same time.
FeedHasNoDuplicates ==
    \A i, j \in 1..Len(feed) : feed[i] = feed[j] => i = j

\* The feed lists the events of one node in the order in which it emitted
\* them, although several requests of that node may be interleaved.
FeedInSourceOrder ==
    \A i, j \in 1..Len(feed) :
        feed[i][1] = feed[j][1] /\ i < j => feed[i][2] < feed[j][2]

\* e is stored at n and each of its handlers is marked applied there.
FullyApplied(n, e) ==
    /\ e \in stored[n]
    /\ \A i \in HandlersOf(e) : <<e, i>> \in applied[n]

\* The pull cursor never passes a foreign event that is not stored and fully
\* handled: a failed handler or a crash inside ApplyEvent holds the cursor.
NoGapBelowCursor ==
    \A n \in Node : \A i \in 1..Len(feed) :
        i <= hubCur[n] /\ feed[i][1] # n => FullyApplied(n, feed[i])

\* A node ingests another node's events in emission order: when ApplyEvent
\* inserts an event, every earlier one of its source is already fully handled.
AppliedInSourceOrder ==
    \A m \in Node : \A e \in stored[m] : \A s \in log[e[1]] :
        s < e[2] => FullyApplied(m, <<e[1], s>>)

\* A handler marked applied has run, and it runs a second time only after a
\* fault between the handler and its mark: ApplyEvent's bookkeeping by itself
\* repeats nothing ("Handlers run only the first time", eventlog.go:22).
HandlerRerunNeedsFault ==
    \A n \in Node : \A k \in HandlerKey :
        /\ k \in applied[n] => runs[n][k] > 0
        /\ runs[n][k] <= faults + 1

\* Neither cursor of sync_state ever moves back, whatever fails.
CursorsNeverRegress ==
    [][\A n \in Node : pushCur'[n] >= pushCur[n] /\ hubCur'[n] >= hubCur[n]]_vars

\* A debt the hub's Ledger shows as resolved is never open again, whatever is
\* replayed by retries and abandoned requests.
ResolvedStaysResolved ==
    [][\A o \in Obligation : ledger[o].status = "resolved" => ledger'[o].status = "resolved"]_vars

\* Every event in a node's log is in the end stored and fully handled at every
\* other node, once the faults are over.
EveryEventArrives ==
    \A n \in Node : \A m \in Node \ {n} : \A s \in Seqs :
        s \in log[n] ~> FullyApplied(m, <<n, s>>)

-----------------------------------------------------------------------------
(* The inductive invariant behind the safety properties. *)

\* Store.seq is ahead of every stored row while the node runs, so Emit never
\* reuses a seq; the push cursor is the seq of a row.
CountersFollowLog ==
    \A n \in Node :
        /\ pc[n] # "down" => \A s \in log[n] : s <= seq[n]
        /\ pushCur[n] \in log[n] \cup {0}

\* Requests hold rows of the log, and what precedes a row still to be appended
\* is in the feed or still to be appended by the same request.
RequestsLeaveNoHole ==
    \A n \in Node : \A r \in zombies[n] \cup {live[n]} :
        /\ r.todo \subseteq log[n]
        /\ \A t \in r.todo : \A s \in log[n] :
             s < t => s \in r.todo \/ InFeed(<<n, s>>)

\* The request a Tick waits for carries everything up to its last seq.
LiveRequestCovers ==
    \A n \in Node :
        /\ pc[n] # "push" => live[n] = NoRequest
        /\ pc[n] = "push" =>
             /\ live[n].top \in log[n]
             /\ pushCur[n] <= live[n].top
             /\ \A s \in log[n] : s <= live[n].top => s \in live[n].todo \/ InFeed(<<n, s>>)

\* Feed rows are rows of their source's log, and all earlier rows of that log
\* are in the feed too.
FeedIsClosed ==
    \A i \in 1..Len(feed) :
        /\ feed[i][2] \in log[feed[i][1]]
        /\ \A s \in log[feed[i][1]] : s < feed[i][2] => InFeed(<<feed[i][1], s>>)

\* A page holds foreign rows beyond the cursor and skips none.
PageFollowsCursor ==
    \A n \in Node :
        /\ hubCur[n] <= Len(feed)
        /\ \A i \in page[n] :
             /\ i \in 1..Len(feed) /\ i > hubCur[n] /\ feed[i][1] # n
             /\ \A j \in 1..Len(feed) :
                  hubCur[n] < j /\ j < i /\ feed[j][1] # n => j \in page[n]

\* The event ApplyEvent works on is stored, and the handlers before the current
\* index are marked.
HandlingInProgress ==
    \A n \in Node : pc[n] \in {"handle", "mark"} =>
        \E i \in page[n] :
            /\ Least(i, page[n])
            /\ feed[i] \in stored[n]
            /\ \A k \in HandlersOf(feed[i]) : k < hidx[n] => <<feed[i], k>> \in applied[n]
            /\ hidx[n] > 0
            /\ pc[n] = "mark" => hidx[n] \in HandlersOf(feed[i])

\* A stored event is a foreign feed row before which nothing is missing.
StoredFollowsFeed ==
    \A n \in Node : \A e \in stored[n] :
        /\ e[1] # n
        /\ \E i \in 1..Len(feed) :
             /\ feed[i] = e
             /\ \A j \in 1..i-1 : feed[j][1] # n => FullyApplied(n, feed[j])

\* Handler k[2] of event k[1] has run at n and is about to be marked.
Marking(n, k) ==
    /\ pc[n] = "mark"
    /\ \E i \in page[n] : Least(i, page[n]) /\ k = <<feed[i], hidx[n]>>

\* Every execution of a handler beyond the first is paid for by a fault.
RunsAreAccounted ==
    \A n \in Node : \A k \in HandlerKey :
        /\ k \in applied[n] \/ Marking(n, k) => runs[n][k] > 0
        /\ runs[n][k] <= faults + 1
        /\ runs[n][k] = faults + 1 => k \in applied[n] \/ Marking(n, k)

IndInv ==
    /\ TypeOK
    /\ CountersFollowLog
    /\ RequestsLeaveNoHole
    /\ LiveRequestCovers
    /\ FeedIsClosed
    /\ FeedHasNoDuplicates
    /\ FeedInSourceOrder
    /\ PushedIsInFeed
    /\ PageFollowsCursor
    /\ HandlingInProgress
    /\ NoGapBelowCursor
    /\ StoredFollowsFeed
    /\ RunsAreAccounted

=============================================================================
