-------------------------- MODULE ObligationsProof --------------------------
(***************************************************************************)
(* The id of a debt is never given out again, payments follow their debts  *)
(* through the feed, and a resolution is never undone, for any sessions,   *)
(* debts and failures; weights are left untyped in this.  Then the amounts:*)
(* consumeForCost hands over goods worth the price and no unit too many,   *)
(* and mirrors to which everything is delivered show what is owed.         *)
(***************************************************************************)
EXTENDS Obligations, WellFoundedInduction, TLAPS

\* log and feed are sequences, of events whose weights are any values.
Shape == (\E S : log \in [Node -> Seq(S)]) /\ (\E S : feed \in Seq(S))

\* No step takes back a row, a resolution, an event or an overlap, or
\* announces an obligation whose debt.created is lost.
Grows ==
    /\ \A n \in Node : \A o \in Obligation :
         /\ table[n][o].status # "none" => table'[n][o].status # "none"
         /\ table[n][o].status = "resolved" => table'[n][o].status = "resolved"
    /\ \A n \in Node :
         /\ Len(log'[n]) >= Len(log[n])
         /\ \A i \in 1..Len(log[n]) : log'[n][i] = log[n][i]
    /\ Len(feed') >= Len(feed)
    /\ \A k \in 1..Len(feed) : feed'[k] = feed[k]
    /\ \A o \in Obligation : table[o[1]][o].status # "none" /\ Unannounced(o) => Unannounced(o)'
    /\ "overlap" \in astray => "overlap" \in astray'

LEMMA LengthsAreNat ==
    ASSUME Shape
    PROVE  Len(feed) \in Nat /\ \A n \in Node : Len(log[n]) \in Nat
<1>1. \A n \in Node : Len(log[n]) \in Nat
  <2>1. PICK S : log \in [Node -> Seq(S)]
    BY DEF Shape
  <2>. QED
    BY <2>1
<1>2. Len(feed) \in Nat
  <2>1. PICK S : feed \in Seq(S)
    BY DEF Shape
  <2>. QED
    BY <2>1
<1>. QED
  BY <1>1, <1>2

LEMMA ObligationIsPair ==
    ASSUME NEW o \in Obligation
    PROVE  o[1] \in Node /\ o[2] \in 1..MaxDebts /\ o = <<o[1], o[2]>>
  BY DEF Obligation

LEMMA SpreadStays ==
    ASSUME Shape, Shape', Grows, NEW o, Spread(o)
    PROVE  Spread(o)'
<1>1. PICK k \in 1..Len(feed) : IsCreated(feed[k].ev, o)
  BY DEF Spread
<1>2. k \in 1..Len(feed')
  <2>1. Len(feed) \in Nat /\ Len(feed') >= Len(feed)
    BY LengthsAreNat DEF Grows
  <2>2. Len(feed') \in Int
    <3>1. PICK S : feed' \in Seq(S)
      BY DEF Shape
    <3>. QED
      BY <3>1
  <2>. QED
    BY <2>1, <2>2
<1>3. IsCreated(feed'[k].ev, o)
  BY <1>1 DEF Grows
<1>. QED
  BY <1>2, <1>3 DEF Spread, IsCreated

LEMMA BackedStays ==
    ASSUME Grows, NEW n \in Node, NEW ev, Backed(n, ev)
    PROVE  Backed(n, ev)'
  BY DEF Grows, Backed

LEMMA FollowsStays ==
    ASSUME Shape, Shape', Grows, NEW n \in Node, NEW o \in Obligation,
           table[o[1]][o].status # "none",
           NEW i \in Int, NEW j \in Int, i <= j, i <= Len(log[n]), Follows(n, i, o)
    PROVE  Follows(n, j, o)'
<1>1. CASE Spread(o)
  BY <1>1, SpreadStays DEF Follows
<1>2. CASE Unannounced(o)
  BY <1>2 DEF Follows, Grows
<1>3. CASE n = o[1] /\ \E k \in 1..i : IsCreated(log[n][k], o)
  <2>1. PICK k \in 1..i : IsCreated(log[n][k], o)
    BY <1>3
  <2>2. k \in 1..j /\ k \in 1..Len(log[n])
    BY LengthsAreNat
  <2>3. IsCreated(log'[n][k], o)
    BY <2>1, <2>2 DEF Grows
  <2>. QED
    BY <1>3, <2>2, <2>3 DEF Follows, IsCreated
<1>. QED
  BY <1>1, <1>2, <1>3 DEF Follows

-----------------------------------------------------------------------------
(* What a step has to show of what it adds. *)

\* New rows.
NewRows ==
    \A n \in Node : \A o \in Obligation :
        table'[n][o].status # "none" /\ table[n][o].status = "none" =>
            /\ table'[o[1]][o].status # "none"
            /\ n # o[1] => Spread(o)'

\* A new event in the log of n, at j.
NewEvents ==
    \A n \in Node : \A j \in 1..Len(log'[n]) :
        j > Len(log[n]) =>
            /\ Backed(n, log[n][j])'
            /\ "overlap" \notin astray' /\ log'[n][j].type # "debt.created"
                   => Follows(n, j - 1, log[n][j].ob)'

\* What a session begins, or goes on with.
NewWork ==
    \A s \in Session :
        /\ work'[s].emit # << >> =>
             \/ here' = here /\ work'[s].emit = work[s].emit
             \/ /\ Backed(here, work[s].emit[1])'
                /\ "overlap" \notin astray' /\ work'[s].emit[1].type # "debt.created"
                       => Follows(here, Len(log[here]), work[s].emit[1].ob)'
        /\ \A d \in work'[s].todo :
             \/ here' = here /\ d \in work[s].todo
             \/ /\ d.ob \in Obligation /\ table'[here'][d.ob].status # "none"
                /\ "overlap" \notin astray' => Follows(here, Len(log[here]), d.ob)'

LEMMA RowsKept ==
    ASSUME IdInv, Shape, Shape', Grows, NewRows
    PROVE  RowsAreCreated'
<1>. SUFFICES ASSUME NEW n \in Node, NEW o \in Obligation, table'[n][o].status # "none"
              PROVE  table'[o[1]][o].status # "none" /\ (n # o[1] => Spread(o)')
  BY DEF RowsAreCreated
<1>1. CASE table[n][o].status = "none"
  BY <1>1 DEF NewRows
<1>2. CASE table[n][o].status # "none"
  <2>1. table[o[1]][o].status # "none" /\ (n # o[1] => Spread(o))
    BY <1>2 DEF IdInv, RowsAreCreated
  <2>2. table'[o[1]][o].status # "none"
    BY <2>1, ObligationIsPair DEF Grows
  <2>. QED
    BY <2>1, <2>2, SpreadStays
<1>. QED
  BY <1>1, <1>2

LEMMA EventsKept ==
    ASSUME IdInv, Shape, Shape', Grows, NewEvents, NewWork
    PROVE  EventsHaveRows'
<1>1. ASSUME NEW n \in Node, NEW j \in 1..Len(log'[n]) PROVE Backed(n, log[n][j])'
  <2>1. CASE j > Len(log[n])
    BY <2>1 DEF NewEvents
  <2>2. CASE ~(j > Len(log[n]))
    <3>1. j \in 1..Len(log[n])
      BY <2>2, LengthsAreNat
    <3>2. Backed(n, log[n][j]) /\ log'[n][j] = log[n][j]
      BY <3>1 DEF IdInv, EventsHaveRows, Grows
    <3>3. PICK ev : ev = log[n][j]
      OBVIOUS
    <3>4. Backed(n, ev)'
      BY <3>2, <3>3, BackedStays
    <3>. QED
      BY <3>2, <3>3, <3>4 DEF Backed
  <2>. QED
    BY <2>1, <2>2
<1>2. here \in Node
  BY DEF IdInv, TypeOK
<1>3. ASSUME NEW s \in Session, work'[s].emit # << >> PROVE Backed(here, work[s].emit[1])'
  <2>1. CASE here' = here /\ work'[s].emit = work[s].emit
    <3>1. Backed(here, work[s].emit[1])
      BY <1>3, <2>1 DEF IdInv, EventsHaveRows
    <3>. QED
      BY <1>2, <2>1, <3>1 DEF Backed, Grows
  <2>. QED
    BY <1>3, <2>1 DEF NewWork
<1>4. ASSUME NEW s \in Session, NEW d \in work'[s].todo
      PROVE  d.ob \in Obligation /\ table'[here'][d.ob].status # "none"
  <2>1. CASE here' = here /\ d \in work[s].todo
    BY <1>2, <2>1 DEF IdInv, EventsHaveRows, Grows
  <2>. QED
    BY <1>4, <2>1 DEF NewWork
<1>. QED
  BY <1>1, <1>3, <1>4 DEF EventsHaveRows

\* An obligation with a row anywhere has one at its source.
LEMMA SourceHasRow ==
    ASSUME IdInv, NEW n \in Node, NEW o \in Obligation, table[n][o].status # "none"
    PROVE  table[o[1]][o].status # "none"
  BY DEF IdInv, RowsAreCreated

LEMMA PaymentsKept ==
    ASSUME IdInv, PaymentsFollow, Shape, Shape', Grows, NewEvents, NewWork
    PROVE  PaymentsFollow'
<1>. SUFFICES ASSUME "overlap" \notin astray'
              PROVE  /\ \A n \in Node : \A j \in 1..Len(log'[n]) :
                          log'[n][j].type # "debt.created" => Follows(n, j - 1, log[n][j].ob)'
                     /\ \A s \in Session :
                          /\ work'[s].emit # << >> /\ work'[s].emit[1].type # "debt.created"
                               => Follows(here, Len(log[here]), work[s].emit[1].ob)'
                          /\ \A d \in work'[s].todo : Follows(here, Len(log[here]), d.ob)'
  BY DEF PaymentsFollow
<1>1. "overlap" \notin astray
  BY DEF Grows
<1>2. here \in Node
  BY DEF IdInv, TypeOK
<1>3. \A n \in Node : Len(log[n]) \in Nat /\ Len(log'[n]) \in Int /\ Len(log[n]) <= Len(log'[n])
  <2>1. PICK S : log' \in [Node -> Seq(S)]
    BY DEF Shape
  <2>2. \A n \in Node : Len(log'[n]) \in Int
    BY <2>1
  <2>3. \A n \in Node : Len(log[n]) \in Nat /\ Len(log'[n]) >= Len(log[n])
    BY LengthsAreNat DEF Grows
  <2>. QED
    BY <2>2, <2>3
<1>4. ASSUME NEW n \in Node, NEW j \in 1..Len(log'[n]), log'[n][j].type # "debt.created"
      PROVE  Follows(n, j - 1, log[n][j].ob)'
  <2>1. CASE j > Len(log[n])
    BY <1>4, <2>1 DEF NewEvents
  <2>2. CASE ~(j > Len(log[n]))
    <3>1. j \in 1..Len(log[n])
      BY <1>3, <2>2
    <3>2. log'[n][j] = log[n][j]
      BY <3>1 DEF Grows
    <3>3. PICK o \in Obligation : o = log[n][j].ob /\ table[n][o].status # "none"
      BY <3>1 DEF IdInv, EventsHaveRows, Backed
    <3>4. Follows(n, j - 1, o)
      BY <1>1, <1>4, <3>1, <3>2, <3>3 DEF PaymentsFollow
    <3>5. j - 1 \in Int /\ j - 1 <= Len(log[n]) /\ j - 1 <= j - 1
      BY <1>3, <3>1
    <3>6. Follows(n, j - 1, o)'
      BY <3>3, <3>4, <3>5, SourceHasRow, FollowsStays
    <3>. QED
      BY <3>2, <3>3, <3>6
  <2>. QED
    BY <2>1, <2>2
<1>5. ASSUME NEW o \in Obligation, here' = here, table[here][o].status # "none",
             Follows(here, Len(log[here]), o)
      PROVE  Follows(here, Len(log[here]), o)'
  <2>. PICK n \in Node, i \in Int, j \in Int : n = here /\ i = Len(log[n]) /\ j = Len(log'[n])
    BY <1>2, <1>3
  <2>1. i <= j /\ i <= Len(log[n]) /\ Follows(n, i, o) /\ table[n][o].status # "none"
    BY <1>3, <1>5
  <2>2. Follows(n, j, o)'
    BY <2>1, SourceHasRow, FollowsStays
  <2>. QED
    BY <1>5, <2>2
<1>6. ASSUME NEW s \in Session, work'[s].emit # << >>, work'[s].emit[1].type # "debt.created"
      PROVE  Follows(here, Len(log[here]), work[s].emit[1].ob)'
  <2>1. CASE here' = here /\ work'[s].emit = work[s].emit
    <3>1. PICK o \in Obligation : o = work[s].emit[1].ob /\ table[here][o].status # "none"
      BY <1>6, <2>1 DEF IdInv, EventsHaveRows, Backed
    <3>2. Follows(here, Len(log[here]), o)
      BY <1>1, <1>6, <2>1, <3>1 DEF PaymentsFollow
    <3>3. Follows(here, Len(log[here]), o)'
      BY <1>5, <2>1, <3>1, <3>2
    <3>. QED
      BY <2>1, <3>1, <3>3
  <2>. QED
    BY <1>6, <2>1 DEF NewWork
<1>7. ASSUME NEW s \in Session, NEW d \in work'[s].todo
      PROVE  Follows(here, Len(log[here]), d.ob)'
  <2>1. CASE here' = here /\ d \in work[s].todo
    <3>1. d.ob \in Obligation /\ table[here][d.ob].status # "none"
      BY <2>1 DEF IdInv, EventsHaveRows
    <3>2. Follows(here, Len(log[here]), d.ob)
      BY <1>1, <2>1 DEF PaymentsFollow
    <3>. QED
      BY <1>5, <2>1, <3>1, <3>2
  <2>. QED
    BY <1>7, <2>1 DEF NewWork
<1>. QED
  BY <1>4, <1>6, <1>7

-----------------------------------------------------------------------------
(* The feed. *)

\* What the feed holds is backed by the node it came from.
LEMMA FeedBacked ==
    ASSUME IdInv, FeedIsPushed, NEW k \in 1..Len(feed)
    PROVE  /\ feed[k].src \in Node /\ Backed(feed[k].src, feed[k].ev)
           /\ feed[k].ev.ob \in Obligation
           /\ table[feed[k].ev.ob[1]][feed[k].ev.ob].status # "none"
<1>1. feed[k].src \in Node
  BY DEF IdInv, TypeOK
<1>2. PICK i \in 1..Len(log[feed[k].src]) : feed[k].ev = log[feed[k].src][i]
  BY DEF FeedIsPushed
<1>3. Backed(feed[k].src, feed[k].ev)
  BY <1>1, <1>2 DEF IdInv, EventsHaveRows
<1>4. feed[k].ev.ob \in Obligation /\ table[feed[k].src][feed[k].ev.ob].status # "none"
  BY <1>3 DEF Backed
<1>. QED
  BY <1>1, <1>3, <1>4, SourceHasRow

LEMMA FeedSame ==
    ASSUME IdInv, FeedIsPushed, CreatedFirst, Shape, Shape', Grows, UNCHANGED <<feed, sent>>
    PROVE  FeedIsPushed' /\ CreatedFirst'
<1>1. \A n \in Node : Len(log[n]) \in Nat /\ Len(log'[n]) \in Int /\ Len(log[n]) <= Len(log'[n])
  <2>1. PICK S : log' \in [Node -> Seq(S)]
    BY DEF Shape
  <2>2. \A n \in Node : Len(log'[n]) \in Int
    BY <2>1
  <2>3. \A n \in Node : Len(log[n]) \in Nat /\ Len(log'[n]) >= Len(log[n])
    BY LengthsAreNat DEF Grows
  <2>. QED
    BY <2>2, <2>3
<1>2. ASSUME NEW k \in 1..Len(feed)
      PROVE  \E i \in 1..Len(log'[feed[k].src]) : feed[k].ev = log'[feed[k].src][i]
  <2>1. PICK n \in Node : n = feed[k].src
    BY DEF IdInv, TypeOK
  <2>2. PICK i \in 1..Len(log[n]) : feed[k].ev = log[n][i]
    BY <2>1 DEF FeedIsPushed
  <2>3. i \in 1..Len(log'[n]) /\ log'[n][i] = log[n][i]
    BY <1>1 DEF Grows
  <2>. QED
    BY <2>1, <2>2, <2>3
<1>3. ASSUME NEW n \in Node, NEW i \in 1..sent[n]
      PROVE  \E k \in 1..Len(feed) : feed[k].src = n /\ feed[k].ev = log'[n][i]
  <2>1. PICK k \in 1..Len(feed) : feed[k].src = n /\ feed[k].ev = log[n][i]
    BY DEF FeedIsPushed
  <2>2. i \in 1..Len(log[n])
    <3>1. sent[n] <= Len(log[n]) /\ sent[n] \in Nat
      BY DEF IdInv, TypeOK
    <3>. QED
      BY <1>1, <3>1
  <2>3. log'[n][i] = log[n][i]
    BY <2>2 DEF Grows
  <2>. QED
    BY <2>1, <2>3
<1>4. ASSUME "overlap" \notin astray', NEW k \in 1..Len(feed), feed[k].ev.type # "debt.created"
      PROVE  \/ \E j \in 1..k - 1 : IsCreated(feed[j].ev, feed[k].ev.ob)
             \/ Unannounced(feed[k].ev.ob)'
  <2>1. "overlap" \notin astray
    BY <1>4 DEF Grows
  <2>2. PICK o \in Obligation : o = feed[k].ev.ob /\ table[o[1]][o].status # "none"
    BY FeedBacked
  <2>3. \/ \E j \in 1..k - 1 : IsCreated(feed[j].ev, o)
        \/ Unannounced(o)
    BY <1>4, <2>1, <2>2 DEF CreatedFirst
  <2>4. Unannounced(o) => Unannounced(o)'
    BY <2>2 DEF Grows
  <2>. QED
    BY <2>2, <2>3, <2>4
<1>. QED
  BY <1>2, <1>3, <1>4 DEF FeedIsPushed, CreatedFirst, IsCreated

\* What HandlersKeep says of entry k of the feed at node n.
KeptAt(n, k) ==
    LET ev == feed[k].ev IN
    /\ ev.type = "debt.created" => table[n][ev.ob].status # "none"
    /\ "overlap" \notin astray /\ ev.type = "debt.resolved" =>
         table[n][ev.ob].status = "resolved" \/ (n # ev.ob[1] /\ Unannounced(ev.ob))

LEMMA KeptAtStays ==
    ASSUME IdInv, FeedIsPushed, Shape, Shape', Grows,
           NEW n \in Node, NEW k \in 1..Len(feed), KeptAt(n, k)
    PROVE  KeptAt(n, k)'
<1>1. feed'[k] = feed[k]
  BY DEF Grows
<1>2. PICK o \in Obligation : o = feed[k].ev.ob /\ table[o[1]][o].status # "none"
  BY FeedBacked
<1>3. /\ table[n][o].status # "none" => table'[n][o].status # "none"
      /\ table[n][o].status = "resolved" => table'[n][o].status = "resolved"
      /\ Unannounced(o) => Unannounced(o)'
      /\ "overlap" \in astray => "overlap" \in astray'
  BY <1>2 DEF Grows
<1>4. /\ feed[k].ev.type = "debt.created" => table[n][o].status # "none"
      /\ "overlap" \notin astray /\ feed[k].ev.type = "debt.resolved" =>
           table[n][o].status = "resolved" \/ (n # o[1] /\ Unannounced(o))
  BY <1>2 DEF KeptAt
<1>. QED
  BY <1>1, <1>2, <1>3, <1>4 DEF KeptAt

\* Entries on which a handler has run are in the feed.
LEMMA HandledIsInFeed ==
    ASSUME IdInv, Shape, HandlersKeep, NEW n \in Node
    PROVE  /\ cur[n] \in Nat /\ Handling(n) \in Nat /\ Handling(n) <= Len(feed)
           /\ \A k \in 1..Handling(n) : k \in 1..Len(feed) /\ KeptAt(n, k)
<1>1. Len(feed) \in Nat
  BY LengthsAreNat
<1>2. cur[n] \in 0..Len(feed)
  BY DEF IdInv, TypeOK
<1>3. ran[n] => cur[n] < Len(feed)
  BY DEF HandlersKeep
<1>4. Handling(n) \in Nat /\ Handling(n) <= Len(feed) /\ cur[n] \in Nat
  BY <1>1, <1>2, <1>3 DEF Handling
<1>5. \A k \in 1..Handling(n) : KeptAt(n, k)
  BY DEF HandlersKeep, KeptAt
<1>. QED
  BY <1>1, <1>4, <1>5

LEMMA HandlersKept ==
    ASSUME DebtInv, Shape, Shape', Grows,
           \A n \in Node :
               /\ ran'[n] => cur'[n] < Len(feed') /\ feed'[cur'[n] + 1].src # n
               /\ \A k \in 1..Handling(n)' : k \in 1..Handling(n) \/ KeptAt(n, k)'
    PROVE  HandlersKeep'
<1>1. ASSUME NEW n \in Node, NEW k \in 1..Handling(n)' PROVE KeptAt(n, k)'
  <2>1. CASE k \in 1..Handling(n)
    <3>1. k \in 1..Len(feed) /\ KeptAt(n, k)
      BY <2>1, HandledIsInFeed DEF DebtInv
    <3>. QED
      BY <3>1, KeptAtStays DEF DebtInv
  <2>. QED
    BY <1>1, <2>1
<1>. QED
  BY <1>1 DEF HandlersKeep, KeptAt

LEMMA HandlersSame ==
    ASSUME DebtInv, Shape, Shape', Grows, UNCHANGED <<cur, ran>>
    PROVE  HandlersKeep'
<1>1. ASSUME NEW n \in Node, ran[n] PROVE cur[n] < Len(feed') /\ feed'[cur[n] + 1].src # n
  <2>1. cur[n] < Len(feed) /\ feed[cur[n] + 1].src # n
    BY <1>1 DEF DebtInv, HandlersKeep
  <2>2. cur[n] \in Nat /\ Len(feed) \in Nat
    BY LengthsAreNat, HandledIsInFeed DEF DebtInv
  <2>3. cur[n] + 1 \in 1..Len(feed)
    BY <2>1, <2>2
  <2>4. Len(feed') >= Len(feed) /\ feed'[cur[n] + 1] = feed[cur[n] + 1]
    BY <2>3 DEF Grows
  <2>5. Len(feed') \in Int
    <3>1. PICK S : feed' \in Seq(S)
      BY DEF Shape
    <3>. QED
      BY <3>1
  <2>. QED
    BY <2>1, <2>2, <2>4, <2>5
<1>2. \A n \in Node : Handling(n)' = Handling(n)
  BY DEF Handling
<1>. QED
  BY <1>1, <1>2, HandlersKept

\* Everything together, for a step that leaves the feed and the cursors alone.
LEMMA DebtsKept ==
    ASSUME DebtInv, Shape, Shape', Grows, TypeOK', IdsAreFresh', NewRows, NewEvents, NewWork,
           UNCHANGED feedVars
    PROVE  DebtInv'
<1>1. UNCHANGED <<feed, sent>> /\ UNCHANGED <<cur, ran>>
  BY DEF feedVars
<1>2. RowsAreCreated' /\ EventsHaveRows'
  BY RowsKept, EventsKept DEF DebtInv
<1>3. PaymentsFollow'
  BY PaymentsKept DEF DebtInv
<1>4. FeedIsPushed' /\ CreatedFirst'
  BY <1>1, FeedSame DEF DebtInv
<1>5. HandlersKeep'
  BY <1>1, HandlersSame
<1>. QED
  BY <1>2, <1>3, <1>4, <1>5 DEF DebtInv, IdInv

-----------------------------------------------------------------------------
(* Rows and sessions after one write. *)

Written(n, o, st, w) == [table EXCEPT ![n][o] = [status |-> st, weight |-> w]]

Set(s, td, am, em) == [work EXCEPT ![s] = [todo |-> td, amount |-> am, emit |-> em]]

LEMMA RowWritten ==
    ASSUME TypeOK, NEW n \in Node, NEW o \in Obligation,
           NEW st \in {"none", "open", "resolved"}, NEW w,
           table' = Written(n, o, st, w)
    PROVE  /\ RowsOK'
           /\ table'[n][o].status = st
           /\ \A m \in Node : \A x \in Obligation :
                m # n \/ x # o => table'[m][x].status = table[m][x].status
<1>. DEFINE r == [status |-> st, weight |-> w]
            R(x) == IF x = o THEN r
                    ELSE [status |-> table[n][x].status, weight |-> table[n][x].weight]
<1>1. r.status = st /\ r = [status |-> r.status, weight |-> r.weight]
  OBVIOUS
<1>2. table = [m \in Node |-> table[m]]
  BY DEF TypeOK, RowsOK
<1>3. \A m \in Node : \A x \in Obligation : table[m][x].status \in {"none", "open", "resolved"}
  BY DEF TypeOK, RowsOK
<1>4. \A m \in Node : table[m] = [x \in Obligation |->
                 [status |-> table[m][x].status, weight |-> table[m][x].weight]]
  BY DEF TypeOK, RowsOK
<1>5. table' = [table EXCEPT ![n] = [table[n] EXCEPT ![o] = r]]
  BY DEF Written
<1>6. /\ table' = [m \in Node |-> table'[m]]
      /\ table'[n] = [table[n] EXCEPT ![o] = r]
      /\ \A m \in Node \ {n} : table'[m] = table[m]
  BY <1>2, <1>5
<1>7. table[n] = [x \in Obligation |->
                 [status |-> table[n][x].status, weight |-> table[n][x].weight]]
  BY <1>4
<1>8. table'[n] = [x \in Obligation |-> R(x)]
  BY <1>6, <1>7
<1>9. ASSUME NEW x \in Obligation
      PROVE  /\ table'[n][x] = R(x)
             /\ R(x) = [status |-> R(x).status, weight |-> R(x).weight]
             /\ x # o => R(x).status = table[n][x].status
             /\ R(x).status \in {"none", "open", "resolved"}
  BY <1>1, <1>3, <1>8
<1>10. table'[n][o].status = st
  BY <1>1, <1>8
<1>. HIDE DEF R
<1>11. table'[n] = [x \in Obligation |->
                     [status |-> table'[n][x].status, weight |-> table'[n][x].weight]]
  BY <1>8, <1>9
<1>12. ASSUME NEW m \in Node
      PROVE  /\ table'[m] = [x \in Obligation |->
                     [status |-> table'[m][x].status, weight |-> table'[m][x].weight]]
             /\ \A x \in Obligation : table'[m][x].status \in {"none", "open", "resolved"}
             /\ \A x \in Obligation : m # n \/ x # o => table'[m][x].status = table[m][x].status
  <2>1. CASE m = n
    BY <1>9, <1>11, <2>1
  <2>2. CASE m # n
    <3>1. table'[m] = table[m]
      BY <1>6, <2>2
    <3>2. table[m] = [x \in Obligation |->
                     [status |-> table[m][x].status, weight |-> table[m][x].weight]]
      BY <1>4
    <3>. QED
      BY <1>3, <3>1, <3>2
  <2>. QED
    BY <2>1, <2>2
<1>13. RowsOK'
  BY <1>6, <1>12 DEF RowsOK
<1>. HIDE DEF r
<1>. QED
  BY <1>10, <1>12, <1>13

LEMMA WorkWritten ==
    ASSUME TypeOK, NEW s \in Session, NEW td, NEW am, NEW em,
           work' = Set(s, td, am, em)
    PROVE  /\ WorkOK' /\ work'[s].todo = td /\ work'[s].emit = em
           /\ \A t \in Session \ {s} : work'[t] = work[t]
<1>. DEFINE r == [todo |-> td, amount |-> am, emit |-> em]
            W(t) == IF t = s THEN r
                    ELSE [todo |-> work[t].todo, amount |-> work[t].amount, emit |-> work[t].emit]
<1>1. /\ r.todo = td /\ r.emit = em
      /\ r = [todo |-> r.todo, amount |-> r.amount, emit |-> r.emit]
  OBVIOUS
<1>2. work = [t \in Session |->
                  [todo |-> work[t].todo, amount |-> work[t].amount, emit |-> work[t].emit]]
  BY DEF TypeOK, WorkOK
<1>3. work' = [t \in Session |-> W(t)]
  BY <1>2 DEF Set
<1>4. ASSUME NEW t \in Session
      PROVE  /\ work'[t] = W(t)
             /\ W(t) = [todo |-> W(t).todo, amount |-> W(t).amount, emit |-> W(t).emit]
             /\ t # s => W(t) = work[t]
  BY <1>1, <1>2, <1>3
<1>5. work'[s] = r
  BY <1>3
<1>. HIDE DEF W
<1>6. work' = [t \in Session |->
                  [todo |-> work'[t].todo, amount |-> work'[t].amount, emit |-> work'[t].emit]]
  BY <1>3, <1>4
<1>7. \A t \in Session \ {s} : work'[t] = work[t]
  BY <1>4
<1>8. WorkOK'
  BY <1>6 DEF WorkOK
<1>. QED
  BY <1>1, <1>5, <1>7, <1>8

LEMMA Unwritten ==
    ASSUME TypeOK
    PROVE  (table' = table => RowsOK') /\ (work' = work => WorkOK')
  BY DEF TypeOK, RowsOK, WorkOK

\* Steps of sessions that neither open a debt nor emit.
LEMMA GrowsQuietly ==
    ASSUME Shape, UNCHANGED <<log, feed>>, "overlap" \in astray => "overlap" \in astray',
           \A n \in Node : \A o \in Obligation :
             /\ table[n][o].status # "none" => table'[n][o].status # "none"
             /\ table[n][o].status = "resolved" => table'[n][o].status = "resolved",
           \A s \in Session : \/ work'[s].emit = << >> \/ work'[s].emit = work[s].emit
                              \/ work'[s].emit[1].type # "debt.created"
    PROVE  Grows /\ Shape' /\ NewEvents
<1>1. \A o \in Obligation : Unannounced(o) => Unannounced(o)'
  BY DEF Unannounced, IsCreated
<1>2. Shape'
  BY DEF Shape
<1>3. \A n \in Node : Len(log'[n]) >= Len(log[n]) /\ Len(feed') >= Len(feed)
  BY LengthsAreNat
<1>4. Len(feed') >= Len(feed)
  BY LengthsAreNat
<1>5. NewEvents
  BY LengthsAreNat DEF NewEvents
<1>. QED
  BY <1>1, <1>2, <1>3, <1>4, <1>5 DEF Grows

\* The node's own rows of the counter, when no row appears there.
LEMMA IdsSame ==
    ASSUME IdInv, UNCHANGED oseq,
           \A n \in Node : \A k \in 1..MaxDebts :
               table'[n][<<n, k>>].status # "none" <=> table[n][<<n, k>>].status # "none"
    PROVE  IdsAreFresh'
  BY DEF IdInv, IdsAreFresh

\* Sessions that go on, or end.
LEMMA WorkEnds ==
    ASSUME \A s \in Session : \/ here' = here /\ work'[s] = work[s]
                              \/ work'[s].emit = << >> /\ work'[s].todo = {}
    PROVE  NewWork
  BY DEF NewWork

LEMMA FreeIsIdle == Free.emit = << >> /\ Free.todo = {}
  BY DEF Free

-----------------------------------------------------------------------------
(* The steps. *)

LEMMA Bounds == MaxDebts \in Nat /\ MaxGoods \in Nat /\ MaxMoves \in Nat /\ MaxFaults \in Nat
  BY NodesAssumption

LEMMA FaultTyped == TypeOK /\ Fault => faults' \in 0..MaxFaults
  BY Bounds DEF TypeOK, Fault

\* Rows and logs stay as they are, sessions go on, end, or begin a payment.
LEMMA QuietStep ==
    ASSUME DebtInv, Shape, TypeOK', UNCHANGED <<table, oseq, log, feedVars>>, NewWork,
           "overlap" \in astray => "overlap" \in astray',
           \A s \in Session : work'[s].emit = << >> \/ work'[s].emit = work[s].emit
    PROVE  DebtInv' /\ Shape'
<1>1. Grows /\ Shape' /\ NewEvents
  BY GrowsQuietly DEF feedVars
<1>2. NewRows
  BY DEF NewRows
<1>3. IdsAreFresh'
  BY IdsSame DEF DebtInv
<1>. QED
  BY <1>1, <1>2, <1>3, DebtsKept

LEMMA DebtFind ==
    ASSUME DebtInv, Shape, NEW g \in Good, Find(g)
    PROVE  DebtInv' /\ Shape'
<1>1. UNCHANGED <<here, table, oseq, log, feedVars, born, work, astray, moves, faults>>
  BY DEF Find
<1>2. found' \in 0..MaxGoods
  BY Bounds DEF Find, DebtInv, IdInv, TypeOK
<1>3. TypeOK'
  BY <1>1, <1>2, Unwritten DEF DebtInv, IdInv, TypeOK, feedVars
<1>4. NewWork
  BY <1>1, WorkEnds
<1>. QED
  BY <1>1, <1>3, <1>4, QuietStep

LEMMA DebtMove ==
    ASSUME DebtInv, Shape, NEW n \in Node, Move(n)
    PROVE  DebtInv' /\ Shape'
<1>1. UNCHANGED <<table, oseq, log, feedVars, born, work, astray, found, faults>>
  BY DEF Move
<1>2. moves' \in 0..MaxMoves /\ here' \in Node
  BY Bounds DEF Move, DebtInv, IdInv, TypeOK
<1>3. TypeOK'
  BY <1>1, <1>2, Unwritten DEF DebtInv, IdInv, TypeOK, feedVars
<1>4. \A s \in Session : work'[s] = Free
  BY <1>1 DEF Move, Busy
<1>5. NewWork
  BY <1>4, WorkEnds, FreeIsIdle
<1>. QED
  BY <1>1, <1>3, <1>5, QuietStep

\* A purchase that the goods cover.
LEMMA DebtPaidAtOnce ==
    ASSUME DebtInv, Shape,
           UNCHANGED <<here, log, feedVars, found, moves, faults>>,
           UNCHANGED <<table, oseq, born, work, owed, astray>>
    PROVE  DebtInv' /\ Shape'
<1>1. TypeOK'
  BY Unwritten DEF DebtInv, IdInv, TypeOK, feedVars
<1>2. NewWork
  BY WorkEnds
<1>. QED
  BY <1>1, <1>2, QuietStep

\* A session ends, with or without a failure.
LEMMA DebtEnds ==
    ASSUME DebtInv, Shape, NEW s \in Session, PayEnds(s) \/ PayFails(s) \/ EmitFails(s)
    PROVE  DebtInv' /\ Shape'
<1>1. UNCHANGED <<here, table, oseq, log, feedVars, born, found, moves>>
  BY DEF PayEnds, PayFails, EmitFails
<1>2. work' = Set(s, {}, 0, << >>)
  BY DEF PayEnds, PayFails, EmitFails, Free, Set
<1>3. astray' \in {astray, astray \cup {"fault"}} /\ faults' \in 0..MaxFaults
  BY FaultTyped DEF PayEnds, PayFails, EmitFails, DebtInv, IdInv, TypeOK
<1>4. TypeOK
  BY DEF DebtInv, IdInv
<1>5. /\ WorkOK' /\ work'[s].todo = {} /\ work'[s].emit = << >>
      /\ \A t \in Session \ {s} : work'[t] = work[t]
  BY <1>2, <1>4, WorkWritten
<1>6. TypeOK'
  BY <1>1, <1>3, <1>4, <1>5, Unwritten DEF TypeOK, feedVars
<1>7. NewWork
  BY <1>1, <1>5, WorkEnds
<1>. QED
  BY <1>1, <1>3, <1>5, <1>6, <1>7, QuietStep

\* A payment begins on rows whose debt.created is emitted or lost: no other
\* session of the player is between the row and the event.
LEMMA DebtPay ==
    ASSUME DebtInv, Shape, NEW s \in Session, PayDebt(s)
    PROVE  DebtInv' /\ Shape'
<1>1. UNCHANGED <<here, table, oseq, log, feedVars, born, found, moves, faults>>
  BY DEF PayDebt
<1>2. PICK a : work' = Set(s, OpenDebts(here), a, << >>)
  BY DEF PayDebt, Set
<1>3. /\ astray \cup Overlaps(s) \subseteq astray' /\ work[s] = Free
      /\ astray' \subseteq astray \cup Overlaps(s) \cup {"stale"}
  BY DEF PayDebt
<1>4. TypeOK /\ here \in Node
  BY DEF DebtInv, IdInv, TypeOK
<1>5. /\ WorkOK' /\ work'[s].todo = OpenDebts(here) /\ work'[s].emit = << >>
      /\ \A t \in Session \ {s} : work'[t] = work[t]
  BY <1>2, <1>4, WorkWritten
<1>6. TypeOK'
  <2>1. astray' \subseteq {"overlap", "stale", "fault"}
    BY <1>3, <1>4 DEF TypeOK, Overlaps
  <2>. QED
    BY <1>1, <1>4, <1>5, <2>1, Unwritten DEF TypeOK, feedVars
<1>7. ASSUME NEW d \in OpenDebts(here)
      PROVE  d.ob \in Obligation /\ table[here][d.ob].status # "none"
  BY DEF OpenDebts
<1>8. ASSUME NEW d \in OpenDebts(here), "overlap" \notin astray'
      PROVE  Follows(here, Len(log[here]), d.ob)'
  <2>1. \A t \in Session : work[t].emit = << >>
    <3>1. \A t \in Session : work[t] = Free
      BY <1>3, <1>8 DEF Overlaps, Busy
    <3>. QED
      BY <3>1, FreeIsIdle
  <2>2. \A t \in Session : work'[t].emit = << >>
    BY <1>5, <2>1
  <2>3. d.ob \in Obligation /\ (here # d.ob[1] => Spread(d.ob))
    BY <1>4, <1>7 DEF DebtInv, IdInv, RowsAreCreated
  <2>4. CASE here # d.ob[1]
    BY <1>1, <2>3, <2>4 DEF Follows, Spread, feedVars
  <2>5. CASE here = d.ob[1]
    <3>1. Unannounced(d.ob)' \/ \E i \in 1..Len(log[here]) : IsCreated(log[here][i], d.ob)
      BY <1>1, <2>2, <2>5 DEF Unannounced, IsCreated
    <3>. QED
      BY <1>1, <2>5, <3>1 DEF Follows, IsCreated
  <2>. QED
    BY <2>4, <2>5
<1>9. NewWork
  BY <1>1, <1>5, <1>7, <1>8 DEF NewWork
<1>. QED
  BY <1>1, <1>3, <1>5, <1>6, <1>9, QuietStep

\* A statement of a payment: the row is there, and the event waits.
LEMMA DebtStatement ==
    ASSUME DebtInv, Shape, NEW s \in Session, NEW n \in Node, n = here,
           NEW d \in work[s].todo, NEW o \in Obligation, o = d.ob,
           NEW type \in {"debt.resolved", "debt.adjusted"}, NEW w, NEW a,
           NEW st \in {"open", "resolved"}, NEW v,
           UNCHANGED <<here, oseq, log, feedVars, born, astray, found, moves, faults>>,
           work' = Set(s, work[s].todo \ {d}, a, <<Event(type, o, w)>>),
           table' = Written(n, o, st, v),
           type = "debt.resolved" => st = "resolved",
           table[n][o].status = "resolved" => st = "resolved"
    PROVE  DebtInv' /\ Shape'
<1>1. UNCHANGED <<here, oseq, log, feedVars, born, astray, found, moves, faults>>
  OBVIOUS
<1>2. TypeOK /\ here \in Node
  BY DEF DebtInv, IdInv, TypeOK
<1>3. st \in {"none", "open", "resolved"}
  OBVIOUS
<1>4. table[here][o].status # "none"
  BY DEF DebtInv, IdInv, EventsHaveRows
<1>5. /\ WorkOK' /\ work'[s].todo = work[s].todo \ {d} /\ work'[s].emit = <<Event(type, o, w)>>
      /\ \A t \in Session \ {s} : work'[t] = work[t]
  BY <1>2, WorkWritten
<1>6. /\ RowsOK' /\ table'[here][o].status = st
      /\ \A m \in Node : \A x \in Obligation :
                m # here \/ x # o => table'[m][x].status = table[m][x].status
  BY <1>2, <1>3, RowWritten
<1>7. TypeOK'
  BY <1>1, <1>2, <1>5, <1>6 DEF TypeOK, feedVars
<1>8. \A m \in Node : \A x \in Obligation :
        /\ table'[m][x].status # "none" <=> table[m][x].status # "none"
        /\ table[m][x].status = "resolved" => table'[m][x].status = "resolved"
  BY <1>4, <1>6
<1>9. /\ work'[s].emit[1].type = type /\ work'[s].emit[1].ob = o /\ type # "debt.created"
  <2>1. PICK e : e = Event(type, o, w)
    OBVIOUS
  <2>2. e.type = type /\ e.ob = o
    BY <2>1 DEF Event
  <2>3. work'[s].emit = <<e>>
    BY <1>5, <2>1
  <2>4. <<e>>[1] = e
    OBVIOUS
  <2>5. work'[s].emit[1] = e
    BY <2>3, <2>4
  <2>. QED
    BY <2>2, <2>5
<1>10. Grows /\ Shape' /\ NewEvents
  <2>1. \A t \in Session : \/ work'[t].emit = << >> \/ work'[t].emit = work[t].emit
                           \/ work'[t].emit[1].type # "debt.created"
    BY <1>5, <1>9
  <2>2. UNCHANGED <<log, feed>> /\ ("overlap" \in astray => "overlap" \in astray')
    BY <1>1 DEF feedVars
  <2>3. \A m \in Node : \A x \in Obligation :
             /\ table[m][x].status # "none" => table'[m][x].status # "none"
             /\ table[m][x].status = "resolved" => table'[m][x].status = "resolved"
    BY <1>8
  <2>. QED
    BY <2>1, <2>2, <2>3, GrowsQuietly
<1>11. NewRows
  BY <1>8 DEF NewRows
<1>12. IdsAreFresh'
  <2>1. \A m \in Node : \A k \in 1..MaxDebts :
               table'[m][<<m, k>>].status # "none" <=> table[m][<<m, k>>].status # "none"
    BY <1>8 DEF Obligation
  <2>. QED
    BY <1>1, <2>1, IdsSame DEF DebtInv
<1>13. Backed(here, work[s].emit[1])'
  BY <1>1, <1>2, <1>4, <1>6, <1>9 DEF Backed
<1>14. ASSUME "overlap" \notin astray' PROVE Follows(here, Len(log[here]), work[s].emit[1].ob)'
  <2>1. Follows(here, Len(log[here]), o)
    BY <1>1, <1>4, <1>14 DEF DebtInv, PaymentsFollow
  <2>. PICK i \in Int : i = Len(log[n])
    BY <1>2, LengthsAreNat
  <2>2. i <= i /\ i <= Len(log[n]) /\ Follows(n, i, o) /\ table[n][o].status # "none"
    BY <1>4, <2>1
  <2>3. Follows(n, i, o)'
    BY <1>10, <2>2, SourceHasRow, FollowsStays DEF DebtInv
  <2>. QED
    BY <1>1, <1>9, <2>3
<1>15. NewWork
  BY <1>1, <1>5, <1>13, <1>14 DEF NewWork
<1>. QED
  BY <1>1, <1>7, <1>10, <1>11, <1>12, <1>15, DebtsKept

LEMMA DebtPayment ==
    ASSUME DebtInv, Shape, NEW s \in Session, PayResolves(s) \/ PayAdjusts(s)
    PROVE  DebtInv' /\ Shape'
<1>1. UNCHANGED <<here, oseq, log, feedVars, born, astray, found, moves, faults>>
  BY DEF PayResolves, PayAdjusts
<1>2. PICK n \in Node : n = here
  BY DEF DebtInv, IdInv, TypeOK
<1>3. ASSUME NEW o \in Obligation
      PROVE  \E st \in {"none", "open", "resolved"} : \E w : table[n][o] = [status |-> st, weight |-> w]
  <2>1. /\ table[n][o].status \in {"none", "open", "resolved"}
        /\ table[n] = [x \in Obligation |-> [status |-> table[n][x].status, weight |-> table[n][x].weight]]
    BY DEF DebtInv, IdInv, TypeOK, RowsOK
  <2>2. table[n][o] = [status |-> table[n][o].status, weight |-> table[n][o].weight]
    BY <2>1
  <2>. QED
    BY <2>1, <2>2
<1>4. CASE PayResolves(s)
  <2>1. PICK d \in work[s].todo :
        /\ work' = Set(s, work[s].todo \ {d}, work[s].amount - d.weight,
                       <<Event("debt.resolved", d.ob, 0)>>)
        /\ table' = [table EXCEPT ![here][d.ob].status = "resolved"]
    BY <1>4, Zenon DEF PayResolves, Set
  <2>2. PICK o \in Obligation : o = d.ob
    BY DEF DebtInv, IdInv, EventsHaveRows
  <2>3. PICK st \in {"none", "open", "resolved"} : \E w : table[n][o] = [status |-> st, weight |-> w]
    BY <1>3
  <2>3a. PICK w : table[n][o] = [status |-> st, weight |-> w]
    BY <2>3
  <2>4. [table[n][o] EXCEPT !.status = "resolved"] = [status |-> "resolved", weight |-> w]
    BY <2>3a
  <2>5. table' = Written(n, o, "resolved", w)
    BY <1>2, <2>1, <2>2, <2>4 DEF Written
  <2>. QED
    BY <1>1, <1>2, <2>1, <2>2, <2>5, DebtStatement
<1>5. CASE PayAdjusts(s)
  <2>1. PICK d \in work[s].todo :
        /\ work' = Set(s, work[s].todo \ {d}, 0,
                       <<Event("debt.adjusted", d.ob, d.weight - work[s].amount)>>)
        /\ table' = [table EXCEPT ![here][d.ob].weight = @ - work[s].amount]
    BY <1>5, Zenon DEF PayAdjusts, Set
  <2>2. PICK o \in Obligation : o = d.ob /\ table[n][o].status # "none"
    BY <1>2 DEF DebtInv, IdInv, EventsHaveRows
  <2>3. PICK v : v = table[n][o].weight - work[s].amount
    OBVIOUS
  <2>4. PICK st \in {"none", "open", "resolved"} : \E w : table[n][o] = [status |-> st, weight |-> w]
    BY <1>3
  <2>4a. PICK w : table[n][o] = [status |-> st, weight |-> w]
    BY <2>4
  <2>5. [table[n][o] EXCEPT !.weight = v] = [status |-> st, weight |-> v] /\ table[n][o].status = st
    BY <2>4a
  <2>6. table' = Written(n, o, st, v)
    BY <1>2, <2>1, <2>2, <2>3, <2>5 DEF Written
  <2>7. st \in {"open", "resolved"} /\ (table[n][o].status = "resolved" => st = "resolved")
    BY <2>2, <2>5
  <2>. QED
    BY <1>1, <1>2, <2>1, <2>2, <2>6, <2>7, DebtStatement
<1>. QED
  BY <1>4, <1>5

LEMMA LogAppended ==
    ASSUME Shape, NEW n \in Node, NEW e, log' = [log EXCEPT ![n] = Append(log[n], e)]
    PROVE  /\ \E S : log' \in [Node -> Seq(S)]
           /\ Len(log[n]) \in Nat /\ Len(log'[n]) = Len(log[n]) + 1
           /\ log'[n][Len(log[n]) + 1] = e
           /\ \A i \in 1..Len(log[n]) : log'[n][i] = log[n][i]
           /\ \A m \in Node \ {n} : log'[m] = log[m]
<1>1. PICK S : log \in [Node -> Seq(S)]
  BY DEF Shape
<1>2. PICK T : T = S \cup {e}
  OBVIOUS
<1>3. log \in [Node -> Seq(T)] /\ e \in T /\ log[n] \in Seq(T)
  <2>1. \A m \in Node : log[m] \in Seq(T)
    BY <1>1, <1>2
  <2>. QED
    BY <1>1, <1>2, <2>1
<1>4. Append(log[n], e) \in Seq(T)
  BY <1>3
<1>5. log' \in [Node -> Seq(T)] /\ log'[n] = Append(log[n], e)
      /\ \A m \in Node \ {n} : log'[m] = log[m]
  BY <1>3, <1>4
<1>. QED
  BY <1>3, <1>5

LEMMA DebtEmit ==
    ASSUME DebtInv, Shape, NEW s \in Session, EmitEvent(s)
    PROVE  DebtInv' /\ Shape'
<1>1. UNCHANGED <<here, table, oseq, feedVars, born, astray, found, moves, faults>>
      /\ work[s].emit # << >>
  BY DEF EmitEvent
<1>2. TypeOK /\ IdInv
  BY DEF DebtInv, IdInv
<1>3. PICK n \in Node : n = here
  BY <1>2 DEF TypeOK
<1>4. PICK e : e = work[s].emit[1]
  OBVIOUS
<1>5. log' = [log EXCEPT ![n] = Append(log[n], e)]
  BY <1>3, <1>4 DEF EmitEvent
<1>6. /\ \E S : log' \in [Node -> Seq(S)]
      /\ Len(log[n]) \in Nat /\ Len(log'[n]) = Len(log[n]) + 1
      /\ log'[n][Len(log[n]) + 1] = e
      /\ \A i \in 1..Len(log[n]) : log'[n][i] = log[n][i]
      /\ \A m \in Node \ {n} : log'[m] = log[m]
  BY <1>5, LogAppended
<1>7. \A m \in Node : Len(log[m]) \in Nat
  BY LengthsAreNat
<1>8. work' = Set(s, work[s].todo, work[s].amount, << >>)
  <2>1. work = [t \in Session |->
              [todo |-> work[t].todo, amount |-> work[t].amount, emit |-> work[t].emit]]
    BY <1>2 DEF TypeOK, WorkOK
  <2>2. PICK td, am, em : work[s] = [todo |-> td, amount |-> am, emit |-> em]
    BY <2>1
  <2>3. [work[s] EXCEPT !.emit = << >>] = [todo |-> td, amount |-> am, emit |-> << >>]
        /\ work[s].todo = td /\ work[s].amount = am
    BY <2>2
  <2>4. work' = [work EXCEPT ![s] = [work[s] EXCEPT !.emit = << >>]]
    BY DEF EmitEvent
  <2>. QED
    BY <2>3, <2>4 DEF Set
<1>9. /\ WorkOK' /\ work'[s].todo = work[s].todo /\ work'[s].emit = << >>
      /\ \A t \in Session \ {s} : work'[t] = work[t]
  BY <1>2, <1>8, WorkWritten
<1>10. \A m \in Node : Len(log'[m]) >= Len(log[m]) /\ \A i \in 1..Len(log[m]) : log'[m][i] = log[m][i]
  BY <1>6, <1>7
<1>11. TypeOK'
  <2>1. sent \in [Node -> Nat] /\ \A m \in Node : sent[m] <= Len(log[m])
    BY <1>2 DEF TypeOK
  <2>2. ASSUME NEW m \in Node PROVE sent[m] <= Len(log'[m])
    <3>1. sent[m] <= Len(log[m]) /\ sent[m] \in Nat /\ Len(log[m]) \in Nat
      BY <1>7, <2>1
    <3>2. Len(log'[m]) \in {Len(log[m]), Len(log[m]) + 1}
      BY <1>6
    <3>. QED
      BY <3>1, <3>2
  <2>. QED
    BY <1>1, <1>2, <1>9, <2>2, Unwritten DEF TypeOK, feedVars
<1>12. Shape'
  BY <1>1, <1>6 DEF Shape, feedVars
<1>13. Grows
  <2>1. ASSUME NEW o \in Obligation, Unannounced(o) PROVE Unannounced(o)'
    <3>1. ~IsCreated(e, o)
      BY <1>1, <1>4, <2>1 DEF Unannounced
    <3>2. ASSUME NEW i \in 1..Len(log'[o[1]]) PROVE ~IsCreated(log'[o[1]][i], o)
      <4>1. CASE o[1] = n
        <5>1. i \in 1..Len(log[n]) \/ i = Len(log[n]) + 1
          BY <1>6, <4>1
        <5>. QED
          BY <1>6, <2>1, <3>1, <4>1, <5>1 DEF Unannounced
      <4>2. CASE o[1] # n
        <5>1. log'[o[1]] = log[o[1]]
          BY <1>6, <4>2, ObligationIsPair
        <5>. QED
          BY <2>1, <5>1 DEF Unannounced
      <4>. QED
        BY <4>1, <4>2
    <3>3. \A t \in Session : work'[t].emit = << >> \/ ~IsCreated(work'[t].emit[1], o)
      BY <1>9, <2>1 DEF Unannounced
    <3>. QED
      BY <3>2, <3>3 DEF Unannounced, IsCreated
  <2>2. UNCHANGED <<table, feed, astray>> /\ Len(feed) >= Len(feed)
    BY <1>1, LengthsAreNat DEF feedVars
  <2>. QED
    BY <1>10, <2>1, <2>2 DEF Grows
<1>14. NewRows /\ IdsAreFresh'
  BY <1>1, <1>2, IdsSame DEF NewRows
<1>15. NewWork
  BY <1>1, <1>9 DEF NewWork
<1>16. NewEvents
  <2>. SUFFICES ASSUME NEW m \in Node, NEW j \in 1..Len(log'[m]), j > Len(log[m])
                PROVE  /\ Backed(m, log[m][j])'
                       /\ "overlap" \notin astray' /\ log'[m][j].type # "debt.created"
                              => Follows(m, j - 1, log[m][j].ob)'
    BY DEF NewEvents
  <2>1. m = n
    BY <1>6, <1>7
  <2>2. j = Len(log[n]) + 1
    BY <1>6, <2>1
  <2>3. log'[m][j] = e
    BY <1>6, <2>1, <2>2
  <2>4. Backed(n, e)
    BY <1>1, <1>2, <1>3, <1>4 DEF IdInv, EventsHaveRows
  <2>5. Backed(n, e)'
    BY <1>13, <2>4, BackedStays
  <2>6. PICK o \in Obligation : o = e.ob /\ table[n][o].status # "none"
    BY <2>4 DEF Backed
  <2>7. ASSUME "overlap" \notin astray', e.type # "debt.created" PROVE Follows(n, j - 1, o)'
    <3>1. Follows(n, Len(log[n]), o)
      BY <1>1, <1>3, <1>4, <2>6, <2>7 DEF DebtInv, PaymentsFollow
    <3>2. PICK i \in Int : i = j - 1 /\ i = Len(log[n]) /\ i <= i /\ i <= Len(log[n])
      BY <1>6, <2>2
    <3>3. Follows(n, i, o)'
      BY <1>2, <1>12, <1>13, <2>6, <3>1, <3>2, SourceHasRow, FollowsStays
    <3>. QED
      BY <3>2, <3>3
  <2>. QED
    BY <2>1, <2>3, <2>5, <2>6, <2>7
<1>. QED
  BY <1>1, <1>11, <1>12, <1>13, <1>14, <1>15, <1>16, DebtsKept

\* A purchase that leaves a debt: the row is new, and so is its id.
LEMMA DebtOpened ==
    ASSUME DebtInv, Shape, NEW s \in Session, NEW n \in Node, n = here, NEW o \in Obligation, NEW w,
           UNCHANGED <<here, log, feedVars, found, moves, faults>>, work[s] = Free,
           Opened(n, o), oseq' = [oseq EXCEPT ![n] = o[2]], born' = Append(born, o),
           table' = Written(n, o, "open", w), astray' = astray \cup Overlaps(s),
           work' = Set(s, {}, 0, <<Event("debt.created", o, w)>>)
    PROVE  DebtInv' /\ Shape'
<1>1. TypeOK /\ IdInv /\ oseq \in [Node -> 0..MaxDebts] /\ born \in Seq(Obligation)
  BY DEF DebtInv, IdInv, TypeOK
<1>2. oseq[n] \in 0..MaxDebts /\ o[1] = n /\ o[2] = oseq[n] + 1 /\ o = <<n, oseq[n] + 1>>
  BY <1>1 DEF Opened
<1>3. oseq[n] + 1 \in 1..MaxDebts
  BY <1>2, ObligationIsPair
<1>4. table[n][o].status = "none"
  <2>1. ~(oseq[n] + 1 <= oseq[n])
    BY <1>1
  <2>. QED
    BY <1>1, <1>2, <1>3, <2>1 DEF IdInv, IdsAreFresh
<1>5. /\ RowsOK' /\ table'[n][o].status = "open"
      /\ \A m \in Node : \A x \in Obligation :
                m # n \/ x # o => table'[m][x].status = table[m][x].status
  BY <1>1, RowWritten
<1>6. /\ WorkOK' /\ work'[s].todo = {} /\ work'[s].emit = <<Event("debt.created", o, w)>>
      /\ \A t \in Session \ {s} : work'[t] = work[t]
  BY <1>1, WorkWritten
<1>7. work'[s].emit[1].type = "debt.created" /\ work'[s].emit[1].ob = o
  <2>1. PICK e : e = Event("debt.created", o, w)
    OBVIOUS
  <2>2. e.type = "debt.created" /\ e.ob = o
    BY <2>1 DEF Event
  <2>3. work'[s].emit = <<e>>
    BY <1>6, <2>1
  <2>4. <<e>>[1] = e
    OBVIOUS
  <2>5. work'[s].emit[1] = e
    BY <2>3, <2>4
  <2>. QED
    BY <2>2, <2>5
<1>8. TypeOK'
  <2>1. oseq' \in [Node -> 0..MaxDebts]
    BY <1>1, <1>2, <1>3
  <2>2. born' \in Seq(Obligation)
    BY <1>1
  <2>3. astray' \subseteq {"overlap", "stale", "fault"}
    BY <1>1 DEF TypeOK, Overlaps
  <2>. QED
    BY <1>1, <1>5, <1>6, <2>1, <2>2, <2>3 DEF TypeOK, feedVars
<1>9. UNCHANGED <<log, feed>> /\ Shape' /\ NewEvents
  BY LengthsAreNat DEF feedVars, Shape, NewEvents
<1>10. Grows
  <2>1. ASSUME NEW x \in Obligation, table[x[1]][x].status # "none", Unannounced(x) PROVE Unannounced(x)'
    <3>1. x # o
      BY <1>2, <1>4, <2>1
    <3>2. \A t \in Session : work'[t].emit = << >> \/ ~IsCreated(work'[t].emit[1], x)
      BY <1>6, <1>7, <2>1, <3>1 DEF Unannounced, IsCreated
    <3>. QED
      BY <1>9, <2>1, <3>2 DEF Unannounced, IsCreated
  <2>2. \A m \in Node : Len(log'[m]) >= Len(log[m])
    BY <1>9, LengthsAreNat
  <2>3. Len(feed') >= Len(feed)
    BY <1>9, LengthsAreNat
  <2>4. \A m \in Node : \A x \in Obligation :
         /\ table[m][x].status # "none" => table'[m][x].status # "none"
         /\ table[m][x].status = "resolved" => table'[m][x].status = "resolved"
    BY <1>4, <1>5
  <2>. QED
    BY <1>9, <2>1, <2>2, <2>3, <2>4 DEF Grows
<1>11. NewRows
  BY <1>2, <1>5 DEF NewRows
<1>12. IdsAreFresh'
  <2>. SUFFICES ASSUME NEW m \in Node, NEW k \in 1..MaxDebts
                PROVE  table'[m][<<m, k>>].status # "none" => k <= oseq'[m]
    BY DEF IdsAreFresh
  <2>1. table[m][<<m, k>>].status # "none" => k <= oseq[m]
    BY <1>1 DEF IdInv, IdsAreFresh
  <2>2. <<m, k>> \in Obligation
    BY DEF Obligation
  <2>3. CASE m # n
    BY <1>1, <1>5, <2>1, <2>2, <2>3
  <2>4. CASE m = n /\ k = oseq[n] + 1
    BY <1>1, <1>2, <1>5, <2>4
  <2>5. CASE m = n /\ k # oseq[n] + 1
    <3>1. <<m, k>> # o
      BY <1>2, <2>5
    <3>2. oseq'[m] = oseq[n] + 1
      BY <1>1, <1>2, <2>5
    <3>3. k <= oseq[n] => k <= oseq[n] + 1
      BY <1>2, <2>5
    <3>. QED
      BY <1>5, <2>1, <2>2, <2>5, <3>1, <3>2, <3>3
  <2>. QED
    BY <2>3, <2>4, <2>5
<1>13. NewWork
  <2>1. Backed(here, work[s].emit[1])'
    BY <1>2, <1>5, <1>7 DEF Backed
  <2>. QED
    BY <1>6, <1>7, <2>1 DEF NewWork
<1>. QED
  BY <1>8, <1>9, <1>10, <1>11, <1>12, <1>13, DebtsKept

LEMMA DebtBuy ==
    ASSUME DebtInv, Shape, NEW s \in Session, NEW price \in Prices, Buy(s, price)
    PROVE  DebtInv' /\ Shape'
<1>1. UNCHANGED <<here, log, feedVars, found, moves, faults>> /\ work[s] = Free
  BY DEF Buy
<1>2. PICK n \in Node : n = here
  BY DEF DebtInv, IdInv, TypeOK
<1>3. \/ UNCHANGED <<table, oseq, born, work, owed, astray>>
      \/ \E o, w :
           /\ o \in Obligation /\ Opened(n, o) /\ oseq' = [oseq EXCEPT ![n] = o[2]] /\ born' = Append(born, o)
           /\ table' = [table EXCEPT ![n][o] = [status |-> "open", weight |-> w]]
           /\ work' = [work EXCEPT ![s].emit = <<Event("debt.created", o, w)>>]
           /\ astray' = astray \cup Overlaps(s)
  BY <1>2, Zenon DEF Buy
<1>4. ASSUME NEW o \in Obligation, NEW w,
             Opened(n, o), oseq' = [oseq EXCEPT ![n] = o[2]], born' = Append(born, o),
             table' = [table EXCEPT ![n][o] = [status |-> "open", weight |-> w]],
             work' = [work EXCEPT ![s].emit = <<Event("debt.created", o, w)>>],
             astray' = astray \cup Overlaps(s)
      PROVE  DebtInv' /\ Shape'
  <2>1. table' = Written(n, o, "open", w)
    BY <1>4 DEF Written
  <2>2. PICK em : em = <<Event("debt.created", o, w)>>
    OBVIOUS
  <2>3. [Free EXCEPT !.emit = em] = [todo |-> {}, amount |-> 0, emit |-> em]
    <3>1. PICK td, am, none : Free = [todo |-> td, amount |-> am, emit |-> none] /\ td = {} /\ am = 0
      BY DEF Free
    <3>2. [Free EXCEPT !.emit = em] = [todo |-> td, amount |-> am, emit |-> em]
      BY <3>1
    <3>. QED
      BY <3>1, <3>2
  <2>4. work' = Set(s, {}, 0, em)
    BY <1>1, <1>4, <2>2, <2>3 DEF Set
  <2>. QED
    BY <1>1, <1>2, <1>4, <2>1, <2>2, <2>4, DebtOpened
<1>. QED
  BY <1>1, <1>3, <1>4, DebtPaidAtOnce

-----------------------------------------------------------------------------
(* The feed, the handlers and crashes. *)

\* A failed INSERT leaves nothing but a larger counter.
LEMMA DebtBuyFails ==
    ASSUME DebtInv, Shape, NEW s \in Session, NEW price \in Prices, BuyFails(s, price)
    PROVE  DebtInv' /\ Shape'
<1>1. /\ UNCHANGED <<here, table, log, feedVars, born, work, astray, found, moves>>
      /\ here \in Node /\ oseq[here] < MaxDebts /\ oseq' = [oseq EXCEPT ![here] = oseq[here] + 1]
      /\ TypeOK /\ IdInv /\ faults' \in 0..MaxFaults
  BY FaultTyped DEF BuyFails, DebtInv, IdInv, TypeOK
<1>2. oseq \in [Node -> 0..MaxDebts] /\ MaxDebts \in Nat
  BY <1>1, Bounds DEF TypeOK
<1>3. oseq[here] \in 0..MaxDebts
  BY <1>1, <1>2
<1>4. oseq' \in [Node -> 0..MaxDebts]
  BY <1>1, <1>2, <1>3
<1>5. TypeOK'
  BY <1>1, <1>4, Unwritten DEF TypeOK, feedVars
<1>6. IdsAreFresh'
  <2>1. ASSUME NEW m \in Node, NEW k \in 1..MaxDebts, k <= oseq[m] PROVE k <= oseq'[m]
    <3>1. oseq[m] \in 0..MaxDebts /\ oseq'[m] \in {oseq[m], oseq[m] + 1}
      BY <1>1, <1>2
    <3>. QED
      BY <2>1, <3>1
  <2>. QED
    BY <1>1, <2>1 DEF IdInv, IdsAreFresh
<1>7. NewWork
  BY <1>1, WorkEnds
<1>8. Grows /\ Shape' /\ NewEvents
  BY <1>1, GrowsQuietly DEF feedVars
<1>9. NewRows
  BY <1>1 DEF NewRows
<1>10. UNCHANGED feedVars
  BY <1>1
<1>. QED
  BY <1>5, <1>6, <1>7, <1>8, <1>9, <1>10, DebtsKept

LEMMA DebtsAssembled ==
    ASSUME DebtInv, Shape, Shape', Grows, TypeOK', IdsAreFresh', NewRows, NewEvents, NewWork,
           FeedIsPushed', CreatedFirst', HandlersKeep'
    PROVE  DebtInv'
<1>1. RowsAreCreated' /\ EventsHaveRows'
  BY RowsKept, EventsKept DEF DebtInv
<1>2. PaymentsFollow'
  BY PaymentsKept DEF DebtInv
<1>. QED
  BY <1>1, <1>2 DEF DebtInv, IdInv

\* Steps of the Syncers, which leave the sessions and the logs alone.
LEMMA SyncersLeave ==
    ASSUME UNCHANGED <<here, log, work, astray>>, Shape
    PROVE  /\ NewEvents /\ NewWork /\ \A o : Unannounced(o)' = Unannounced(o)
           /\ \A n \in Node : Len(log'[n]) >= Len(log[n]) /\ \A i \in 1..Len(log[n]) : log'[n][i] = log[n][i]
<1>1. NewEvents /\ \A n \in Node : Len(log'[n]) >= Len(log[n]) /\ \A i \in 1..Len(log[n]) : log'[n][i] = log[n][i]
  BY LengthsAreNat DEF NewEvents
<1>2. NewWork
  BY WorkEnds
<1>3. \A o : Unannounced(o)' = Unannounced(o)
  BY DEF Unannounced, IsCreated
<1>. QED
  BY <1>1, <1>2, <1>3

\* Events come to the feed in the order of their log.
LEMMA DebtPush ==
    ASSUME DebtInv, Shape, NEW n \in Node, Push(n)
    PROVE  DebtInv' /\ Shape'
<1>1. UNCHANGED <<here, born, work, found, moves, table, oseq, log, cur, ran, astray, faults>>
      /\ sent[n] < Len(log[n]) /\ sent' = [sent EXCEPT ![n] = @ + 1]
  BY DEF Push, Pushed, sessionVars
<1>2. TypeOK /\ IdInv /\ sent \in [Node -> Nat] /\ Len(log[n]) \in Nat /\ Len(feed) \in Nat
  BY LengthsAreNat DEF DebtInv, IdInv, TypeOK
<1>3. PICK i \in 1..Len(log[n]) : i = sent[n] + 1
  BY <1>1, <1>2
<1>4. PICK e : e = [src |-> n, ev |-> log[n][i]]
  OBVIOUS
<1>5. e.src = n /\ e.ev = log[n][i]
  BY <1>4
<1>6. feed' = Append(feed, e)
  BY <1>3, <1>4 DEF Push, Pushed
<1>7. PICK k \in Nat : k = Len(feed) + 1
  BY <1>2
<1>8. /\ \E S : feed' \in Seq(S)
      /\ Len(feed') = k /\ feed'[k] = e
      /\ \A j \in 1..Len(feed) : feed'[j] = feed[j]
  <2>1. PICK S : feed \in Seq(S)
    BY DEF Shape
  <2>2. PICK T : T = S \cup {e}
    OBVIOUS
  <2>3. feed \in Seq(T) /\ e \in T
    BY <2>1, <2>2
  <2>4. feed' \in Seq(T) /\ Len(feed') = k /\ feed'[k] = e
        /\ \A j \in 1..Len(feed) : feed'[j] = feed[j]
    BY <1>6, <1>7, <2>3
  <2>. QED
    BY <2>4
<1>9. \A j \in 1..Len(feed') : j \in 1..Len(feed) \/ j = k
  BY <1>2, <1>7, <1>8
<1>10. Shape'
  BY <1>1, <1>8 DEF Shape
<1>11. NewEvents /\ NewWork /\ (\A o : Unannounced(o)' = Unannounced(o))
       /\ \A m \in Node : Len(log'[m]) >= Len(log[m]) /\ \A j \in 1..Len(log[m]) : log'[m][j] = log[m][j]
  BY <1>1, SyncersLeave
<1>12. Grows
  <2>1. Len(feed') >= Len(feed)
    BY <1>2, <1>7, <1>8
  <2>. QED
    BY <1>1, <1>8, <1>11, <2>1 DEF Grows
<1>13. NewRows /\ IdsAreFresh'
  BY <1>1, <1>2, IdsSame DEF NewRows
<1>14. TypeOK'
  <2>1. sent' \in [Node -> Nat] /\ \A m \in Node : sent'[m] <= Len(log'[m])
    <3>1. \A m \in Node : sent[m] <= Len(log[m])
      BY <1>2 DEF TypeOK
    <3>. QED
      BY <1>1, <1>2, <3>1
  <2>2. \A j \in 1..Len(feed') : feed'[j].src \in Node
    <3>1. \A j \in 1..Len(feed) : feed[j].src \in Node
      BY <1>2 DEF TypeOK
    <3>. QED
      BY <1>5, <1>8, <1>9, <3>1
  <2>3. cur' \in [Node -> 0..Len(feed')]
    <3>1. cur \in [Node -> 0..Len(feed)]
      BY <1>2 DEF TypeOK
    <3>2. 0..Len(feed) \subseteq 0..Len(feed')
      BY <1>2, <1>7, <1>8
    <3>. QED
      BY <1>1, <3>1, <3>2
  <2>. QED
    BY <1>1, <1>2, <2>1, <2>2, <2>3, Unwritten DEF TypeOK
<1>15. FeedIsPushed'
  <2>1. ASSUME NEW j \in 1..Len(feed')
        PROVE  \E h \in 1..Len(log'[feed'[j].src]) : feed'[j].ev = log'[feed'[j].src][h]
    <3>1. CASE j \in 1..Len(feed)
      <4>1. \E h \in 1..Len(log[feed[j].src]) : feed[j].ev = log[feed[j].src][h]
        BY <3>1 DEF DebtInv, FeedIsPushed
      <4>2. feed'[j] = feed[j] /\ log' = log
        BY <1>1, <1>8, <3>1
      <4>. QED
        BY <4>1, <4>2
    <3>2. CASE j = k
      BY <1>1, <1>5, <1>8, <3>2
    <3>. QED
      BY <1>9, <3>1, <3>2
  <2>2. ASSUME NEW m \in Node, NEW h \in 1..sent'[m]
        PROVE  \E j \in 1..Len(feed') : feed'[j].src = m /\ feed'[j].ev = log'[m][h]
    <3>1. CASE h \in 1..sent[m]
      <4>1. PICK j \in 1..Len(feed) : feed[j].src = m /\ feed[j].ev = log[m][h]
        BY <3>1 DEF DebtInv, FeedIsPushed
      <4>2. j \in 1..Len(feed')
        BY <1>2, <1>7, <1>8
      <4>. QED
        BY <1>1, <1>8, <4>1, <4>2
    <3>2. CASE h \notin 1..sent[m]
      <4>1. m = n /\ h = i
        BY <1>1, <1>2, <1>3, <3>2
      <4>2. k \in 1..Len(feed')
        BY <1>7, <1>8, <1>2
      <4>. QED
        BY <1>1, <1>5, <1>8, <4>1, <4>2
    <3>. QED
      BY <3>1, <3>2
  <2>. QED
    BY <2>1, <2>2 DEF FeedIsPushed
<1>16. CreatedFirst'
  <2>. SUFFICES ASSUME "overlap" \notin astray', NEW j \in 1..Len(feed'),
                       feed'[j].ev.type # "debt.created"
                PROVE  \/ \E h \in 1..j - 1 : IsCreated(feed'[h].ev, feed'[j].ev.ob)
                       \/ Unannounced(feed[j].ev.ob)'
    BY DEF CreatedFirst, IsCreated
  <2>1. CASE j \in 1..Len(feed)
    <3>1. \/ \E h \in 1..j - 1 : IsCreated(feed[h].ev, feed[j].ev.ob)
          \/ Unannounced(feed[j].ev.ob)
      BY <1>1, <1>8, <2>1 DEF DebtInv, CreatedFirst
    <3>2. \A h \in 1..j - 1 : h \in 1..Len(feed)
      BY <1>2, <2>1
    <3>3. PICK o : o = feed[j].ev.ob
      OBVIOUS
    <3>4. feed'[j] = feed[j] /\ (Unannounced(o) => Unannounced(o)')
      BY <1>8, <1>11, <2>1
    <3>5. Unannounced(o) => Unannounced(feed[j].ev.ob)'
      BY <3>3, <3>4 DEF Unannounced
    <3>. QED
      BY <1>8, <2>1, <3>1, <3>2, <3>3, <3>4, <3>5
  <2>2. CASE j = k
    <3>1. PICK o : o = log[n][i].ob /\ o = feed'[j].ev.ob
      BY <1>5, <1>8, <2>2
    <3>2. Follows(n, i - 1, o)
      BY <1>1, <1>5, <1>8, <2>2, <3>1 DEF DebtInv, PaymentsFollow
    <3>3. CASE Spread(o)
      <4>1. PICK h \in 1..Len(feed) : IsCreated(feed[h].ev, o)
        BY <3>3 DEF Spread
      <4>2. h \in 1..j - 1
        BY <1>2, <1>7, <2>2
      <4>. QED
        BY <1>8, <3>1, <4>1, <4>2
    <3>4. CASE Unannounced(o)
      <4>1. Unannounced(o)'
        BY <1>11, <3>4
      <4>. QED
        BY <3>1, <4>1 DEF Unannounced
    <3>5. CASE \E h \in 1..i - 1 : IsCreated(log[n][h], o)
      <4>1. PICK h \in 1..i - 1 : IsCreated(log[n][h], o)
        BY <3>5
      <4>2. h \in 1..sent[n]
        BY <1>2, <1>3
      <4>3. PICK l \in 1..Len(feed) : feed[l].src = n /\ feed[l].ev = log[n][h]
        BY <4>2 DEF DebtInv, FeedIsPushed
      <4>4. l \in 1..j - 1
        BY <1>2, <1>7, <2>2
      <4>. QED
        BY <1>8, <3>1, <4>1, <4>3, <4>4
    <3>. QED
      BY <3>2, <3>3, <3>4, <3>5 DEF Follows
  <2>. QED
    BY <1>9, <2>1, <2>2
<1>17. HandlersKeep'
  BY <1>1, <1>10, <1>12, HandlersSame
<1>. QED
  BY <1>10, <1>11, <1>12, <1>13, <1>14, <1>15, <1>16, <1>17, DebtsAssembled

\* A Syncer goes on in the feed.
LEMMA SyncerStep ==
    ASSUME DebtInv, Shape, NEW n \in Node,
           UNCHANGED <<here, oseq, log, sent, feed, born, work, astray, found, moves, faults>>,
           RowsOK',
           \A m \in Node : \A o \in Obligation :
             /\ table[m][o].status # "none" => table'[m][o].status # "none"
             /\ table[m][o].status = "resolved" => table'[m][o].status = "resolved",
           IdsAreFresh', NewRows,
           \E c \in 0..Len(feed) : cur' = [cur EXCEPT ![n] = c],
           \E r \in BOOLEAN : ran' = [ran EXCEPT ![n] = r],
           ran'[n] => cur'[n] < Len(feed) /\ feed[cur'[n] + 1].src # n,
           \A k \in 1..Handling(n)' : k \in 1..Handling(n) \/ KeptAt(n, k)'
    PROVE  DebtInv' /\ Shape'
<1>1. TypeOK /\ cur \in [Node -> 0..Len(feed)] /\ ran \in [Node -> BOOLEAN]
  BY DEF DebtInv, IdInv, TypeOK
<1>2. cur' \in [Node -> 0..Len(feed')] /\ ran' \in [Node -> BOOLEAN]
  BY <1>1
<1>3. TypeOK'
  BY <1>1, <1>2, Unwritten DEF TypeOK
<1>4. Shape' /\ Len(feed') >= Len(feed)
  BY LengthsAreNat DEF Shape
<1>5. NewEvents /\ NewWork /\ (\A o : Unannounced(o)' = Unannounced(o))
       /\ \A m \in Node : Len(log'[m]) >= Len(log[m]) /\ \A j \in 1..Len(log[m]) : log'[m][j] = log[m][j]
  BY SyncersLeave
<1>6. Grows
  BY <1>4, <1>5 DEF Grows
<1>7. FeedIsPushed' /\ CreatedFirst'
  BY <1>4, <1>6, FeedSame DEF DebtInv
<1>8. ASSUME NEW m \in Node
      PROVE  /\ ran'[m] => cur'[m] < Len(feed') /\ feed'[cur'[m] + 1].src # m
             /\ \A k \in 1..Handling(m)' : k \in 1..Handling(m) \/ KeptAt(m, k)'
  <2>1. CASE m = n
    BY <2>1
  <2>2. CASE m # n
    <3>1. cur'[m] = cur[m] /\ ran'[m] = ran[m]
      BY <1>1, <2>2
    <3>2. Handling(m)' = Handling(m)
      BY <3>1 DEF Handling
    <3>3. ran[m] => cur[m] < Len(feed) /\ feed[cur[m] + 1].src # m
      BY DEF DebtInv, HandlersKeep
    <3>. QED
      BY <3>1, <3>2, <3>3
  <2>. QED
    BY <2>1, <2>2
<1>9. HandlersKeep'
  BY <1>4, <1>6, <1>8, HandlersKept
<1>. QED
  BY <1>3, <1>4, <1>5, <1>6, <1>7, <1>9, DebtsAssembled

\* A node's own events: it has the row, and resolved it before the event.
LEMMA DebtSkip ==
    ASSUME DebtInv, Shape, NEW n \in Node, SkipOwn(n)
    PROVE  DebtInv' /\ Shape'
<1>1. UNCHANGED <<here, born, work, found, moves, table, oseq, log, sent, feed, ran, astray, faults>>
  BY DEF SkipOwn, sessionVars
<1>2. cur[n] \in Nat /\ Len(feed) \in Nat /\ cur[n] < Len(feed) /\ ran \in [Node -> BOOLEAN]
      /\ cur \in [Node -> 0..Len(feed)] /\ TypeOK /\ IdInv
  BY LengthsAreNat, HandledIsInFeed DEF SkipOwn, DebtInv, IdInv, TypeOK
<1>3. PICK k \in 1..Len(feed) : k = cur[n] + 1 /\ feed[k].src = n
  BY <1>2 DEF SkipOwn
<1>4. k \in 0..Len(feed) /\ cur' = [cur EXCEPT ![n] = k] /\ cur'[n] = k
  BY <1>2, <1>3 DEF SkipOwn
<1>5. ~ran[n]
  BY <1>2, <1>3 DEF DebtInv, HandlersKeep
<1>6. ran' = [ran EXCEPT ![n] = FALSE] /\ ~ran'[n]
  BY <1>1, <1>2, <1>5
<1>7. Handling(n) = cur[n] /\ Handling(n)' = k
  BY <1>2, <1>3, <1>4, <1>5, <1>6 DEF Handling
<1>8. KeptAt(n, k)'
  <2>1. Backed(n, feed[k].ev)
    BY <1>3, FeedBacked DEF DebtInv
  <2>2. KeptAt(n, k)
    BY <2>1 DEF Backed, KeptAt
  <2>. QED
    BY <1>1, <2>2 DEF KeptAt, Unannounced, IsCreated
<1>9. \A i \in 1..Handling(n)' : i \in 1..Handling(n) \/ KeptAt(n, i)'
  <2>. SUFFICES ASSUME NEW i \in 1..Handling(n)', i \notin 1..Handling(n) PROVE KeptAt(n, i)'
    OBVIOUS
  <2>1. i = k
    BY <1>2, <1>3, <1>7
  <2>. QED
    BY <1>8, <2>1
<1>10. RowsOK' /\ IdsAreFresh' /\ NewRows
  BY <1>1, <1>2, Unwritten, IdsSame DEF NewRows
<1>. QED
  BY <1>1, <1>4, <1>6, <1>9, <1>10, SyncerStep

LEMMA DebtMarked ==
    ASSUME DebtInv, Shape, NEW n \in Node, HandlerMarked(n)
    PROVE  DebtInv' /\ Shape'
<1>1. UNCHANGED <<here, born, work, found, moves, table, oseq, log, sent, feed, astray, faults>>
      /\ ran[n] /\ ran' = [ran EXCEPT ![n] = FALSE]
  BY DEF HandlerMarked, sessionVars
<1>2. cur[n] \in Nat /\ Len(feed) \in Nat /\ cur[n] < Len(feed) /\ ran \in [Node -> BOOLEAN]
      /\ cur \in [Node -> 0..Len(feed)] /\ TypeOK /\ IdInv
  BY <1>1, LengthsAreNat, HandledIsInFeed DEF HandlersKeep, DebtInv, IdInv, TypeOK
<1>3. PICK k \in 0..Len(feed) : k = cur[n] + 1
  BY <1>2
<1>4. cur' = [cur EXCEPT ![n] = k] /\ cur'[n] = k /\ ~ran'[n]
  BY <1>1, <1>2, <1>3 DEF HandlerMarked
<1>5. Handling(n) = k /\ Handling(n)' = k
  BY <1>1, <1>2, <1>3, <1>4 DEF Handling
<1>6. RowsOK' /\ IdsAreFresh' /\ NewRows
  BY <1>1, <1>2, Unwritten, IdsSame DEF NewRows
<1>. QED
  BY <1>1, <1>4, <1>5, <1>6, SyncerStep

\* What the handlers make of a row's status.
Becomes(st, su, type) ==
    /\ su \in {"none", "open", "resolved"}
    /\ st # "none" => su # "none"
    /\ st = "resolved" => su = "resolved"
    /\ type = "debt.created" => su # "none"
    /\ type = "debt.resolved" /\ st # "none" => su = "resolved"
    /\ st = "none" /\ su # "none" => type = "debt.created"

LEMMA HandledRow ==
    ASSUME NEW st \in {"none", "open", "resolved"}, NEW w, NEW ev
    PROVE  \E su, v : /\ Handled([status |-> st, weight |-> w], ev) = [status |-> su, weight |-> v]
                     /\ Becomes(st, su, ev.type)
<1>. PICK d : d = [status |-> st, weight |-> w]
  OBVIOUS
<1>1. /\ d.status = st
      /\ [d EXCEPT !.status = "resolved"] = [status |-> "resolved", weight |-> w]
      /\ [d EXCEPT !.weight = ev.weight] = [status |-> st, weight |-> ev.weight]
  OBVIOUS
<1>2. CASE ev.type = "debt.created" /\ st = "none"
  <2>1. Handled(d, ev) = [status |-> "open", weight |-> ev.weight]
    BY <1>1, <1>2 DEF Handled
  <2>. QED
    BY <1>2, <2>1 DEF Becomes
<1>3. CASE ev.type = "debt.resolved" /\ st = "open"
  <2>1. Handled(d, ev) = [status |-> "resolved", weight |-> w]
    BY <1>1, <1>3 DEF Handled
  <2>. QED
    BY <1>3, <2>1 DEF Becomes
<1>4. CASE ev.type = "debt.adjusted" /\ st = "open"
  <2>1. Handled(d, ev) = [status |-> st, weight |-> ev.weight]
    BY <1>1, <1>4 DEF Handled
  <2>. QED
    BY <1>4, <2>1 DEF Becomes
<1>5. CASE ~(\/ ev.type = "debt.created" /\ st = "none"
             \/ ev.type = "debt.resolved" /\ st = "open"
             \/ ev.type = "debt.adjusted" /\ st = "open")
  <2>1. Handled(d, ev) = [status |-> st, weight |-> w]
    BY <1>1, <1>5 DEF Handled
  <2>. QED
    BY <1>5, <2>1 DEF Becomes
<1>. QED
  BY <1>2, <1>3, <1>4, <1>5

\* The handlers: a mirror has no row to resolve only if it will never get one.
LEMMA DebtHandler ==
    ASSUME DebtInv, Shape, NEW n \in Node, HandlerRuns(n)
    PROVE  DebtInv' /\ Shape'
<1>1. UNCHANGED <<here, born, work, found, moves, oseq, log, sent, feed, cur, astray, faults>>
      /\ ~ran[n] /\ ran' = [ran EXCEPT ![n] = TRUE]
  BY DEF HandlerRuns, sessionVars
<1>2. cur[n] \in Nat /\ Len(feed) \in Nat /\ cur[n] < Len(feed) /\ ran \in [Node -> BOOLEAN]
      /\ cur \in [Node -> 0..Len(feed)] /\ TypeOK /\ IdInv
  BY LengthsAreNat, HandledIsInFeed DEF HandlerRuns, DebtInv, IdInv, TypeOK
<1>3. PICK k \in 1..Len(feed) : k = cur[n] + 1
  BY <1>2
<1>4. PICK ev : ev = feed[k].ev
  OBVIOUS
<1>5. PICK o \in Obligation : o = ev.ob /\ table[o[1]][o].status # "none"
  BY <1>4, FeedBacked DEF DebtInv
<1>6. feed[k].src # n /\ table' = [table EXCEPT ![n][o] = Handled(table[n][o], ev)]
  BY <1>3, <1>4, <1>5, Zenon DEF HandlerRuns
<1>7. PICK st \in {"none", "open", "resolved"} : \E w : table[n][o] = [status |-> st, weight |-> w]
  <2>1. /\ table[n][o].status \in {"none", "open", "resolved"}
        /\ table[n] = [x \in Obligation |-> [status |-> table[n][x].status, weight |-> table[n][x].weight]]
    BY <1>2 DEF TypeOK, RowsOK
  <2>2. table[n][o] = [status |-> table[n][o].status, weight |-> table[n][o].weight]
    BY <2>1
  <2>. QED
    BY <2>1, <2>2
<1>7a. PICK w : table[n][o] = [status |-> st, weight |-> w]
  BY <1>7
<1>8. table[n][o].status = st
  BY <1>7a
<1>9. PICK su, v : /\ Handled([status |-> st, weight |-> w], ev) = [status |-> su, weight |-> v]
                   /\ Becomes(st, su, ev.type)
  BY HandledRow, Zenon
<1>10. table' = Written(n, o, su, v)
  BY <1>6, <1>7a, <1>9 DEF Written
<1>11. /\ RowsOK' /\ table'[n][o].status = su
       /\ \A m \in Node : \A x \in Obligation :
                m # n \/ x # o => table'[m][x].status = table[m][x].status
  BY <1>2, <1>9, <1>10, RowWritten DEF Becomes
<1>12. ASSUME NEW m \in Node, NEW x \in Obligation
       PROVE  /\ table[m][x].status # "none" => table'[m][x].status # "none"
              /\ table[m][x].status = "resolved" => table'[m][x].status = "resolved"
  <2>1. CASE m = n /\ x = o
    BY <1>8, <1>9, <1>11, <2>1 DEF Becomes
  <2>2. CASE ~(m = n /\ x = o)
    BY <1>11, <2>2
  <2>. QED
    BY <2>1, <2>2
<1>13. ev.type = "debt.created" => o[1] # n
  <2>1. Backed(feed[k].src, ev)
    BY <1>4, FeedBacked DEF DebtInv
  <2>. QED
    BY <1>5, <1>6, <2>1 DEF Backed
<1>14. NewRows
  <2>. SUFFICES ASSUME NEW m \in Node, NEW x \in Obligation,
                       table'[m][x].status # "none", table[m][x].status = "none"
                PROVE  table'[x[1]][x].status # "none" /\ (m # x[1] => Spread(x)')
    BY DEF NewRows
  <2>1. m = n /\ x = o
    BY <1>11
  <2>2. ev.type = "debt.created"
    BY <1>8, <1>9, <1>11, <2>1 DEF Becomes
  <2>3. table'[x[1]][x].status # "none"
    BY <1>5, <1>12, <2>1, ObligationIsPair
  <2>4. Spread(x)'
    BY <1>1, <1>4, <1>5, <2>1, <2>2 DEF Spread, IsCreated
  <2>. QED
    BY <2>3, <2>4
<1>15. IdsAreFresh'
  <2>1. ASSUME NEW m \in Node, NEW i \in 1..MaxDebts
        PROVE  table'[m][<<m, i>>].status # "none" <=> table[m][<<m, i>>].status # "none"
    <3>1. PICK x : x = <<m, i>>
      OBVIOUS
    <3>. x \in Obligation /\ x[1] = m
      BY <3>1 DEF Obligation
    <3>2. CASE m = n /\ x = o
      BY <1>5, <1>12, <3>1, <3>2
    <3>3. CASE ~(m = n /\ x = o)
      BY <1>11, <3>1, <3>3
    <3>. QED
      BY <3>2, <3>3
  <2>. QED
    BY <1>1, <1>2, <2>1, IdsSame
<1>16. Handling(n) = cur[n] /\ Handling(n)' = k /\ ran'[n] /\ cur'[n] = cur[n]
  BY <1>1, <1>2, <1>3 DEF Handling
<1>17. ASSUME ev.type = "debt.resolved", "overlap" \notin astray, st = "none"
       PROVE  n # o[1] /\ Unannounced(o)
  <2>1. n # o[1]
    BY <1>5, <1>8, <1>17
  <2>2. ASSUME NEW j \in 1..k - 1, IsCreated(feed[j].ev, o) PROVE FALSE
    <3>1. j \in 1..Handling(n)
      BY <1>2, <1>3, <1>16
    <3>2. KeptAt(n, j)
      BY <3>1, HandledIsInFeed DEF DebtInv
    <3>. QED
      BY <1>8, <1>17, <2>2, <3>2 DEF KeptAt, IsCreated
  <2>3. Unannounced(o)
    BY <1>4, <1>5, <1>17, <2>2 DEF DebtInv, CreatedFirst
  <2>. QED
    BY <2>1, <2>3
<1>18. KeptAt(n, k)'
  <2>1. ev.type = "debt.created" => table'[n][o].status # "none"
    BY <1>9, <1>11 DEF Becomes
  <2>2. ASSUME "overlap" \notin astray, ev.type = "debt.resolved"
        PROVE  table'[n][o].status = "resolved" \/ (n # o[1] /\ Unannounced(o)')
    <3>1. CASE st = "none"
      <4>1. n # o[1] /\ Unannounced(o)
        BY <1>17, <2>2, <3>1
      <4>2. Unannounced(o)'
        BY <1>1, <4>1 DEF Unannounced, IsCreated
      <4>. QED
        BY <4>1, <4>2
    <3>2. CASE st # "none"
      BY <1>9, <1>11, <2>2, <3>2 DEF Becomes
    <3>. QED
      BY <3>1, <3>2
  <2>. QED
    BY <1>1, <1>4, <1>5, <2>1, <2>2 DEF KeptAt
<1>19. \A i \in 1..Handling(n)' : i \in 1..Handling(n) \/ KeptAt(n, i)'
  <2>. SUFFICES ASSUME NEW i \in 1..Handling(n)', i \notin 1..Handling(n) PROVE KeptAt(n, i)'
    OBVIOUS
  <2>1. i = k
    BY <1>2, <1>3, <1>16
  <2>. QED
    BY <1>18, <2>1
<1>20. (\E c \in 0..Len(feed) : cur' = [cur EXCEPT ![n] = c])
       /\ cur'[n] < Len(feed) /\ feed[cur'[n] + 1].src # n
  <2>1. cur' = [cur EXCEPT ![n] = cur[n]] /\ cur[n] \in 0..Len(feed)
    BY <1>1, <1>2
  <2>. QED
    BY <1>2, <1>3, <1>6, <1>16, <2>1
<1>. QED
  BY <1>1, <1>11, <1>12, <1>14, <1>15, <1>19, <1>20, SyncerStep

LEMMA Least ==
  ASSUME NEW T, T \subseteq Nat, T # {}
  PROVE \E x \in T : \A y \in T : x <= y
<1> DEFINE R == OpToRel(<, Nat)
<1>1. IsWellFoundedOn(R, Nat)
  BY NatLessThanWellFounded
<1>2. PICK x \in T : \A y \in T : ~(<<y, x>> \in R)
  <2> HIDE DEF R
  <2> QED BY <1>1, WFMin
<1>3. ASSUME NEW y \in T PROVE x <= y
  <2>1. ~(<<y, x>> \in R)
    BY <1>2
  <2>2. ~(y < x)
    BY <2>1 DEF OpToRel
  <2> QED BY <2>2
<1> QED BY <1>3

\* Migrate finds a counter that no row of the node is ahead of.
LEMMA CounterResumes ==
    ASSUME NEW n \in Node
    PROVE  /\ Resumed(n) \in 0..MaxDebts
           /\ \A k \in 1..MaxDebts : table[n][<<n, k>>].status # "none" => k <= Resumed(n)
<1>. DEFINE NoneAfter(k) == \A j \in k + 1 .. MaxDebts : table[n][<<n, j>>].status = "none"
            IsLast(k) == (k = 0 \/ table[n][<<n, k>>].status # "none") /\ NoneAfter(k)
            T == {k \in 0..MaxDebts : NoneAfter(k)}
<1>1. MaxDebts \in Nat
  BY Bounds
<1>2. PICK k \in T : \A j \in T : k <= j
  <2>1. T \subseteq Nat /\ MaxDebts \in T
    BY <1>1
  <2>. HIDE DEF T
  <2>. QED
    BY <2>1, Least
<1>3. IsLast(k)
  <2>1. ASSUME k # 0, table[n][<<n, k>>].status = "none" PROVE FALSE
    <3>1. k - 1 \in 0..MaxDebts /\ k \in Nat
      BY <1>1, <2>1
    <3>2. NoneAfter(k - 1)
      <4>1. ASSUME NEW j \in (k - 1) + 1 .. MaxDebts PROVE table[n][<<n, j>>].status = "none"
        <5>1. j = k \/ j \in k + 1 .. MaxDebts
          BY <1>1, <3>1
        <5>. QED
          BY <2>1, <5>1
      <4>. QED
        BY <4>1
    <3>3. k - 1 \in T
      BY <3>1, <3>2
    <3>4. k <= k - 1
      <4>. HIDE DEF T
      <4>. QED
        BY <1>2, <3>3
    <3>. QED
      BY <3>1, <3>4
  <2>. QED
    BY <2>1
<1>4. Resumed(n) = CHOOSE j \in 0..MaxDebts : IsLast(j)
  BY DEF Resumed
<1>5. Resumed(n) \in 0..MaxDebts /\ IsLast(Resumed(n))
  <2>1. k \in 0..MaxDebts
    OBVIOUS
  <2>. HIDE DEF IsLast, T
  <2>. QED
    BY <1>3, <1>4, <2>1
<1>6. ASSUME NEW j \in 1..MaxDebts, table[n][<<n, j>>].status # "none" PROVE j <= Resumed(n)
  <2>1. j \notin Resumed(n) + 1 .. MaxDebts
    BY <1>5, <1>6
  <2>. QED
    BY <1>1, <1>5, <2>1
<1>. QED
  BY <1>5, <1>6

LEMMA DebtCrash ==
    ASSUME DebtInv, Shape, NEW n \in Node, Crash(n)
    PROVE  DebtInv' /\ Shape'
<1>1. UNCHANGED <<here, table, log, sent, feed, cur, born, found, moves>>
      /\ ran' = [ran EXCEPT ![n] = FALSE] /\ astray' = astray \cup {"fault"}
      /\ oseq' = [oseq EXCEPT ![n] = Resumed(n)]
  BY DEF Crash
<1>2. TypeOK /\ IdInv /\ oseq \in [Node -> 0..MaxDebts] /\ ran \in [Node -> BOOLEAN]
  BY DEF DebtInv, IdInv, TypeOK
<1>3. oseq' \in [Node -> 0..MaxDebts] /\ IdsAreFresh'
  <2>1. oseq' \in [Node -> 0..MaxDebts]
    BY <1>1, <1>2, CounterResumes
  <2>2. ASSUME NEW m \in Node, NEW k \in 1..MaxDebts, table[m][<<m, k>>].status # "none"
        PROVE  k <= oseq'[m]
    <3>1. CASE m = n
      BY <1>1, <1>2, <2>2, <3>1, CounterResumes
    <3>2. CASE m # n
      BY <1>1, <1>2, <2>2, <3>2 DEF IdInv, IdsAreFresh
    <3>. QED
      BY <3>1, <3>2
  <2>. QED
    BY <1>1, <2>1, <2>2 DEF IdsAreFresh
<1>4. \/ work' = work
      \/ work' = [s \in Session |-> Free]
  BY DEF Crash
<1>5. WorkOK' /\ \A s \in Session : \/ here' = here /\ work'[s] = work[s]
                                    \/ work'[s].emit = << >> /\ work'[s].todo = {}
  <2>1. CASE work' = work
    BY <1>1, <1>2, <2>1, Unwritten
  <2>2. CASE work' = [s \in Session |-> Free]
    <3>1. PICK td, am, em : Free = [todo |-> td, amount |-> am, emit |-> em]
      BY DEF Free
    <3>2. ASSUME NEW s \in Session
          PROVE  work'[s] = Free
                 /\ Free = [todo |-> work'[s].todo, amount |-> work'[s].amount, emit |-> work'[s].emit]
      BY <2>2, <3>1
    <3>3. work' = [s \in Session |-> [todo |-> work'[s].todo, amount |-> work'[s].amount, emit |-> work'[s].emit]]
      BY <2>2, <3>2
    <3>. QED
      BY <3>2, <3>3, FreeIsIdle DEF WorkOK
  <2>. QED
    BY <1>4, <2>1, <2>2
<1>6. TypeOK'
  <2>1. ran' \in [Node -> BOOLEAN] /\ faults' \in 0..MaxFaults
    BY <1>1, <1>2, FaultTyped DEF Crash
  <2>2. astray' \subseteq {"overlap", "stale", "fault"}
    BY <1>1, <1>2 DEF TypeOK
  <2>. QED
    BY <1>1, <1>2, <1>3, <1>5, <2>1, <2>2, Unwritten DEF TypeOK
<1>7. NewWork
  BY <1>5, WorkEnds
<1>8. Grows /\ Shape' /\ NewEvents
  <2>1. \A s \in Session : work'[s].emit = << >> \/ work'[s].emit = work[s].emit
    BY <1>5
  <2>2. "overlap" \in astray => "overlap" \in astray'
    BY <1>1
  <2>. QED
    BY <1>1, <2>1, <2>2, GrowsQuietly
<1>9. NewRows /\ IdsAreFresh'
  BY <1>1, <1>3 DEF NewRows
<1>10. FeedIsPushed' /\ CreatedFirst'
  BY <1>1, <1>8, FeedSame DEF DebtInv
<1>11. ASSUME NEW m \in Node
       PROVE  /\ ran'[m] => cur'[m] < Len(feed') /\ feed'[cur'[m] + 1].src # m
              /\ \A k \in 1..Handling(m)' : k \in 1..Handling(m) \/ KeptAt(m, k)'
  <2>1. ran'[m] => ran[m]
    BY <1>1, <1>2
  <2>2. ran'[m] => cur'[m] < Len(feed') /\ feed'[cur'[m] + 1].src # m
    BY <1>1, <2>1 DEF DebtInv, HandlersKeep
  <2>3. cur[m] \in Nat
    BY HandledIsInFeed DEF DebtInv
  <2>4. \A k \in 1..Handling(m)' : k \in 1..Handling(m)
    BY <1>1, <2>1, <2>3 DEF Handling
  <2>. QED
    BY <2>2, <2>4
<1>12. HandlersKeep'
  BY <1>8, <1>11, HandlersKept
<1>. QED
  BY <1>6, <1>7, <1>8, <1>9, <1>10, <1>12, DebtsAssembled

-----------------------------------------------------------------------------
(* The invariant and the theorems. *)

LEMMA DebtInit == Init => DebtInv /\ Shape
<1>. SUFFICES ASSUME Init PROVE DebtInv /\ Shape
  OBVIOUS
<1>1. log = [n \in Node |-> << >>] /\ feed = << >> /\ Len(feed) = 0 /\ Shape
      /\ \A n \in Node : log[n] = << >> /\ Len(log[n]) = 0
  <2>1. << >> \in Seq({})
    OBVIOUS
  <2>2. log \in [Node -> Seq({})] /\ feed \in Seq({})
    BY <2>1 DEF Init
  <2>. QED
    BY <2>2 DEF Init, Shape
<1>2. RowsOK /\ \A n \in Node : \A o \in Obligation : table[n][o].status = "none"
  <2>1. PICK st, w : NoDebt = [status |-> st, weight |-> w] /\ st = "none"
    BY DEF NoDebt
  <2>2. table = [n \in Node |-> [o \in Obligation |-> NoDebt]]
    BY DEF Init
  <2>3. NoDebt = [status |-> NoDebt.status, weight |-> NoDebt.weight] /\ NoDebt.status = "none"
    BY <2>1
  <2>4. \A n \in Node : table[n] = [o \in Obligation |-> NoDebt]
    BY <2>2
  <2>5. \A n \in Node : \A o \in Obligation : table[n][o] = NoDebt
    BY <2>4
  <2>6. ASSUME NEW n \in Node
        PROVE  table[n] = [o \in Obligation |->
                 [status |-> table[n][o].status, weight |-> table[n][o].weight]]
    BY <2>3, <2>4, <2>5
  <2>7. table = [n \in Node |-> table[n]]
    BY <2>2
  <2>. QED
    BY <2>3, <2>5, <2>6, <2>7 DEF RowsOK
<1>3. WorkOK /\ \A s \in Session : work[s].emit = << >> /\ work[s].todo = {}
  <2>1. PICK td, am, em : Free = [todo |-> td, amount |-> am, emit |-> em]
    BY DEF Free
  <2>2. work = [s \in Session |-> Free]
    BY DEF Init
  <2>3. ASSUME NEW s \in Session
        PROVE  work[s] = Free
               /\ Free = [todo |-> work[s].todo, amount |-> work[s].amount, emit |-> work[s].emit]
    BY <2>1, <2>2
  <2>4. work = [s \in Session |-> [todo |-> work[s].todo, amount |-> work[s].amount, emit |-> work[s].emit]]
    BY <2>2, <2>3
  <2>. QED
    BY <2>3, <2>4, FreeIsIdle DEF WorkOK
<1>4. TypeOK
  <2>1. oseq \in [Node -> 0..MaxDebts] /\ sent \in [Node -> Nat] /\ cur \in [Node -> 0..Len(feed)]
        /\ \A n \in Node : sent[n] = 0
    BY <1>1, Bounds DEF Init
  <2>2. ran \in [Node -> BOOLEAN] /\ born \in Seq(Obligation) /\ astray = {}
        /\ found \in 0..MaxGoods /\ moves \in 0..MaxMoves /\ faults \in 0..MaxFaults
    BY Bounds DEF Init
  <2>3. here \in Node
    BY NodesAssumption DEF Init
  <2>. QED
    BY <1>1, <1>2, <1>3, <2>1, <2>2, <2>3 DEF TypeOK
<1>5. IdsAreFresh
  <2>. SUFFICES ASSUME NEW n \in Node, NEW k \in 1..MaxDebts
                PROVE  table[n][<<n, k>>].status = "none" /\ ~(k <= oseq[n])
    BY DEF IdsAreFresh
  <2>1. <<n, k>> \in Obligation /\ oseq[n] = 0
    BY DEF Obligation, Init
  <2>. QED
    BY <1>2, <2>1
<1>6. IdInv
  BY <1>1, <1>2, <1>3, <1>4, <1>5 DEF IdInv, RowsAreCreated, EventsHaveRows
<1>7. FeedIsPushed /\ CreatedFirst /\ PaymentsFollow
  <2>1. \A n \in Node : sent[n] = 0
    BY DEF Init
  <2>. QED
    BY <1>1, <1>3, <2>1 DEF FeedIsPushed, CreatedFirst, PaymentsFollow
<1>8. HandlersKeep
  <2>1. \A n \in Node : ~ran[n] /\ Handling(n) = 0
    BY DEF Init, Handling
  <2>. QED
    BY <2>1 DEF HandlersKeep
<1>. QED
  BY <1>1, <1>6, <1>7, <1>8 DEF DebtInv

LEMMA DebtNext ==
    ASSUME DebtInv, Shape, [Next]_vars
    PROVE  DebtInv' /\ Shape'
<1>1. CASE UNCHANGED vars
  <2>1. UNCHANGED <<here, log, feedVars, found, moves, faults>>
        /\ UNCHANGED <<table, oseq, born, work, owed, astray>>
    BY <1>1 DEF vars, feedVars
  <2>. QED
    BY <2>1, DebtPaidAtOnce
<1>2. CASE Next
  <2>1. CASE \E g \in Good : Find(g)
    BY <2>1, DebtFind
  <2>2. CASE \E s \in Session : SessionStep(s) \/ PayDebt(s) \/ PayFails(s) \/ EmitFails(s)
    BY <2>2, DebtEnds, DebtPay, DebtPayment, DebtEmit DEF SessionStep
  <2>3. CASE \E s \in Session : \E price \in Prices : Buy(s, price) \/ BuyFails(s, price)
    BY <2>3, DebtBuy, DebtBuyFails
  <2>4. CASE \E n \in Node : Move(n) \/ Deliver(n) \/ Crash(n)
    BY <2>4, DebtMove, DebtPush, DebtSkip, DebtHandler, DebtMarked, DebtCrash DEF Deliver
  <2>. QED
    BY <1>2, <2>1, <2>2, <2>3, <2>4 DEF Next
<1>. QED
  BY <1>1, <1>2

LEMMA Invariance == Spec => [](DebtInv /\ Shape)
  BY DebtInit, DebtNext, PTL DEF Spec

\* The counter (Store.oseq), which lives in memory and which Migrate resumes from
\* the rows, is never behind a row of its node: the id of an obligation that was
\* inserted is not given out again, whatever crashes and INSERTs fail.  No mirror
\* has a row, and no node an event, on an obligation that its source does not
\* have; so a number that was lost with a failed INSERT can be used again.
THEOREM IdsAreKept == Spec => []IdInv
<1>1. DebtInv => IdInv
  BY DEF DebtInv
<1>. QED
  BY <1>1, Invariance, PTL

\* A node emits debt.adjusted and debt.resolved only for rows of OpenDebts: of
\* its own, whose debt.created it emitted before, or from the feed.  The feed
\* keeps both orders, so the handlers never meet a payment before its debt.
THEOREM PaymentsComeAfterDebts == Spec => []CreatedFirst
<1>1. DebtInv => CreatedFirst
  BY DEF DebtInv
<1>. QED
  BY <1>1, Invariance, PTL

LEMMA ResolvedOrLost ==
    ASSUME DebtInv, Shape
    PROVE  ResolutionWins
<1>. SUFFICES ASSUME "overlap" \notin astray, NEW n \in Node, NEW k \in 1..cur[n],
                     feed[k].ev.type = "debt.resolved", table[n][feed[k].ev.ob].status = "open"
              PROVE  FALSE
  BY DEF ResolutionWins
<1>1. k \in 1..Handling(n) /\ k \in 1..Len(feed)
  <2>1. cur[n] \in Nat
    BY HandledIsInFeed DEF DebtInv
  <2>2. k \in 1..Handling(n)
    BY <2>1 DEF Handling
  <2>. QED
    BY <2>2, HandledIsInFeed DEF DebtInv
<1>2. PICK o \in Obligation : o = feed[k].ev.ob
  BY <1>1, FeedBacked DEF DebtInv
<1>3. n # o[1] /\ Unannounced(o)
  BY <1>1, <1>2, HandledIsInFeed DEF KeptAt, DebtInv
<1>4. PICK j \in 1..Len(feed) : IsCreated(feed[j].ev, o)
  BY <1>2, <1>3 DEF DebtInv, IdInv, RowsAreCreated, Spread
<1>5. feed[j].src = o[1]
  BY <1>4, FeedBacked DEF DebtInv, Backed, IsCreated
<1>6. \E i \in 1..Len(log[o[1]]) : IsCreated(log[o[1]][i], o)
  <2>1. \E i \in 1..Len(log[feed[j].src]) : feed[j].ev = log[feed[j].src][i]
    BY DEF DebtInv, FeedIsPushed
  <2>2. PICK i \in 1..Len(log[o[1]]) : feed[j].ev = log[o[1]][i]
    BY <1>5, <2>1
  <2>. QED
    BY <1>4, <2>2 DEF IsCreated
<1>. QED
  BY <1>3, <1>6 DEF Unannounced

\* No adjustment from a stale mirror, no rerun of a handler and no restart
\* reopens a debt at a node that has gone past its debt.resolved.
THEOREM ResolutionIsFinal == Spec => []ResolutionWins
  BY Invariance, ResolvedOrLost, PTL

-----------------------------------------------------------------------------
(* Induction over numbers, and the recursive functions of SumTo and Consume. *)

LEMMA Induction ==
  ASSUME NEW n \in Nat, NEW S, 0 \in S, \A i \in 1..n : i - 1 \in S => i \in S
  PROVE  \A i \in 0..n : i \in S
<1>. DEFINE T == {i \in 0..n : i \notin S}
<1>1. SUFFICES ASSUME T # {} PROVE FALSE
  OBVIOUS
<1>2. PICK i \in T : \A j \in T : i <= j
  <2>1. T \subseteq Nat
    OBVIOUS
  <2>. HIDE DEF T
  <2>. QED  BY <1>1, <2>1, Least
<1>3. i - 1 \in T
  BY <1>2
<1>. QED  BY <1>2, <1>3

Iterates(v, n, D, base, step) ==
    v \in [0..n -> D] /\ v[0] = base /\ \A i \in 1..n : v[i] = step[i][v[i - 1]]

LEMMA Recursion ==
  ASSUME NEW n \in Nat, NEW D, NEW base \in D, NEW step \in [1..n -> [D -> D]]
  PROVE  \E v : Iterates(v, n, D, base, step)
<1>. DEFINE Prefix(k, v) == v \in [0..k -> D] /\ v[0] = base /\ \A i \in 1..k : v[i] = step[i][v[i - 1]]
            S == {k \in 0..n : \E v : Prefix(k, v)}
<1>1. 0 \in S
  <2>1. Prefix(0, [i \in 0..0 |-> base])
    OBVIOUS
  <2>. HIDE DEF Prefix
  <2>2. \E v : Prefix(0, v)
    BY <2>1
  <2>. QED  BY <2>2
<1>2. ASSUME NEW k \in 1..n, k - 1 \in S  PROVE k \in S
  <2>1. PICK v : Prefix(k - 1, v)
    BY <1>2
  <2>. DEFINE w == [i \in 0..k |-> IF i = k THEN step[k][v[k - 1]] ELSE v[i]]
  <2>2. v[k - 1] \in D /\ step[k][v[k - 1]] \in D
    BY <2>1
  <2>3. w \in [0..k -> D]
    BY <2>1, <2>2
  <2>4. w[0] = base
    BY <2>1
  <2>5. \A i \in 1..k : w[i] = step[i][w[i - 1]]
    BY <2>1
  <2>6. Prefix(k, w)
    BY <2>3, <2>4, <2>5
  <2>. HIDE DEF Prefix, w
  <2>. QED  BY <2>6
<1>3. n \in S
  <2>1. \A k \in 1..n : k - 1 \in S => k \in S
    BY <1>2
  <2>. HIDE DEF S
  <2>2. \A k \in 0..n : k \in S
    BY <1>1, <2>1, Induction
  <2>. QED  BY <2>2
<1>. QED  BY <1>3 DEF Iterates

LEMMA SumDefined ==
  ASSUME NEW n \in Nat, NEW f \in [1..n -> Int]
  PROVE  \E s \in [0..n -> Int] : /\ s[0] = 0 /\ \A i \in 1..n : s[i] = s[i - 1] + f[i]
                                 /\ SumTo(f, n) = s[n]
<1>. DEFINE step == [i \in 1..n |-> [x \in Int |-> x + f[i]]]
            Body(s) == [i \in 0..n |-> IF i = 0 THEN 0 ELSE s[i - 1] + f[i]]
<1>1. step \in [1..n -> [Int -> Int]]
  OBVIOUS
<1>2. PICK v : Iterates(v, n, Int, 0, step)
  <2>. HIDE DEF step
  <2>1. 0 \in Int
    OBVIOUS
  <2>. QED  BY <1>1, <2>1, Recursion
<1>3. ASSUME NEW i \in 1..n  PROVE v[i] = v[i - 1] + f[i]
  <2>. HIDE DEF step
  <2>1. v[i] = step[i][v[i - 1]] /\ v[i - 1] \in Int
    BY <1>2 DEF Iterates
  <2>. QED  BY <2>1 DEF step
<1>4. v = Body(v)
  BY <1>2, <1>3 DEF Iterates
<1>. DEFINE s == CHOOSE s : s = Body(s)
<1>5. s = Body(s)
  <2>. HIDE DEF Body
  <2>. QED  BY <1>4
<1>6. SumTo(f, n) = s[n]
  BY DEF SumTo
<1>. HIDE DEF s
<1>7. s[0] = 0 /\ \A i \in 1..n : s[i] = s[i - 1] + f[i]
  BY <1>5
<1>8. \A i \in 0..n : s[i] \in Int
  <2>. DEFINE S == {i \in 0..n : s[i] \in Int}
  <2>1. 0 \in S
    BY <1>7
  <2>2. \A i \in 1..n : i - 1 \in S => i \in S
    BY <1>7
  <2>. HIDE DEF S
  <2>3. \A i \in 0..n : i \in S
    BY <2>1, <2>2, Induction
  <2>. QED  BY <2>3 DEF S
<1>9. s \in [0..n -> Int]
  BY <1>5, <1>8
<1>. QED  BY <1>6, <1>7, <1>9

-----------------------------------------------------------------------------
(* consumeForCost. *)

LEMMA GoodsAreSorted ==
    /\ Len(Goods) \in Nat
    /\ \A i \in 1..Len(Goods) : Goods[i] \in Good
    /\ \A g \in Good : \E i \in 1..Len(Goods) : Goods[i] = g
    /\ \A i, j \in 1..Len(Goods) :
         i < j => Goods[i] # Goods[j] /\ Weight[Goods[i]] <= Weight[Goods[j]]
    /\ \A g \in Good : Weight[g] \in Nat \ {0}
<1>1. Goods \in Seq(Good)
  BY GoodsAssumption
<1>2. Len(Goods) \in Nat /\ DOMAIN Goods = 1..Len(Goods)
  BY <1>1
<1>3. \A g \in Good : \E i \in 1..Len(Goods) : Goods[i] = g
  BY <1>2 DEF Good, Range
<1>. QED
  BY <1>1, <1>2, <1>3, GoodsAssumption

LEMMA UnitsCover ==
    ASSUME NEW need \in Int, NEW w \in Nat \ {0}
    PROVE  /\ UnitsFor(need, w) \in Nat
           /\ UnitsFor(need, w) * w >= need
           /\ \A k \in Nat : k > 0 /\ k <= UnitsFor(need, w) => (k - 1) * w < need
<1>1. CASE need <= 0
  BY <1>1 DEF UnitsFor
<1>2. CASE need > 0
  <2>. DEFINE a == need + w - 1
              q == a \div w
  <2>1. a \in Nat
    BY <1>2
  <2>2. q \in Nat /\ w * q <= a /\ a < w * q + w
    <3>. HIDE DEF a
    <3>. QED  BY <2>1
  <2>3. UnitsFor(need, w) = q
    BY <1>2 DEF UnitsFor
  <2>. HIDE DEF q
  <2>4. q * w >= need
    BY <2>2
  <2>5. ASSUME NEW k \in Nat, k > 0, k <= q  PROVE (k - 1) * w < need
    <3>1. (k - 1) * w <= (q - 1) * w
      BY <2>2, <2>5
    <3>2. (q - 1) * w < need
      BY <2>2
    <3>. QED
      BY <2>2, <3>1, <3>2
  <2>. QED
    BY <2>2, <2>3, <2>4, <2>5
<1>. QED
  BY <1>1, <1>2

Handed == [left : [Good -> Nat], consumed : Nat]

\* One turn of the outer loop hands over k units of g.
LEMMA HandedOver ==
    ASSUME NEW r \in Handed, NEW g \in Good, NEW cost \in Int
    PROVE  \E k \in Nat :
             /\ k <= r.left[g]
             /\ HandOver(r, g, cost) = [left |-> [r.left EXCEPT ![g] = @ - k],
                                        consumed |-> r.consumed + k * Weight[g]]
             /\ HandOver(r, g, cost) \in Handed
             /\ r.consumed + k * Weight[g] < cost => k = r.left[g]
             /\ k > 0 => r.consumed + k * Weight[g] - Weight[g] < cost
<1>. DEFINE need == cost - r.consumed
            w == Weight[g]
            u == UnitsFor(need, w)
            k == Lesser(r.left[g], u)
<1>1. r.left \in [Good -> Nat] /\ r.left[g] \in Nat /\ r.consumed \in Nat
  BY DEF Handed
<1>2. w \in Nat \ {0}
  BY GoodsAreSorted
<1>3. need \in Int
  BY <1>1
<1>4. u \in Nat /\ u * w >= need /\ \A j \in Nat : j > 0 /\ j <= u => (j - 1) * w < need
  <2>. HIDE DEF w, need
  <2>. QED  BY <1>2, <1>3, UnitsCover
<1>5. HandOver(r, g, cost) = [left |-> [r.left EXCEPT ![g] = @ - k], consumed |-> r.consumed + k * w]
  BY DEF HandOver
<1>6. k \in Nat /\ k <= r.left[g] /\ k <= u /\ (k = r.left[g] \/ k = u)
  <2>. HIDE DEF u
  <2>. QED  BY <1>1, <1>4 DEF Lesser
<1>. HIDE DEF k, u, w
<1>7. k * w \in Nat
  BY <1>2, <1>6
<1>8. [r.left EXCEPT ![g] = @ - k] \in [Good -> Nat]
  BY <1>1, <1>6
<1>9. HandOver(r, g, cost) \in Handed
  BY <1>1, <1>5, <1>7, <1>8 DEF Handed
<1>10. r.consumed + k * w < cost => k = r.left[g]
  BY <1>1, <1>4, <1>6, <1>7
<1>11. k > 0 => r.consumed + k * w - w < cost
  <2>1. k > 0 => (k - 1) * w < need
    BY <1>4, <1>6
  <2>2. (k - 1) * w = k * w - w
    BY <1>2, <1>6
  <2>. QED  BY <1>1, <1>2, <1>7, <2>1, <2>2
<1>. QED
  BY <1>5, <1>6, <1>9, <1>10, <1>11 DEF w

HandsOver(r, p, cost) ==
    /\ r \in [0..Len(Goods) -> Handed]
    /\ r[0] = [left |-> p, consumed |-> 0]
    /\ \A i \in 1..Len(Goods) : r[i] = HandOver(r[i - 1], Goods[i], cost)

\* The recursive definition of Consume does define the run of the outer loop.
LEMMA ConsumeRuns ==
    ASSUME NEW p \in [Good -> Nat], NEW cost \in Int
    PROVE  \E r : HandsOver(r, p, cost) /\ Consume(p, cost) = r[Len(Goods)]
<1>. DEFINE n == Len(Goods)
            base == [left |-> p, consumed |-> 0]
            step == [i \in 1..n |-> [x \in Handed |-> HandOver(x, Goods[i], cost)]]
            Body(r) == [i \in 0..n |-> IF i = 0 THEN base ELSE HandOver(r[i - 1], Goods[i], cost)]
            r == CHOOSE r : r = Body(r)
<1>1. n \in Nat /\ base \in Handed
  BY GoodsAreSorted DEF Handed
<1>2. \A x \in Handed : \A i \in 1..n : HandOver(x, Goods[i], cost) \in Handed
  BY GoodsAreSorted, HandedOver
<1>3. step \in [1..n -> [Handed -> Handed]]
  BY <1>2
<1>4. PICK v : Iterates(v, n, Handed, base, step)
  <2>. HIDE DEF step, base, n
  <2>. QED
    BY <1>1, <1>3, Recursion
<1>5. /\ v \in [0..n -> Handed]
      /\ v[0] = base
      /\ \A i \in 1..n : v[i] = HandOver(v[i - 1], Goods[i], cost)
  <2>1. v \in [0..n -> Handed] /\ v[0] = base
    BY <1>4 DEF Iterates
  <2>2. ASSUME NEW i \in 1..n  PROVE v[i] = HandOver(v[i - 1], Goods[i], cost)
    <3>. HIDE DEF step, n
    <3>1. v[i] = step[i][v[i - 1]]
      BY <1>4 DEF Iterates
    <3>2. v[i - 1] \in Handed
      BY <1>1, <2>1
    <3>. QED
      BY <3>1, <3>2 DEF step
  <2>. QED
    BY <2>1, <2>2
<1>6. v = Body(v)
  <2>. HIDE DEF base, n
  <2>. QED
    BY <1>5
<1>7. r = Body(r)
  <2>. HIDE DEF Body
  <2>. QED
    BY <1>6
<1>8. Consume(p, cost) = r[n]
  BY DEF Consume
<1>. HIDE DEF r, step, base, n
<1>9. r[0] = base /\ \A i \in 1..n : r[i] = HandOver(r[i - 1], Goods[i], cost)
  BY <1>1, <1>7
<1>10. \A i \in 0..n : r[i] \in Handed
  <2>. DEFINE S == {i \in 0..n : r[i] \in Handed}
  <2>1. 0 \in S
    BY <1>1, <1>9
  <2>2. \A i \in 1..n : i - 1 \in S => i \in S
    BY <1>1, <1>2, <1>9
  <2>. HIDE DEF S
  <2>3. \A i \in 0..n : i \in S
    BY <1>1, <2>1, <2>2, Induction
  <2>. QED
    BY <2>3 DEF S
<1>11. r \in [0..n -> Handed]
  BY <1>7, <1>10
<1>. QED
  BY <1>8, <1>9, <1>11 DEF HandsOver, base, n

\* What the turn for the i-th good changes.
Turn(r, cost, i) ==
    LET g == Goods[i]
        k == r[i - 1].left[g] - r[i].left[g]
    IN  /\ \A h \in Good : h # g => r[i].left[h] = r[i - 1].left[h]
        /\ k \in Nat
        /\ r[i].consumed = r[i - 1].consumed + k * Weight[g]
        /\ r[i].consumed < cost => r[i].left[g] = 0
        /\ k > 0 => r[i].consumed - Weight[g] < cost

LEMMA Turns ==
    ASSUME NEW p \in [Good -> Nat], NEW cost \in Int, NEW r, HandsOver(r, p, cost),
           NEW i \in 1..Len(Goods)
    PROVE  Turn(r, cost, i)
<1>1. r[i] = HandOver(r[i - 1], Goods[i], cost)
  BY DEF HandsOver
<1>2. r[i - 1] \in Handed /\ r[i] \in Handed
  <2>1. i \in 0..Len(Goods) /\ i - 1 \in 0..Len(Goods)
    BY GoodsAreSorted
  <2>. QED
    BY <2>1 DEF HandsOver
<1>3. PICK g \in Good : g = Goods[i]
  BY GoodsAreSorted
<1>4. PICK k \in Nat :
        /\ k <= r[i - 1].left[g]
        /\ HandOver(r[i - 1], g, cost) = [left |-> [r[i - 1].left EXCEPT ![g] = @ - k],
                                          consumed |-> r[i - 1].consumed + k * Weight[g]]
        /\ r[i - 1].consumed + k * Weight[g] < cost => k = r[i - 1].left[g]
        /\ k > 0 => r[i - 1].consumed + k * Weight[g] - Weight[g] < cost
  BY <1>2, HandedOver
<1>5. r[i].left = [r[i - 1].left EXCEPT ![g] = @ - k] /\ r[i].consumed = r[i - 1].consumed + k * Weight[g]
  BY <1>1, <1>3, <1>4
<1>6. r[i - 1].left \in [Good -> Nat]
  BY <1>2 DEF Handed
<1>7. r[i].left[g] = r[i - 1].left[g] - k /\ \A h \in Good : h # g => r[i].left[h] = r[i - 1].left[h]
  BY <1>5, <1>6
<1>8. r[i - 1].left[g] - r[i].left[g] = k
  BY <1>6, <1>7
<1>9. r[i].consumed < cost => r[i].left[g] = 0
  BY <1>4, <1>5, <1>6, <1>7
<1>10. k > 0 => r[i].consumed - Weight[g] < cost
  <2>1. k > 0 => r[i - 1].consumed + k * Weight[g] - Weight[g] < cost
    BY <1>4
  <2>2. r[i].consumed = r[i - 1].consumed + k * Weight[g]
    BY <1>5
  <2>3. r[i - 1].consumed \in Nat /\ r[i].consumed \in Nat /\ Weight[g] \in Nat
    BY <1>2, GoodsAreSorted DEF Handed
  <2>. QED
    BY <2>1, <2>2, <2>3
<1>11. r[i].consumed = r[i - 1].consumed + k * Weight[g]
  BY <1>5
<1>. QED
  BY <1>3, <1>7, <1>8, <1>9, <1>10, <1>11 DEF Turn

\* A turn leaves the goods of the others alone.
LEMMA OthersUntouched ==
    ASSUME NEW p \in [Good -> Nat], NEW cost \in Int, NEW r, HandsOver(r, p, cost),
           NEW i \in 1..Len(Goods)
    PROVE  /\ r[i - 1].left[Goods[i]] = p[Goods[i]]
           /\ r[Len(Goods)].left[Goods[i]] = r[i].left[Goods[i]]
<1>. DEFINE n == Len(Goods)
            g == Goods[i]
<1>1. n \in Nat /\ g \in Good
  BY GoodsAreSorted
<1>2. \A j \in 1..n : j # i => Goods[j] # g
  BY GoodsAreSorted
<1>3. ASSUME NEW j \in 1..n, j # i
      PROVE  r[j].left[g] = r[j - 1].left[g]
  <2>1. Turn(r, cost, j)
    BY Turns
  <2>2. \A h \in Good : h # Goods[j] => r[j].left[h] = r[j - 1].left[h]
    BY <2>1 DEF Turn
  <2>3. g \in Good /\ g # Goods[j]
    BY <1>1, <1>2, <1>3
  <2>. QED
    BY <2>2, <2>3
<1>. HIDE DEF n, g
<1>4. \A j \in 0..n : j < i => r[j].left[g] = p[g]
  <2>. DEFINE S == {j \in 0..n : j < i => r[j].left[g] = p[g]}
  <2>1. 0 \in S
    BY <1>1 DEF HandsOver
  <2>2. \A j \in 1..n : j - 1 \in S => j \in S
    BY <1>1, <1>3 DEF n
  <2>. HIDE DEF S
  <2>3. \A j \in 0..n : j \in S
    BY <1>1, <2>1, <2>2, Induction
  <2>. QED
    BY <2>3 DEF S
<1>5. \A j \in 0..n : j >= i => r[j].left[g] = r[i].left[g]
  <2>. DEFINE S == {j \in 0..n : j >= i => r[j].left[g] = r[i].left[g]}
  <2>1. 0 \in S
    BY <1>1 DEF n
  <2>2. \A j \in 1..n : j - 1 \in S => j \in S
    BY <1>1, <1>3 DEF n
  <2>. HIDE DEF S
  <2>3. \A j \in 0..n : j \in S
    BY <1>1, <2>1, <2>2, Induction
  <2>. QED
    BY <2>3 DEF S
<1>. QED
  BY <1>1, <1>4, <1>5 DEF n, g

\* The running sum that Value computes.
Sums(s, p) ==
    /\ s \in [0..Len(Goods) -> Int]
    /\ s[0] = 0
    /\ \A i \in 1..Len(Goods) : s[i] = s[i - 1] + p[Goods[i]] * Weight[Goods[i]]

LEMMA ValueRuns ==
    ASSUME NEW p \in [Good -> Nat]
    PROVE  \E s : Sums(s, p) /\ Value(p) = s[Len(Goods)]
<1>. DEFINE n == Len(Goods)
            f == [i \in 1..n |-> p[Goods[i]] * Weight[Goods[i]]]
<1>1. \A i \in 1..n : p[Goods[i]] * Weight[Goods[i]] \in Int
  <2>. SUFFICES ASSUME NEW i \in 1..n  PROVE p[Goods[i]] * Weight[Goods[i]] \in Int
    OBVIOUS
  <2>1. Goods[i] \in Good
    BY GoodsAreSorted
  <2>2. p[Goods[i]] \in Nat /\ Weight[Goods[i]] \in Nat
    BY <2>1, GoodsAreSorted
  <2>. QED
    BY <2>2
<1>2. f \in [1..n -> Int] /\ n \in Nat
  BY <1>1, GoodsAreSorted
<1>3. Value(p) = SumTo(f, n)
  BY DEF Value
<1>4. PICK s \in [0..n -> Int] :
        /\ s[0] = 0 /\ \A i \in 1..n : s[i] = s[i - 1] + f[i]
        /\ SumTo(f, n) = s[n]
  <2>. HIDE DEF f, n
  <2>. QED
    BY <1>2, SumDefined
<1>. QED
  BY <1>3, <1>4 DEF Sums

LEMMA ValueIsNat ==
    ASSUME NEW p \in [Good -> Nat]
    PROVE  Value(p) \in Nat
<1>1. PICK s : Sums(s, p) /\ Value(p) = s[Len(Goods)]
  BY ValueRuns
<1>. DEFINE S == {i \in 0..Len(Goods) : s[i] >= 0}
<1>2. Len(Goods) \in Nat
  BY GoodsAreSorted
<1>3. 0 \in S
  BY <1>1, <1>2 DEF Sums
<1>4. ASSUME NEW i \in 1..Len(Goods), i - 1 \in S  PROVE i \in S
  <2>1. Goods[i] \in Good
    BY GoodsAreSorted
  <2>2. p[Goods[i]] \in Nat /\ Weight[Goods[i]] \in Nat
    BY <2>1, GoodsAreSorted
  <2>3. p[Goods[i]] * Weight[Goods[i]] \in Nat
    BY <2>2
  <2>4. s[i] = s[i - 1] + p[Goods[i]] * Weight[Goods[i]] /\ s[i - 1] \in Int
    <3>1. i - 1 \in 0..Len(Goods)
      BY <1>2
    <3>. QED
      BY <1>1, <3>1 DEF Sums
  <2>. QED
    BY <1>4, <2>3, <2>4
<1>5. \A i \in 0..Len(Goods) : i \in S
  <2>1. \A i \in 1..Len(Goods) : i - 1 \in S => i \in S
    BY <1>4
  <2>. HIDE DEF S
  <2>. QED
    BY <1>2, <1>3, <2>1, Induction
<1>. QED
  BY <1>1, <1>2, <1>5 DEF Sums

\* What is handed over is worth what is missing from the goods that are left.
LEMMA NothingIsLost ==
    ASSUME NEW p \in [Good -> Nat], NEW cost \in Int, NEW r, HandsOver(r, p, cost)
    PROVE  Value(r[Len(Goods)].left) + r[Len(Goods)].consumed = Value(p)
<1>. DEFINE n == Len(Goods)
            q == r[n].left
<1>1. n \in Nat
  BY GoodsAreSorted
<1>2. q \in [Good -> Nat] /\ \A i \in 0..n : r[i].consumed \in Nat
  <2>1. \A i \in 0..n : r[i] \in Handed
    BY DEF HandsOver
  <2>2. n \in 0..n
    BY <1>1
  <2>. QED
    BY <2>1, <2>2 DEF Handed
<1>3. PICK s : Sums(s, p) /\ Value(p) = s[n]
  BY ValueRuns
<1>4. PICK t : Sums(t, q) /\ Value(q) = t[n]
  <2>. HIDE DEF q
  <2>. QED
    BY <1>2, ValueRuns
<1>. DEFINE S == {i \in 0..n : t[i] + r[i].consumed = s[i]}
<1>5. 0 \in S
  BY <1>1, <1>3, <1>4 DEF Sums, HandsOver
<1>6. ASSUME NEW i \in 1..n, i - 1 \in S  PROVE i \in S
  <2>1. PICK g \in Good : g = Goods[i]
    BY GoodsAreSorted
  <2>2. Turn(r, cost, i)
    BY Turns
  <2>3. r[i - 1].left[g] = p[g] /\ q[g] = r[i].left[g]
    BY <2>1, OthersUntouched
  <2>. DEFINE w == Weight[g]
              k == p[g] - q[g]
  <2>4. r[i].consumed = r[i - 1].consumed + k * w
    BY <2>1, <2>2, <2>3 DEF Turn
  <2>5. s[i] = s[i - 1] + p[g] * w
    BY <1>3, <2>1 DEF Sums
  <2>6. t[i] = t[i - 1] + q[g] * w
    BY <1>4, <2>1 DEF Sums
  <2>7. p[g] \in Nat /\ q[g] \in Nat /\ w \in Nat
    BY <1>2, GoodsAreSorted
  <2>8. k * w = p[g] * w - q[g] * w
    BY <2>7
  <2>9. s[i - 1] \in Int /\ t[i - 1] \in Int /\ r[i - 1].consumed \in Nat
        /\ p[g] * w \in Nat /\ q[g] * w \in Nat /\ i \in 0..n
    <3>1. i - 1 \in 0..n /\ i \in 0..n
      BY <1>1
    <3>2. s[i - 1] \in Int /\ t[i - 1] \in Int
      BY <1>3, <1>4, <3>1 DEF Sums
    <3>3. p[g] * w \in Nat /\ q[g] * w \in Nat
      <4>. HIDE DEF w, q
      <4>. QED
        BY <2>7
    <3>. QED
      BY <1>2, <3>1, <3>2, <3>3
  <2>10. t[i - 1] + r[i - 1].consumed = s[i - 1]
    BY <1>6
  <2>. HIDE DEF k, w, q
  <2>. QED
    BY <2>4, <2>5, <2>6, <2>8, <2>9, <2>10
<1>7. \A i \in 0..n : i \in S
  <2>1. \A i \in 1..n : i - 1 \in S => i \in S
    BY <1>6
  <2>. HIDE DEF S, n
  <2>. QED
    BY <1>1, <1>5, <2>1, Induction
<1>. QED
  BY <1>1, <1>3, <1>4, <1>7

\* Less than the cost is handed over only by one who has nothing left.
LEMMA ShortMeansEmpty ==
    ASSUME NEW p \in [Good -> Nat], NEW cost \in Int, NEW r, HandsOver(r, p, cost),
           r[Len(Goods)].consumed < cost
    PROVE  r[Len(Goods)].consumed = Value(p)
<1>. DEFINE n == Len(Goods)
            q == r[n].left
            S == {i \in 0..n : r[i].consumed < cost =>
                                 \A j \in 1..i : r[j].left[Goods[j]] = 0}
<1>1. n \in Nat
  BY GoodsAreSorted
<1>2. \A i \in 0..n : r[i] \in Handed /\ r[i].consumed \in Nat /\ r[i].left \in [Good -> Nat]
  BY <1>1 DEF HandsOver, Handed
<1>3. 0 \in S
  BY <1>1
<1>4. ASSUME NEW i \in 1..n, i - 1 \in S  PROVE i \in S
  <2>. SUFFICES ASSUME r[i].consumed < cost
                PROVE  \A j \in 1..i : r[j].left[Goods[j]] = 0
    BY <1>1
  <2>1. PICK g \in Good : g = Goods[i]
    BY GoodsAreSorted
  <2>. DEFINE k == r[i - 1].left[g] - r[i].left[g]
  <2>2. k \in Nat /\ r[i].consumed = r[i - 1].consumed + k * Weight[g]
        /\ (r[i].consumed < cost => r[i].left[g] = 0)
    BY <2>1, Turns DEF Turn
  <2>3. k * Weight[g] \in Nat
    <3>1. Weight[g] \in Nat
      BY GoodsAreSorted
    <3>. HIDE DEF k
    <3>. QED
      BY <2>2, <3>1
  <2>4. r[i - 1].consumed \in Nat /\ r[i].consumed \in Nat
    BY <1>1, <1>2
  <2>5. r[i - 1].consumed < cost
    <3>. HIDE DEF k
    <3>. QED
      BY <2>2, <2>3, <2>4
  <2>6. \A j \in 1..i - 1 : r[j].left[Goods[j]] = 0
    BY <1>4, <2>5
  <2>. QED
    BY <1>1, <2>1, <2>2, <2>6
<1>5. \A i \in 0..n : i \in S
  <2>1. \A i \in 1..n : i - 1 \in S => i \in S
    BY <1>4
  <2>. HIDE DEF S, n
  <2>. QED
    BY <1>1, <1>3, <2>1, Induction
<1>6. \A j \in 1..n : q[Goods[j]] = 0
  <2>1. \A j \in 1..n : r[j].left[Goods[j]] = 0
    BY <1>1, <1>5
  <2>. QED
    BY <2>1, OthersUntouched
<1>7. q \in [Good -> Nat]
  BY <1>1, <1>2
<1>8. Value(q) = 0
  <2>. HIDE DEF q
  <2>1. PICK t : Sums(t, q) /\ Value(q) = t[n]
    BY <1>7, ValueRuns
  <2>. DEFINE Z == {i \in 0..n : t[i] = 0}
  <2>2. 0 \in Z
    BY <1>1, <2>1 DEF Sums
  <2>3. ASSUME NEW i \in 1..n, i - 1 \in Z  PROVE i \in Z
    <3>1. t[i] = t[i - 1] + q[Goods[i]] * Weight[Goods[i]]
      BY <2>1 DEF Sums
    <3>2. Goods[i] \in Good
      BY GoodsAreSorted
    <3>3. Weight[Goods[i]] \in Nat
      BY <3>2, GoodsAreSorted
    <3>4. q[Goods[i]] * Weight[Goods[i]] = 0
      BY <1>6, <3>3
    <3>. QED
      BY <1>1, <2>3, <3>1, <3>4
  <2>4. \A i \in 0..n : i \in Z
    <3>1. \A i \in 1..n : i - 1 \in Z => i \in Z
      BY <2>3
    <3>. HIDE DEF Z, n
    <3>. QED
      BY <1>1, <2>2, <3>1, Induction
  <2>. QED
    BY <1>1, <2>1, <2>4
<1>9. r[n].consumed \in Nat /\ Value(p) \in Nat
  BY <1>1, <1>2, ValueIsNat
<1>10. Value(q) + r[n].consumed = Value(p)
  BY NothingIsLost
<1>. QED
  BY <1>8, <1>9, <1>10

\* Without the last good handed over the cost would not be covered.
LEMMA LastIsNeeded ==
    ASSUME NEW p \in [Good -> Nat], NEW cost \in Int, NEW r, HandsOver(r, p, cost),
           NEW g \in Good, r[Len(Goods)].left[g] < p[g],
           \A h \in Good : r[Len(Goods)].left[h] < p[h] => Weight[h] <= Weight[g]
    PROVE  r[Len(Goods)].consumed - Weight[g] < cost
<1>. DEFINE n == Len(Goods)
            q == r[n].left
            K(i) == r[i - 1].left[Goods[i]] - r[i].left[Goods[i]]
            Needed(m, i) == K(m) > 0 /\ r[i].consumed - Weight[Goods[m]] < cost
            S == {i \in 0..n : (\E m \in 1..i : K(m) > 0) => \E m \in 1..i : Needed(m, i)}
<1>1. n \in Nat
  BY GoodsAreSorted
<1>2. \A i \in 0..n : r[i] \in Handed /\ r[i].consumed \in Nat /\ r[i].left \in [Good -> Nat]
  BY <1>1 DEF HandsOver, Handed
<1>3. ASSUME NEW i \in 1..n
      PROVE  /\ K(i) \in Nat /\ Weight[Goods[i]] \in Nat
             /\ r[i].consumed = r[i - 1].consumed + K(i) * Weight[Goods[i]]
             /\ K(i) > 0 => r[i].consumed - Weight[Goods[i]] < cost
             /\ K(i) = p[Goods[i]] - q[Goods[i]]
  <2>1. Turn(r, cost, i)
    BY Turns
  <2>2. Goods[i] \in Good
    BY GoodsAreSorted
  <2>3. Weight[Goods[i]] \in Nat
    BY <2>2, GoodsAreSorted
  <2>4. K(i) = p[Goods[i]] - q[Goods[i]]
    BY OthersUntouched
  <2>. QED
    BY <2>1, <2>3, <2>4 DEF Turn
<1>4. 0 \in S
  BY <1>1
<1>5. ASSUME NEW i \in 1..n, i - 1 \in S  PROVE i \in S
  <2>. SUFFICES ASSUME NEW l \in 1..i, K(l) > 0
                PROVE  \E m \in 1..i : Needed(m, i)
    BY <1>1
  <2>1. CASE K(i) > 0
    <3>1. Needed(i, i)
      BY <1>3, <2>1
    <3>. HIDE DEF Needed
    <3>. QED
      BY <3>1
  <2>2. CASE ~(K(i) > 0)
    <3>1. K(i) = 0
      BY <1>3, <2>2
    <3>2. l \in 1..i - 1
      BY <1>1, <2>2
    <3>3. r[i].consumed = r[i - 1].consumed
      <4>1. K(i) * Weight[Goods[i]] = 0
        BY <1>3, <3>1
      <4>2. r[i - 1].consumed \in Nat
        BY <1>1, <1>2
      <4>. HIDE DEF K
      <4>. QED
        BY <1>3, <4>1, <4>2
    <3>4. PICK m \in 1..i - 1 : Needed(m, i - 1)
      <4>. HIDE DEF Needed
      <4>. QED
        BY <1>5, <3>2
    <3>5. Needed(m, i)
      BY <3>3, <3>4
    <3>. HIDE DEF Needed
    <3>. QED
      BY <1>1, <3>5
  <2>. QED
    BY <2>1, <2>2
<1>6. \A i \in 0..n : i \in S
  <2>1. \A i \in 1..n : i - 1 \in S => i \in S
    BY <1>5
  <2>. HIDE DEF S, n
  <2>. QED
    BY <1>1, <1>4, <2>1, Induction
<1>7. PICK j \in 1..n : Goods[j] = g
  BY GoodsAreSorted
<1>8. p[g] \in Nat /\ q[g] \in Nat
  BY <1>1, <1>2
<1>9. K(j) > 0
  <2>. HIDE DEF K
  <2>1. K(j) = p[g] - q[g]
    BY <1>3, <1>7
  <2>. QED
    BY <1>8, <2>1
<1>10. PICK m \in 1..n : Needed(m, n)
  <2>. HIDE DEF Needed, K
  <2>. QED
    BY <1>1, <1>6, <1>9
<1>11. PICK h \in Good : h = Goods[m]
  BY GoodsAreSorted
<1>12. q[h] < p[h]
  <2>1. p[h] \in Nat /\ q[h] \in Nat
    BY <1>1, <1>2
  <2>2. K(m) = p[h] - q[h] /\ K(m) > 0
    BY <1>3, <1>10, <1>11
  <2>. QED
    BY <2>1, <2>2
<1>13. Weight[h] <= Weight[g]
  BY <1>12
<1>14. Weight[h] \in Nat /\ Weight[g] \in Nat /\ r[n].consumed \in Nat
  BY <1>1, <1>2, GoodsAreSorted
<1>15. r[n].consumed - Weight[h] < cost
  BY <1>10, <1>11
<1>. QED
  BY <1>13, <1>14, <1>15

LEMMA ConsumeTyped ==
    ASSUME NEW p \in [Good -> Nat], NEW cost \in Int
    PROVE  Consume(p, cost).left \in [Good -> Nat] /\ Consume(p, cost).consumed \in Nat
<1>1. PICK r : HandsOver(r, p, cost) /\ Consume(p, cost) = r[Len(Goods)]
  BY ConsumeRuns
<1>2. Len(Goods) \in 0..Len(Goods)
  BY GoodsAreSorted
<1>. QED
  BY <1>1, <1>2 DEF HandsOver, Handed

LEMMA ConsumeTight ==
    ASSUME NEW p \in [Good -> Nat], NEW cost \in Int
    PROVE  LET r == Consume(p, cost)
               taken == {g \in Good : r.left[g] < p[g]}
           IN  /\ r.consumed >= Lesser(cost, Value(p))
               /\ Value(r.left) + r.consumed = Value(p)
               /\ \A g \in taken :
                    (\A h \in taken : Weight[h] <= Weight[g]) => r.consumed - Weight[g] < cost
<1>1. PICK r : HandsOver(r, p, cost) /\ Consume(p, cost) = r[Len(Goods)]
  BY ConsumeRuns
<1>. DEFINE c == Consume(p, cost)
<1>2. c.consumed \in Nat /\ Value(p) \in Nat
  BY ConsumeTyped, ValueIsNat
<1>3. c.consumed >= Lesser(cost, Value(p))
  <2>1. c.consumed < cost => c.consumed = Value(p)
    BY <1>1, ShortMeansEmpty
  <2>. HIDE DEF c
  <2>. QED
    BY <1>2, <2>1 DEF Lesser
<1>4. Value(c.left) + c.consumed = Value(p)
  BY <1>1, NothingIsLost
<1>5. ASSUME NEW g \in Good, c.left[g] < p[g],
             \A h \in Good : c.left[h] < p[h] => Weight[h] <= Weight[g]
      PROVE  c.consumed - Weight[g] < cost
  BY <1>1, <1>5, LastIsNeeded
<1>. QED
  BY <1>3, <1>4, <1>5

-----------------------------------------------------------------------------
(* What the actions write. *)

LEMMA RowBecomes ==
    ASSUME TypeOK, NEW n \in Node, NEW o \in Obligation, NEW st, NEW w,
           table' = Written(n, o, st, w)
    PROVE  /\ table'[n][o] = [status |-> st, weight |-> w]
           /\ \A m \in Node : \A x \in Obligation : m # n \/ x # o => table'[m][x] = table[m][x]
<1>. PICK r : r = [status |-> st, weight |-> w]
  OBVIOUS
<1>0. r.status = st /\ r.weight = w
  OBVIOUS
<1>1. /\ table = [m \in Node |-> table[m]]
      /\ table[n] = [x \in Obligation |->
                 [status |-> table[n][x].status, weight |-> table[n][x].weight]]
  BY DEF TypeOK, RowsOK
<1>2. table' = [table EXCEPT ![n] = [table[n] EXCEPT ![o] = r]]
  BY DEF Written
<1>3. table'[n] = [table[n] EXCEPT ![o] = r] /\ \A m \in Node \ {n} : table'[m] = table[m]
  BY <1>1, <1>2
<1>4. table'[n][o] = r /\ \A x \in Obligation \ {o} : table'[n][x] = table[n][x]
  BY <1>1, <1>3
<1>. QED
  BY <1>0, <1>3, <1>4

LEMMA RowIs ==
    ASSUME TypeOK, NEW n \in Node, NEW o \in Obligation, NEW st, NEW w,
           table' = Written(n, o, st, w)
    PROVE  table'[n][o].status = st /\ table'[n][o].weight = w
<1>1. table'[n][o] = [status |-> st, weight |-> w]
  BY RowBecomes
<1>. QED
  BY <1>1

LEMMA OtherRows ==
    ASSUME TypeOK, NEW n \in Node, NEW o \in Obligation, NEW st, NEW w,
           table' = Written(n, o, st, w)
    PROVE  \A m \in Node : \A x \in Obligation : m # n \/ x # o => table'[m][x] = table[m][x]
  BY RowBecomes

LEMMA WorkBecomes ==
    ASSUME TypeOK, NEW s \in Session, NEW td, NEW am, NEW em, work' = Set(s, td, am, em)
    PROVE  /\ work'[s].todo = td /\ work'[s].amount = am /\ work'[s].emit = em
           /\ \A t \in Session \ {s} : work'[t] = work[t]
<1>. PICK r : r = [todo |-> td, amount |-> am, emit |-> em]
  OBVIOUS
<1>1. r.todo = td /\ r.amount = am /\ r.emit = em
  OBVIOUS
<1>2. work = [t \in Session |->
                  [todo |-> work[t].todo, amount |-> work[t].amount, emit |-> work[t].emit]]
  BY DEF TypeOK, WorkOK
<1>3. work' = [work EXCEPT ![s] = r]
  BY DEF Set
<1>4. work'[s] = r /\ \A t \in Session \ {s} : work'[t] = work[t]
  BY <1>2, <1>3
<1>. QED
  BY <1>1, <1>4

LEMMA EventOf ==
    ASSUME NEW type, NEW o, NEW w, NEW em, em = <<Event(type, o, w)>>
    PROVE  em # << >> /\ em[1] = Event(type, o, w)
           /\ em[1].type = type /\ em[1].ob = o /\ em[1].weight = w
<1>1. PICK e : e = Event(type, o, w)
  OBVIOUS
<1>2. e.type = type /\ e.ob = o /\ e.weight = w
  BY <1>1 DEF Event
<1>3. <<e>>[1] = e /\ <<e>> # << >>
  OBVIOUS
<1>. QED
  BY <1>1, <1>2, <1>3

LEMMA FreeIs == Free.todo = {} /\ Free.amount = 0 /\ Free.emit = << >>
  BY DEF Free

\* A purchase: either the goods cover it, or it leaves a debt of w.
Opens(s, o, w) ==
    /\ o \in Obligation /\ Opened(here, o) /\ born' = Append(born, o)
    /\ oseq' = [oseq EXCEPT ![here] = o[2]]
    /\ table' = Written(here, o, "open", w)
    /\ owed' = [owed EXCEPT ![o] = w]
    /\ work' = Set(s, {}, 0, <<Event("debt.created", o, w)>>)
    /\ astray' = astray \cup Overlaps(s)

LEMMA BuyShape ==
    ASSUME TypeOK, NEW s \in Session, NEW price \in Prices, Buy(s, price)
    PROVE  /\ work[s] = Free /\ purse' = Consume(purse, price).left
           /\ UNCHANGED <<here, log, feedVars, found, moves, faults>>
           /\ \/ UNCHANGED <<table, oseq, born, work, owed, astray>>
              \/ /\ ~(Consume(purse, price).consumed >= price)
                 /\ \E o : Opens(s, o, price - Consume(purse, price).consumed)
<1>1. work[s] = Free /\ purse' = Consume(purse, price).left
      /\ UNCHANGED <<here, log, feedVars, found, moves, faults>>
  BY Zenon DEF Buy
<1>. DEFINE w == price - Consume(purse, price).consumed
<1>2. CASE UNCHANGED <<table, oseq, born, work, owed, astray>>
  BY <1>1, <1>2
<1>3. CASE /\ ~(Consume(purse, price).consumed >= price)
           /\ \E o \in Obligation :
              /\ Opened(here, o) /\ oseq' = [oseq EXCEPT ![here] = o[2]] /\ born' = Append(born, o)
              /\ table' = [table EXCEPT ![here][o] = [status |-> "open", weight |-> w]]
              /\ owed' = [owed EXCEPT ![o] = w]
              /\ work' = [work EXCEPT ![s].emit = <<Event("debt.created", o, w)>>]
              /\ astray' = astray \cup Overlaps(s)
  <2>. HIDE DEF w
  <2>1. PICK o \in Obligation :
              /\ Opened(here, o) /\ oseq' = [oseq EXCEPT ![here] = o[2]] /\ born' = Append(born, o)
              /\ table' = [table EXCEPT ![here][o] = [status |-> "open", weight |-> w]]
              /\ owed' = [owed EXCEPT ![o] = w]
              /\ work' = [work EXCEPT ![s].emit = <<Event("debt.created", o, w)>>]
              /\ astray' = astray \cup Overlaps(s)
    BY <1>3
  <2>2. table' = Written(here, o, "open", w)
    BY <2>1 DEF Written
  <2>3. PICK em : em = <<Event("debt.created", o, w)>>
    OBVIOUS
  <2>4. [Free EXCEPT !.emit = em] = [todo |-> {}, amount |-> 0, emit |-> em]
    <3>1. PICK td, am, none : Free = [todo |-> td, amount |-> am, emit |-> none] /\ td = {} /\ am = 0
      BY DEF Free
    <3>2. [Free EXCEPT !.emit = em] = [todo |-> td, amount |-> am, emit |-> em]
      BY <3>1
    <3>. QED
      BY <3>1, <3>2
  <2>5. work' = Set(s, {}, 0, em)
    BY <1>1, <2>1, <2>3, <2>4 DEF Set
  <2>6. Opens(s, o, w)
    BY <2>1, <2>2, <2>3, <2>5 DEF Opens
  <2>. QED
    BY <1>1, <1>3, <2>6 DEF w
<1>. QED
  BY <1>2, <1>3, Zenon DEF Buy

\* A payment of x on row d, for o; the session's event carries w.
Pays(s, d, o, x, a, st, v, type, w) ==
    /\ work[s].emit = << >> /\ work[s].amount > 0
    /\ d \in work[s].todo /\ o \in Obligation /\ o = d.ob
    /\ table' = Written(here, o, st, v)
    /\ owed' = [owed EXCEPT ![o] = @ - x]
    /\ work' = Set(s, work[s].todo \ {d}, a, <<Event(type, o, w)>>)
    /\ \/ /\ type = "debt.resolved" /\ st = "resolved" /\ v = table[here][o].weight
          /\ work[s].amount >= d.weight /\ x = d.weight /\ w = 0
          /\ a = work[s].amount - d.weight
       \/ /\ type = "debt.adjusted" /\ st = table[here][o].status /\ v = table[here][o].weight - x
          /\ work[s].amount < d.weight /\ x = work[s].amount /\ w = d.weight - x
          /\ a = 0

LEMMA PaymentShape ==
    ASSUME IdInv, NEW s \in Session, PayResolves(s) \/ PayAdjusts(s)
    PROVE  /\ UNCHANGED <<here, purse, oseq, log, feedVars, born, astray, found, moves, faults>>
           /\ \E d, o, x, a, st, v, type, w : Pays(s, d, o, x, a, st, v, type, w)
<1>1. UNCHANGED <<here, purse, oseq, log, feedVars, born, astray, found, moves, faults>>
  BY DEF PayResolves, PayAdjusts
<1>2. PICK n \in Node : n = here
  BY DEF IdInv, TypeOK
<1>3. ASSUME NEW o \in Obligation
      PROVE  \E st \in {"none", "open", "resolved"} : \E w : table[n][o] = [status |-> st, weight |-> w]
  <2>1. /\ table[n][o].status \in {"none", "open", "resolved"}
        /\ table[n] = [x \in Obligation |-> [status |-> table[n][x].status, weight |-> table[n][x].weight]]
    BY DEF IdInv, TypeOK, RowsOK
  <2>2. table[n][o] = [status |-> table[n][o].status, weight |-> table[n][o].weight]
    BY <2>1
  <2>. QED
    BY <2>1, <2>2
<1>4. CASE PayResolves(s)
  <2>1. PICK d \in work[s].todo :
        /\ work[s].emit = << >> /\ work[s].amount > 0 /\ work[s].amount >= d.weight
        /\ work' = Set(s, work[s].todo \ {d}, work[s].amount - d.weight,
                       <<Event("debt.resolved", d.ob, 0)>>)
        /\ table' = [table EXCEPT ![here][d.ob].status = "resolved"]
        /\ owed' = [owed EXCEPT ![d.ob] = @ - d.weight]
    BY <1>4, Zenon DEF PayResolves, Set, PayingNext
  <2>2. PICK o \in Obligation : o = d.ob
    BY DEF IdInv, EventsHaveRows
  <2>3. PICK st \in {"none", "open", "resolved"} : \E w : table[n][o] = [status |-> st, weight |-> w]
    BY <1>3
  <2>3a. PICK w : table[n][o] = [status |-> st, weight |-> w]
    BY <2>3
  <2>4. [table[n][o] EXCEPT !.status = "resolved"] = [status |-> "resolved", weight |-> w]
        /\ table[n][o].weight = w
    BY <2>3a
  <2>5. table' = Written(n, o, "resolved", w)
    BY <1>2, <2>1, <2>2, <2>4 DEF Written
  <2>6. Pays(s, d, o, d.weight, work[s].amount - d.weight, "resolved", w, "debt.resolved", 0)
    BY <1>2, <2>1, <2>2, <2>4, <2>5 DEF Pays
  <2>. QED
    BY <1>1, <2>6
<1>5. CASE PayAdjusts(s)
  <2>1. PICK d \in work[s].todo :
        /\ work[s].emit = << >> /\ work[s].amount > 0 /\ work[s].amount < d.weight
        /\ work' = Set(s, work[s].todo \ {d}, 0,
                       <<Event("debt.adjusted", d.ob, d.weight - work[s].amount)>>)
        /\ table' = [table EXCEPT ![here][d.ob].weight = @ - work[s].amount]
        /\ owed' = [owed EXCEPT ![d.ob] = @ - work[s].amount]
    BY <1>5, Zenon DEF PayAdjusts, Set, PayingNext
  <2>2. PICK o \in Obligation : o = d.ob
    BY DEF IdInv, EventsHaveRows
  <2>3. PICK v : v = table[n][o].weight - work[s].amount
    OBVIOUS
  <2>4. PICK st \in {"none", "open", "resolved"} : \E w : table[n][o] = [status |-> st, weight |-> w]
    BY <1>3
  <2>4a. PICK w : table[n][o] = [status |-> st, weight |-> w]
    BY <2>4
  <2>5. [table[n][o] EXCEPT !.weight = v] = [status |-> st, weight |-> v] /\ table[n][o].status = st
    BY <2>4a
  <2>6. table' = Written(n, o, st, v)
    BY <1>2, <2>1, <2>2, <2>3, <2>5 DEF Written
  <2>7. Pays(s, d, o, work[s].amount, 0, st, v, "debt.adjusted", d.weight - work[s].amount)
    BY <1>2, <2>1, <2>2, <2>3, <2>5, <2>6 DEF Pays
  <2>. QED
    BY <1>1, <2>7
<1>. QED
  BY <1>4, <1>5

\* The handler on entry k, about o, makes [su, v] of the row [st, w].
Handles(n, k, o, st, w, su, v) ==
    /\ k = cur[n] + 1 /\ o = feed[k].ev.ob /\ feed[k].src # n /\ ~ran[n]
    /\ ran' = [ran EXCEPT ![n] = TRUE]
    /\ table[n][o].status = st /\ table[n][o].weight = w
    /\ table' = Written(n, o, su, v)
    /\ \/ feed[k].ev.type = "debt.created" /\ st = "none" /\ su = "open" /\ v = feed[k].ev.weight
       \/ feed[k].ev.type = "debt.resolved" /\ st = "open" /\ su = "resolved" /\ v = w
       \/ feed[k].ev.type = "debt.adjusted" /\ st = "open" /\ su = "open" /\ v = feed[k].ev.weight
       \/ /\ su = st /\ v = w
          /\ ~(feed[k].ev.type = "debt.created" /\ st = "none")
          /\ ~(feed[k].ev.type \in {"debt.resolved", "debt.adjusted"} /\ st = "open")

LEMMA HandlerShape ==
    ASSUME DebtInv, Shape, NEW n \in Node, HandlerRuns(n)
    PROVE  /\ UNCHANGED <<sessionVars, oseq, log, sent, feed, cur, astray, faults>>
           /\ \E k \in 1..Len(feed) : \E o \in Obligation :
                \E st, w, su, v : Handles(n, k, o, st, w, su, v)
<1>1. UNCHANGED <<sessionVars, oseq, log, sent, feed, cur, astray, faults>>
      /\ ~ran[n] /\ ran' = [ran EXCEPT ![n] = TRUE] /\ cur[n] < Len(feed)
  BY DEF HandlerRuns
<1>2. cur[n] \in Nat /\ Len(feed) \in Nat
  BY LengthsAreNat, HandledIsInFeed DEF DebtInv
<1>3. PICK k \in 1..Len(feed) : k = cur[n] + 1
  BY <1>1, <1>2
<1>4. PICK ev : ev = feed[k].ev
  OBVIOUS
<1>5. PICK o \in Obligation : o = ev.ob
  BY <1>4, FeedBacked DEF DebtInv
<1>6. feed[k].src # n /\ table' = [table EXCEPT ![n][o] = Handled(table[n][o], ev)]
  BY <1>3, <1>4, <1>5, Zenon DEF HandlerRuns
<1>7. PICK st, w : table[n][o] = [status |-> st, weight |-> w]
  <2>1. table[n] = [x \in Obligation |-> [status |-> table[n][x].status, weight |-> table[n][x].weight]]
    BY DEF DebtInv, IdInv, TypeOK, RowsOK
  <2>2. table[n][o] = [status |-> table[n][o].status, weight |-> table[n][o].weight]
    BY <2>1
  <2>. QED
    BY <2>2
<1>. PICK d : d = [status |-> st, weight |-> w]
  OBVIOUS
<1>8. /\ d.status = st /\ d.weight = w
      /\ [d EXCEPT !.status = "resolved"] = [status |-> "resolved", weight |-> w]
      /\ [d EXCEPT !.weight = ev.weight] = [status |-> st, weight |-> ev.weight]
  OBVIOUS
<1>9. ASSUME NEW su, NEW v, Handled(d, ev) = [status |-> su, weight |-> v],
             \/ ev.type = "debt.created" /\ st = "none" /\ su = "open" /\ v = ev.weight
             \/ ev.type = "debt.resolved" /\ st = "open" /\ su = "resolved" /\ v = w
             \/ ev.type = "debt.adjusted" /\ st = "open" /\ su = "open" /\ v = ev.weight
             \/ /\ su = st /\ v = w
                /\ ~(ev.type = "debt.created" /\ st = "none")
                /\ ~(ev.type \in {"debt.resolved", "debt.adjusted"} /\ st = "open")
      PROVE  \E stt, ww, suu, vv : Handles(n, k, o, stt, ww, suu, vv)
  <2>1. table' = Written(n, o, su, v)
    BY <1>6, <1>7, <1>9 DEF Written
  <2>2. Handles(n, k, o, st, w, su, v)
    BY <1>1, <1>3, <1>4, <1>5, <1>6, <1>7, <1>8, <1>9, <2>1 DEF Handles
  <2>. QED
    BY <2>2
<1>10. \E stt, ww, suu, vv : Handles(n, k, o, stt, ww, suu, vv)
  <2>1. CASE ev.type = "debt.created" /\ st = "none"
    <3>1. Handled(d, ev) = [status |-> "open", weight |-> ev.weight]
      BY <1>8, <2>1 DEF Handled
    <3>. QED
      BY <1>9, <2>1, <3>1
  <2>2. CASE ev.type = "debt.resolved" /\ st = "open"
    <3>1. Handled(d, ev) = [status |-> "resolved", weight |-> w]
      BY <1>8, <2>2 DEF Handled
    <3>. QED
      BY <1>9, <2>2, <3>1
  <2>3. CASE ev.type = "debt.adjusted" /\ st = "open"
    <3>1. Handled(d, ev) = [status |-> "open", weight |-> ev.weight]
      BY <1>8, <2>3 DEF Handled
    <3>. QED
      BY <1>9, <2>3, <3>1
  <2>4. CASE /\ ~(ev.type = "debt.created" /\ st = "none")
             /\ ~(ev.type \in {"debt.resolved", "debt.adjusted"} /\ st = "open")
    <3>1. Handled(d, ev) = [status |-> st, weight |-> w]
      BY <1>8, <2>4 DEF Handled
    <3>. QED
      BY <1>9, <2>4, <3>1
  <2>. QED
    BY <2>1, <2>2, <2>3, <2>4
<1>. QED
  BY <1>1, <1>10

-----------------------------------------------------------------------------
(* The amounts of purses, rows, sessions and events. *)

SessionAmounts(s) ==
    /\ work[s].amount \in Int /\ \A d \in work[s].todo : d.weight \in Int
    /\ work[s].emit # << >> => work[s].emit[1].weight \in Int

LogAmounts == \A n \in Node : \A i \in 1..Len(log[n]) : log[n][i].weight \in Int

TableAmounts == \A n \in Node : \A o \in Obligation : table[n][o].weight \in Int

LEMMA AmountsParts ==
    AmountsInv <=> /\ purse \in [Good -> Nat] /\ owed \in [Obligation -> Int] /\ TableAmounts
                   /\ (\A s \in Session : SessionAmounts(s)) /\ LogAmounts
  BY DEF AmountsInv, AmountsOK, SessionAmounts, LogAmounts, TableAmounts

LEMMA DebtLoadTyped ==
    ASSUME IdInv, AmountsInv, NEW n \in Node
    PROVE  DebtLoad(n) \in Int
<1>. DEFINE Open(o) == table[n][o].status = "open"
            f == [i \in 1..Len(born) |-> IF Open(born[i]) THEN table[n][born[i]].weight ELSE 0]
<1>1. born \in Seq(Obligation)
  BY DEF IdInv, TypeOK
<1>2. Len(born) \in Nat /\ \A i \in 1..Len(born) : born[i] \in Obligation
  BY <1>1
<1>3. f \in [1..Len(born) -> Int]
  BY <1>2, AmountsParts DEF TableAmounts
<1>4. DebtLoad(n) = SumTo(f, Len(born))
  BY DEF DebtLoad
<1>5. PICK s \in [0..Len(born) -> Int] : SumTo(f, Len(born)) = s[Len(born)]
  <2>. HIDE DEF f
  <2>. QED
    BY <1>2, <1>3, SumDefined
<1>. QED
  BY <1>2, <1>4, <1>5

\* The goods handed over are typed, and so is what is left to pay.
LEMMA AmountsBuy ==
    ASSUME IdInv, AmountsInv, NEW s \in Session, NEW price \in Prices, Buy(s, price)
    PROVE  AmountsInv'
<1>. DEFINE r == Consume(purse, price)
<1>1. price \in Int
  BY GoodsAssumption
<1>2. r.left \in [Good -> Nat] /\ r.consumed \in Nat
  BY <1>1, ConsumeTyped, AmountsParts
<1>. PICK w \in Int : w = price - r.consumed
  BY <1>1, <1>2
<1>. HIDE DEF r
<1>3. /\ purse' = r.left /\ log' = log
      /\ UNCHANGED <<table, work, owed>> \/ \E o : Opens(s, o, w)
  <2>1. TypeOK
    BY DEF IdInv
  <2>. QED
    BY <2>1, BuyShape DEF r
<1>4. purse' \in [Good -> Nat] /\ LogAmounts'
  BY <1>2, <1>3, AmountsParts DEF LogAmounts
<1>5. CASE UNCHANGED <<table, work, owed>>
  BY <1>4, <1>5, AmountsParts DEF TableAmounts, SessionAmounts, AmountsInv, AmountsOK, LogAmounts
<1>6. CASE \E o : Opens(s, o, w)
  <2>1. PICK o \in Obligation, n \in Node : n = here /\ table' = Written(n, o, "open", w)
          /\ owed' = [owed EXCEPT ![o] = w]
          /\ work' = Set(s, {}, 0, <<Event("debt.created", o, w)>>)
    BY <1>6 DEF Opens, IdInv, TypeOK
  <2>2. owed' \in [Obligation -> Int]
    BY <2>1, AmountsParts
  <2>3. TableAmounts'
    <3>0. TypeOK /\ table' = Written(n, o, "open", w)
      BY <2>1 DEF IdInv
    <3>1. /\ table'[n][o].weight = w
          /\ \A m \in Node : \A x \in Obligation : m # n \/ x # o => table'[m][x] = table[m][x]
      BY <3>0, RowIs, OtherRows
    <3>. QED
      BY <3>1, AmountsParts DEF TableAmounts
  <2>4. \A t \in Session : SessionAmounts(t)'
    <3>1. /\ work'[s].todo = {} /\ work'[s].amount = 0
          /\ work'[s].emit = <<Event("debt.created", o, w)>>
          /\ \A t \in Session \ {s} : work'[t] = work[t]
      BY <2>1, WorkBecomes DEF IdInv
    <3>2. work'[s].emit[1].weight = w
      <4>1. PICK em : em = <<Event("debt.created", o, w)>>
        OBVIOUS
      <4>2. em[1].weight = w
        BY <4>1, EventOf
      <4>. QED
        BY <3>1, <4>1, <4>2
    <3>3. SessionAmounts(s)'
      BY <3>1, <3>2 DEF SessionAmounts
    <3>. QED
      BY <3>1, <3>3, AmountsParts DEF SessionAmounts
  <2>. QED
    BY <1>4, <2>2, <2>3, <2>4, AmountsParts DEF AmountsInv, AmountsOK, TableAmounts, LogAmounts, SessionAmounts
<1>. QED
  BY <1>3, <1>5, <1>6

LEMMA AmountsQuiet ==
    ASSUME AmountsInv, UNCHANGED <<table, owed, log>>, purse' \in [Good -> Nat],
           \A s \in Session : work'[s] = work[s] \/ work'[s] = Free
    PROVE  AmountsInv'
<1>1. \A s \in Session : SessionAmounts(s)'
  BY FreeIs, AmountsParts DEF SessionAmounts
<1>. QED
  BY <1>1, AmountsParts DEF AmountsInv, AmountsOK, TableAmounts, LogAmounts, SessionAmounts

LEMMA AmountsBuyFails ==
    ASSUME AmountsInv, NEW s \in Session, NEW price \in Prices, BuyFails(s, price)
    PROVE  AmountsInv'
<1>1. price \in Int
  BY GoodsAssumption
<1>2. Consume(purse, price).left \in [Good -> Nat]
  BY <1>1, ConsumeTyped, AmountsParts
<1>3. UNCHANGED <<table, owed, log, work>> /\ purse' = Consume(purse, price).left
  BY DEF BuyFails
<1>4. purse' \in [Good -> Nat]
  BY <1>2, <1>3
<1>. QED
  BY <1>3, <1>4, AmountsQuiet

LEMMA AmountsPayDebt ==
    ASSUME IdInv, AmountsInv, NEW s \in Session, PayDebt(s)
    PROVE  AmountsInv'
<1>. DEFINE target == Lesser(DebtLoad(here), Value(purse))
            r == Consume(purse, target)
<1>1. /\ purse' = r.left /\ UNCHANGED <<table, log, owed>>
      /\ work' = Set(s, OpenDebts(here), r.consumed, << >>)
  BY DEF PayDebt, Set
<1>2. TypeOK /\ here \in Node
  BY DEF IdInv, TypeOK
<1>3. target \in Int
  <2>1. DebtLoad(here) \in Int /\ Value(purse) \in Int
    BY <1>2, DebtLoadTyped, ValueIsNat, AmountsParts
  <2>. QED
    BY <2>1 DEF Lesser
<1>4. r.left \in [Good -> Nat] /\ r.consumed \in Nat
  <2>. HIDE DEF target
  <2>. QED
    BY <1>3, ConsumeTyped, AmountsParts
<1>. HIDE DEF r
<1>5. \A d \in OpenDebts(here) : d.weight \in Int
  BY <1>2, AmountsParts DEF OpenDebts, TableAmounts
<1>6. \A t \in Session : SessionAmounts(t)'
  <2>1. /\ work'[s].todo = OpenDebts(here) /\ work'[s].amount = r.consumed /\ work'[s].emit = << >>
        /\ \A t \in Session \ {s} : work'[t] = work[t]
    BY <1>1, <1>2, WorkBecomes
  <2>2. SessionAmounts(s)'
    BY <1>4, <1>5, <2>1 DEF SessionAmounts
  <2>. QED
    BY <2>1, <2>2, AmountsParts DEF SessionAmounts
<1>. QED
  BY <1>1, <1>4, <1>6, AmountsParts DEF AmountsInv, AmountsOK, TableAmounts, LogAmounts, SessionAmounts

LEMMA AmountsPayment ==
    ASSUME IdInv, AmountsInv, NEW s \in Session, PayResolves(s) \/ PayAdjusts(s)
    PROVE  AmountsInv'
<1>1. PICK d, o, x, a, st, v, type, w : Pays(s, d, o, x, a, st, v, type, w)
  BY PaymentShape, Zenon
<1>2. UNCHANGED <<here, purse, log>>
  BY PaymentShape
<1>3. PICK n \in Node : n = here
  BY DEF IdInv, TypeOK
<1>4. /\ d \in work[s].todo /\ o \in Obligation
      /\ table' = Written(n, o, st, v) /\ owed' = [owed EXCEPT ![o] = @ - x]
      /\ work' = Set(s, work[s].todo \ {d}, a, <<Event(type, o, w)>>)
  BY <1>1, <1>3, Zenon DEF Pays
<1>5. d.weight \in Int /\ work[s].amount \in Int /\ table[n][o].weight \in Int
  BY <1>4, AmountsParts DEF SessionAmounts, TableAmounts
<1>6. x \in Int /\ a \in Int /\ v \in Int /\ w \in Int
  BY <1>1, <1>3, <1>5 DEF Pays
<1>7. owed' \in [Obligation -> Int]
  <2>1. owed \in [Obligation -> Int]
    BY AmountsParts
  <2>2. owed[o] - x \in Int
    BY <1>4, <1>6, <2>1
  <2>. QED
    BY <1>4, <2>1, <2>2
<1>8. TableAmounts'
  <2>0. TypeOK /\ table' = Written(n, o, st, v)
    BY <1>3, <1>4 DEF IdInv
  <2>1. /\ table'[n][o].weight = v
        /\ \A m \in Node : \A y \in Obligation : m # n \/ y # o => table'[m][y] = table[m][y]
    BY <1>4, <2>0, RowIs, OtherRows
  <2>. QED
    BY <1>6, <2>1, AmountsParts DEF TableAmounts
<1>9. \A t \in Session : SessionAmounts(t)'
  <2>1. /\ work'[s].todo = work[s].todo \ {d} /\ work'[s].amount = a
        /\ work'[s].emit = <<Event(type, o, w)>>
        /\ \A t \in Session \ {s} : work'[t] = work[t]
    BY <1>4, WorkBecomes DEF IdInv
  <2>2. work'[s].emit[1].weight = w
    <3>1. PICK em : em = <<Event(type, o, w)>>
      OBVIOUS
    <3>2. em[1].weight = w
      BY <3>1, EventOf
    <3>. QED
      BY <2>1, <3>1, <3>2
  <2>3. SessionAmounts(s)'
    BY <1>6, <2>1, <2>2, AmountsParts DEF SessionAmounts
  <2>. QED
    BY <2>1, <2>3, AmountsParts DEF SessionAmounts
<1>. QED
  BY <1>2, <1>7, <1>8, <1>9, AmountsParts DEF AmountsInv, AmountsOK, TableAmounts, LogAmounts, SessionAmounts

LEMMA EmitShape ==
    ASSUME IdInv, Shape, NEW s \in Session, EmitEvent(s)
    PROVE  /\ UNCHANGED <<here, purse, table, oseq, feedVars, born, owed, astray, found, moves, faults>>
           /\ work[s].emit # << >>
           /\ \E n \in Node : n = here /\ log' = [log EXCEPT ![n] = Append(log[n], work[s].emit[1])]
           /\ work' = Set(s, work[s].todo, work[s].amount, << >>)
<1>1. UNCHANGED <<here, purse, table, oseq, feedVars, born, owed, astray, found, moves, faults>>
      /\ work[s].emit # << >>
  BY DEF EmitEvent
<1>2. PICK n \in Node : n = here
  BY DEF IdInv, TypeOK
<1>3. log' = [log EXCEPT ![n] = Append(log[n], work[s].emit[1])]
  BY <1>2 DEF EmitEvent
<1>4. work' = Set(s, work[s].todo, work[s].amount, << >>)
  <2>1. work = [t \in Session |->
              [todo |-> work[t].todo, amount |-> work[t].amount, emit |-> work[t].emit]]
    BY DEF IdInv, TypeOK, WorkOK
  <2>2. PICK td, am, em : work[s] = [todo |-> td, amount |-> am, emit |-> em]
    BY <2>1
  <2>3. [work[s] EXCEPT !.emit = << >>] = [todo |-> td, amount |-> am, emit |-> << >>]
        /\ work[s].todo = td /\ work[s].amount = am
    BY <2>2
  <2>4. work' = [work EXCEPT ![s] = [work[s] EXCEPT !.emit = << >>]]
    BY DEF EmitEvent
  <2>. QED
    BY <2>3, <2>4 DEF Set
<1>. QED
  BY <1>1, <1>2, <1>3, <1>4

LEMMA AmountsEmit ==
    ASSUME IdInv, Shape, AmountsInv, NEW s \in Session, EmitEvent(s)
    PROVE  AmountsInv'
<1>1. PICK n \in Node : log' = [log EXCEPT ![n] = Append(log[n], work[s].emit[1])]
  BY EmitShape
<1>2. UNCHANGED <<purse, table, owed>> /\ work[s].emit # << >>
      /\ work' = Set(s, work[s].todo, work[s].amount, << >>)
  BY EmitShape
<1>3. PICK e : e = work[s].emit[1] /\ e.weight \in Int
  BY <1>2, AmountsParts DEF SessionAmounts
<1>4. LogAmounts'
  <2>1. /\ Len(log[n]) \in Nat /\ Len(log'[n]) = Len(log[n]) + 1
        /\ log'[n][Len(log[n]) + 1] = e
        /\ \A i \in 1..Len(log[n]) : log'[n][i] = log[n][i]
        /\ \A m \in Node \ {n} : log'[m] = log[m]
    BY <1>1, <1>3, LogAppended
  <2>2. \A i \in 1..Len(log'[n]) : i \in 1..Len(log[n]) \/ i = Len(log[n]) + 1
    BY <2>1
  <2>. QED
    BY <1>3, <2>1, <2>2, AmountsParts DEF LogAmounts
<1>5. \A t \in Session : SessionAmounts(t)'
  <2>1. /\ work'[s].todo = work[s].todo /\ work'[s].amount = work[s].amount /\ work'[s].emit = << >>
        /\ \A t \in Session \ {s} : work'[t] = work[t]
    BY <1>2, WorkBecomes DEF IdInv
  <2>2. SessionAmounts(s)'
    BY <2>1, AmountsParts DEF SessionAmounts
  <2>. QED
    BY <2>1, <2>2, AmountsParts DEF SessionAmounts
<1>. QED
  BY <1>2, <1>4, <1>5, AmountsParts DEF AmountsInv, AmountsOK, TableAmounts, LogAmounts, SessionAmounts

LEMMA AmountsHandler ==
    ASSUME DebtInv, Shape, AmountsInv, NEW n \in Node, HandlerRuns(n)
    PROVE  AmountsInv'
<1>1. UNCHANGED <<purse, owed, work, log>>
  BY HandlerShape DEF sessionVars
<1>2. PICK k \in 1..Len(feed) : \E o \in Obligation : \E st, w, su, v : Handles(n, k, o, st, w, su, v)
  BY HandlerShape
<1>2a. PICK o \in Obligation : \E st, w, su, v : Handles(n, k, o, st, w, su, v)
  BY <1>2
<1>2b. PICK st, w, su, v : Handles(n, k, o, st, w, su, v)
  BY <1>2a, Zenon
<1>3. table' = Written(n, o, su, v) /\ w = table[n][o].weight /\ v \in {w, feed[k].ev.weight}
  BY <1>2b DEF Handles
<1>4. w \in Int
  BY <1>3, AmountsParts DEF TableAmounts
<1>5. feed[k].ev.weight \in Int
  <2>1. feed[k].src \in Node
    BY FeedBacked DEF DebtInv
  <2>2. PICK i \in 1..Len(log[feed[k].src]) : feed[k].ev = log[feed[k].src][i]
    BY DEF DebtInv, FeedIsPushed
  <2>. QED
    BY <2>1, <2>2, AmountsParts DEF LogAmounts
<1>6. TableAmounts'
  <2>0. TypeOK
    BY DEF DebtInv, IdInv
  <2>1. /\ table'[n][o].weight = v
        /\ \A m \in Node : \A y \in Obligation : m # n \/ y # o => table'[m][y] = table[m][y]
    BY <1>3, <2>0, RowIs, OtherRows
  <2>. QED
    BY <1>3, <1>4, <1>5, <2>1, AmountsParts DEF TableAmounts
<1>. QED
  BY <1>1, <1>6, AmountsParts DEF AmountsInv, AmountsOK, TableAmounts, LogAmounts, SessionAmounts

\* Sessions go on or end; nothing else is priced.
LEMMA SessionEnds ==
    ASSUME IdInv, NEW s \in Session, work' = [work EXCEPT ![s] = Free]
    PROVE  work'[s] = Free /\ \A t \in Session \ {s} : work'[t] = work[t]
<1>1. work = [t \in Session |->
                  [todo |-> work[t].todo, amount |-> work[t].amount, emit |-> work[t].emit]]
  BY DEF IdInv, TypeOK, WorkOK
<1>. QED
  BY <1>1

LEMMA AmountsNext ==
    ASSUME DebtInv, Shape, AmountsInv, [Next]_vars
    PROVE  AmountsInv'
<1>0. purse \in [Good -> Nat] /\ IdInv
  BY AmountsParts DEF DebtInv
<1>1. CASE UNCHANGED vars
  BY <1>0, <1>1, AmountsQuiet DEF vars
<1>2. ASSUME NEW g \in Good, Find(g) PROVE AmountsInv'
  <2>1. UNCHANGED <<table, owed, log, work>> /\ purse' = [purse EXCEPT ![g] = @ + 1]
    BY <1>2 DEF Find
  <2>2. purse' \in [Good -> Nat]
    BY <1>0, <2>1
  <2>. QED
    BY <2>1, <2>2, AmountsQuiet
<1>3. ASSUME NEW s \in Session, PayEnds(s) \/ PayFails(s) \/ EmitFails(s) PROVE AmountsInv'
  <2>1. UNCHANGED <<table, owed, log, purse>> /\ work' = [work EXCEPT ![s] = Free]
    BY <1>3 DEF PayEnds, PayFails, EmitFails
  <2>. QED
    BY <1>0, <2>1, SessionEnds, AmountsQuiet
<1>4. ASSUME NEW n \in Node, Move(n) \/ Push(n) \/ SkipOwn(n) \/ HandlerMarked(n) PROVE AmountsInv'
  <2>1. UNCHANGED <<table, owed, log, purse, work>>
    BY <1>4 DEF Move, Push, Pushed, SkipOwn, HandlerMarked, sessionVars
  <2>. QED
    BY <1>0, <2>1, AmountsQuiet
<1>5. ASSUME NEW n \in Node, Crash(n) PROVE AmountsInv'
  <2>1. UNCHANGED <<table, owed, log, purse>> /\ (work' = work \/ work' = [s \in Session |-> Free])
    BY <1>5 DEF Crash
  <2>. QED
    BY <1>0, <2>1, AmountsQuiet
<1>6. CASE Next
  <2>1. CASE \E g \in Good : Find(g)
    BY <1>2, <2>1
  <2>2. CASE \E s \in Session : SessionStep(s) \/ PayDebt(s) \/ PayFails(s) \/ EmitFails(s)
    BY <1>0, <1>3, <2>2, AmountsPayDebt, AmountsPayment, AmountsEmit DEF SessionStep
  <2>3. CASE \E s \in Session : \E price \in Prices : Buy(s, price) \/ BuyFails(s, price)
    BY <1>0, <2>3, AmountsBuy, AmountsBuyFails
  <2>4. CASE \E n \in Node : Move(n) \/ Deliver(n) \/ Crash(n)
    BY <1>4, <1>5, <2>4, AmountsHandler DEF Deliver
  <2>. QED
    BY <1>6, <2>1, <2>2, <2>3, <2>4 DEF Next
<1>. QED
  BY <1>1, <1>6

LEMMA AmountsInit == Init => AmountsInv
<1>. SUFFICES ASSUME Init PROVE AmountsInv
  OBVIOUS
<1>1. purse \in [Good -> Nat] /\ owed \in [Obligation -> Int]
  BY DEF Init
<1>2. TableAmounts
  BY DEF Init, NoDebt, TableAmounts
<1>3. \A s \in Session : SessionAmounts(s)
  BY FreeIs DEF Init, SessionAmounts
<1>4. LogAmounts
  BY DEF Init, LogAmounts
<1>. QED
  BY <1>1, <1>2, <1>3, <1>4, AmountsParts

\* consumeForCost, from whatever the player carries: the goods handed over cover
\* the price or are all there is, none is lost or invented on the way, and the
\* price was not covered before the last unit of the heaviest good that went.
THEOREM GoodsAreHandedOverTightly == Spec => []ConsumeIsTight
<1>1. DebtInv /\ Shape /\ AmountsInv => ConsumeIsTight
  <2>. SUFFICES ASSUME AmountsInv, NEW price \in Prices
                PROVE  /\ AmountsOK
                       /\ LET r == Consume(purse, price)
                              taken == {g \in Good : r.left[g] < purse[g]}
                          IN  /\ r.consumed >= Lesser(price, Value(purse))
                              /\ Value(r.left) + r.consumed = Value(purse)
                              /\ \A g \in taken :
                                   (\A h \in taken : Weight[h] <= Weight[g]) => r.consumed - Weight[g] < price
    BY DEF ConsumeIsTight, AmountsInv
  <2>1. price \in Int
    BY GoodsAssumption
  <2>. QED
    BY <2>1, ConsumeTight, AmountsParts DEF AmountsInv
<1>2. Init => DebtInv /\ Shape /\ AmountsInv
  BY DebtInit, AmountsInit
<1>3. DebtInv /\ Shape /\ AmountsInv /\ [Next]_vars => (DebtInv /\ Shape /\ AmountsInv)'
  BY DebtNext, AmountsNext
<1>. QED
  BY <1>1, <1>2, <1>3, PTL DEF Spec

-----------------------------------------------------------------------------
(* The books: steps that are not about x leave alone what is true of x. *)

Born(x) == \E i \in 1..Len(born) : born[i] = x

\* What the step leaves alone when it is not about x.
LeavesAlone(x) ==
    /\ owed'[x] = owed[x] /\ (Born(x)' <=> Born(x))
    /\ \A n \in Node : table'[n][x] = table[n][x]
    /\ \A n \in Node :
         /\ Len(log'[n]) >= Len(log[n])
         /\ \A i \in 1..Len(log[n]) : log'[n][i] = log[n][i]
         /\ \A i \in Len(log[n]) + 1 .. Len(log'[n]) : log'[n][i].ob # x
         /\ sent'[n] >= sent[n] /\ sent'[n] <= Len(log[n])
         /\ \A i \in sent[n] + 1 .. sent'[n] : log[n][i].ob # x
         /\ Handling(n)' >= Handling(n) /\ Handling(n)' <= Len(feed)
         /\ \A k \in Handling(n) + 1 .. Handling(n)' : feed[k].src = n \/ feed[k].ev.ob # x
    /\ Len(feed') >= Len(feed)
    /\ \A k \in 1..Len(feed) : feed'[k] = feed[k]
    /\ \A k \in Len(feed) + 1 .. Len(feed') : feed'[k].ev.ob # x
    /\ here' = here \/ ~Emitting(x)
    /\ \A s \in Session :
         /\ \/ work'[s].emit = work[s].emit
            \/ /\ work[s].emit = << >> \/ work[s].emit[1].ob # x
               /\ work'[s].emit = << >> \/ work'[s].emit[1].ob # x
         /\ \A d \in work'[s].todo : d.ob = x => d \in work[s].todo /\ here' = here

LEMMA CountsAreNat ==
    ASSUME DebtInv, Shape
    PROVE  /\ Len(feed) \in Nat /\ here \in Node
           /\ \A n \in Node : /\ Len(log[n]) \in Nat /\ sent[n] \in Nat /\ sent[n] <= Len(log[n])
                              /\ cur[n] \in Nat /\ Handling(n) \in Nat /\ Handling(n) <= Len(feed)
<1>1. here \in Node /\ \A n \in Node : sent[n] \in Nat /\ sent[n] <= Len(log[n])
  BY DEF DebtInv, IdInv, TypeOK
<1>2. IdInv /\ HandlersKeep
  BY DEF DebtInv
<1>. QED
  BY <1>1, <1>2, LengthsAreNat, HandledIsInFeed

LEMMA CountsStayNat ==
    ASSUME DebtInv', Shape'
    PROVE  /\ Len(feed') \in Nat /\ here' \in Node
           /\ \A n \in Node : /\ Len(log'[n]) \in Nat /\ sent'[n] \in Nat /\ sent'[n] <= Len(log'[n])
                              /\ Handling(n)' \in Nat /\ Handling(n)' <= Len(feed')
<1>1. /\ here' \in Node /\ cur' \in [Node -> 0..Len(feed')] /\ ran' \in [Node -> BOOLEAN]
      /\ \A n \in Node : sent'[n] \in Nat /\ sent'[n] <= Len(log'[n])
  BY DEF DebtInv, IdInv, TypeOK
<1>2. Len(feed') \in Nat /\ \A n \in Node : Len(log'[n]) \in Nat
  BY DEF Shape
<1>3. ASSUME NEW n \in Node
      PROVE  Handling(n)' \in Nat /\ Handling(n)' <= Len(feed')
  <2>1. cur'[n] \in Nat /\ cur'[n] <= Len(feed') /\ (ran'[n] => cur'[n] < Len(feed'))
    BY <1>1, <1>2 DEF DebtInv, HandlersKeep
  <2>2. Handling(n)' = cur'[n] + (IF ran'[n] THEN 1 ELSE 0)
    BY DEF Handling
  <2>. QED
    BY <1>2, <2>1, <2>2
<1>. QED
  BY <1>1, <1>2, <1>3

LEMMA EmittingSame ==
    ASSUME NEW x, LeavesAlone(x)
    PROVE  Emitting(x)' <=> Emitting(x)
  BY DEF Emitting, LeavesAlone

LEMMA UnpushedSame ==
    ASSUME DebtInv, Shape, DebtInv', Shape', NEW x, LeavesAlone(x), NEW n \in Node
    PROVE  Unpushed(n, x)' <=> Unpushed(n, x)
<1>1. /\ Len(log[n]) \in Nat /\ sent[n] \in Nat /\ Len(log'[n]) \in Nat /\ sent'[n] \in Nat
  BY CountsAreNat, CountsStayNat
<1>2. /\ Len(log'[n]) >= Len(log[n])
      /\ \A i \in 1..Len(log[n]) : log'[n][i] = log[n][i]
      /\ \A i \in Len(log[n]) + 1 .. Len(log'[n]) : log'[n][i].ob # x
      /\ sent'[n] >= sent[n] /\ sent'[n] <= Len(log[n])
      /\ \A i \in sent[n] + 1 .. sent'[n] : log[n][i].ob # x
  BY DEF LeavesAlone
<1>3. ASSUME NEW i \in sent'[n] + 1 .. Len(log'[n]), log'[n][i].ob = x
      PROVE  i \in sent[n] + 1 .. Len(log[n]) /\ log[n][i].ob = x
  BY <1>1, <1>2, <1>3
<1>4. ASSUME NEW i \in sent[n] + 1 .. Len(log[n]), log[n][i].ob = x
      PROVE  i \in sent'[n] + 1 .. Len(log'[n]) /\ log'[n][i].ob = x
  BY <1>1, <1>2, <1>4
<1>. QED
  BY <1>3, <1>4 DEF Unpushed

LEMMA UnhandledSame ==
    ASSUME DebtInv, Shape, DebtInv', Shape', NEW x, LeavesAlone(x), NEW n \in Node
    PROVE  Unhandled(n, x)' <=> Unhandled(n, x)
<1>1. /\ Len(feed) \in Nat /\ Len(feed') \in Nat /\ Handling(n) \in Nat /\ Handling(n)' \in Nat
  BY CountsAreNat, CountsStayNat
<1>2. /\ Len(feed') >= Len(feed)
      /\ \A k \in 1..Len(feed) : feed'[k] = feed[k]
      /\ \A k \in Len(feed) + 1 .. Len(feed') : feed'[k].ev.ob # x
      /\ Handling(n)' >= Handling(n) /\ Handling(n)' <= Len(feed)
      /\ \A k \in Handling(n) + 1 .. Handling(n)' : feed[k].src = n \/ feed[k].ev.ob # x
  BY DEF LeavesAlone
<1>3. ASSUME NEW k \in Handling(n)' + 1 .. Len(feed'), feed'[k].src # n, feed'[k].ev.ob = x
      PROVE  k \in Handling(n) + 1 .. Len(feed) /\ feed[k].src # n /\ feed[k].ev.ob = x
  BY <1>1, <1>2, <1>3
<1>4. ASSUME NEW k \in Handling(n) + 1 .. Len(feed), feed[k].src # n, feed[k].ev.ob = x
      PROVE  k \in Handling(n)' + 1 .. Len(feed') /\ feed'[k].src # n /\ feed'[k].ev.ob = x
  BY <1>1, <1>2, <1>4
<1>5. (\E m \in Node \ {n} : Unpushed(m, x)') <=> \E m \in Node \ {n} : Unpushed(m, x)
  BY UnpushedSame
<1>. QED
  BY <1>3, <1>4, <1>5 DEF Unhandled

LEMMA UnannouncedSame ==
    ASSUME DebtInv, Shape, DebtInv', Shape', NEW x \in Obligation, LeavesAlone(x), Unannounced(x)'
    PROVE  Unannounced(x)
<1>1. x[1] \in Node
  BY ObligationIsPair
<1>2. Len(log[x[1]]) \in Nat /\ Len(log'[x[1]]) \in Nat
  BY <1>1, CountsAreNat
<1>3. /\ Len(log'[x[1]]) >= Len(log[x[1]])
      /\ \A i \in 1..Len(log[x[1]]) : log'[x[1]][i] = log[x[1]][i]
  BY <1>1 DEF LeavesAlone
<1>4. \A i \in 1..Len(log[x[1]]) : ~IsCreated(log[x[1]][i], x)
  BY <1>2, <1>3 DEF Unannounced, IsCreated
<1>5. \A s \in Session : work[s].emit = << >> \/ ~IsCreated(work[s].emit[1], x)
  BY DEF Unannounced, IsCreated, LeavesAlone
<1>. QED
  BY <1>4, <1>5 DEF Unannounced

LEMMA LatestCarriesSame ==
    ASSUME DebtInv, Shape, DebtInv', Shape', NEW x, LeavesAlone(x), LatestCarries(x)
    PROVE  LatestCarries(x)'
<1>1. ASSUME NEW ev, ev.ob = x, Carries(ev)
      PROVE  Carries(ev)'
  BY <1>1 DEF Carries, LeavesAlone
<1>2. ASSUME NEW s \in Session, work'[s].emit # << >>, work'[s].emit[1].ob = x
      PROVE  Carries(work[s].emit[1])'
  BY <1>1, <1>2 DEF LatestCarries, LeavesAlone
<1>3. Emitting(x)' <=> Emitting(x)
  BY EmittingSame
<1>4. ASSUME ~Emitting(x), NEW n \in Node, NEW i \in sent'[n] + 1 .. Len(log'[n]),
             log'[n][i].ob = x, \A j \in i + 1 .. Len(log'[n]) : log'[n][j].ob # x
      PROVE  Carries(log[n][i])'
  <2>1. /\ Len(log[n]) \in Nat /\ sent[n] \in Nat /\ Len(log'[n]) \in Nat /\ sent'[n] \in Nat
    BY CountsAreNat, CountsStayNat
  <2>2. /\ Len(log'[n]) >= Len(log[n])
        /\ \A j \in 1..Len(log[n]) : log'[n][j] = log[n][j]
        /\ \A j \in Len(log[n]) + 1 .. Len(log'[n]) : log'[n][j].ob # x
        /\ sent'[n] >= sent[n]
    BY DEF LeavesAlone
  <2>3. i \in sent[n] + 1 .. Len(log[n]) /\ log'[n][i] = log[n][i]
    BY <1>4, <2>1, <2>2
  <2>4. \A j \in i + 1 .. Len(log[n]) : log[n][j].ob # x
    BY <1>4, <2>1, <2>2, <2>3
  <2>5. Carries(log[n][i])
    BY <1>4, <2>3, <2>4 DEF LatestCarries
  <2>. QED
    BY <1>1, <1>4, <2>3, <2>5
<1>5. ASSUME ~Emitting(x), \A n \in Node : ~Unpushed(n, x)', NEW k \in 1..Len(feed'),
             feed'[k].ev.ob = x, \A j \in k + 1 .. Len(feed') : feed'[j].ev.ob # x
      PROVE  Carries(feed[k].ev)'
  <2>1. Len(feed) \in Nat /\ Len(feed') \in Nat
    BY CountsAreNat, CountsStayNat
  <2>2. /\ Len(feed') >= Len(feed)
        /\ \A j \in 1..Len(feed) : feed'[j] = feed[j]
        /\ \A j \in Len(feed) + 1 .. Len(feed') : feed'[j].ev.ob # x
    BY DEF LeavesAlone
  <2>3. k \in 1..Len(feed) /\ feed'[k] = feed[k]
    BY <1>5, <2>1, <2>2
  <2>4. \A j \in k + 1 .. Len(feed) : feed[j].ev.ob # x
    BY <1>5, <2>1, <2>2, <2>3
  <2>5. \A n \in Node : ~Unpushed(n, x)
    BY <1>5, UnpushedSame
  <2>6. Carries(feed[k].ev)
    BY <1>5, <2>3, <2>4, <2>5 DEF LatestCarries
  <2>. QED
    BY <1>1, <1>5, <2>3, <2>6
<1>. QED
  BY <1>2, <1>3, <1>4, <1>5 DEF LatestCarries

LEMMA AuthorsKnowSame ==
    ASSUME DebtInv, Shape, DebtInv', Shape', NEW x, LeavesAlone(x), AuthorsKnow(x)
    PROVE  AuthorsKnow(x)'
<1>1. Emitting(x)' => ~Unhandled(here, x)'
  <2>. SUFFICES ASSUME Emitting(x)' PROVE ~Unhandled(here, x)'
    OBVIOUS
  <2>1. Emitting(x)
    BY EmittingSame
  <2>2. PICK n \in Node : n = here
    BY CountsAreNat, CountsStayNat
  <2>3. here' = n
    BY <2>1, <2>2 DEF LeavesAlone
  <2>4. ~Unhandled(n, x)'
    BY <2>1, <2>2, UnhandledSame DEF AuthorsKnow
  <2>. QED
    BY <2>3, <2>4
<1>2. \A n \in Node : Unpushed(n, x)' => ~Unhandled(n, x)'
  BY UnpushedSame, UnhandledSame DEF AuthorsKnow
<1>3. ASSUME NEW k \in 1..Len(feed'), NEW j \in 1..k - 1,
             feed'[k].ev.ob = x, feed'[j].ev.ob = x, feed'[j].src # feed'[k].src
      PROVE  j <= Handling(feed[k].src)'
  <2>1. Len(feed) \in Nat /\ Len(feed') \in Nat
    BY CountsAreNat, CountsStayNat
  <2>2. /\ Len(feed') >= Len(feed)
        /\ \A i \in 1..Len(feed) : feed'[i] = feed[i]
        /\ \A i \in Len(feed) + 1 .. Len(feed') : feed'[i].ev.ob # x
    BY DEF LeavesAlone
  <2>3. k \in 1..Len(feed) /\ feed'[k] = feed[k] /\ j \in 1..Len(feed) /\ feed'[j] = feed[j]
    BY <1>3, <2>1, <2>2
  <2>4. feed[k].src \in Node
    BY <2>3, FeedBacked DEF DebtInv
  <2>5. PICK n \in Node : n = feed[k].src
    BY <2>4
  <2>6. j <= Handling(n)
    BY <1>3, <2>3, <2>5 DEF AuthorsKnow
  <2>7. Handling(n) \in Nat /\ Handling(n)' \in Nat /\ Handling(n)' >= Handling(n)
    BY CountsAreNat, CountsStayNat DEF LeavesAlone
  <2>8. j <= Handling(n)'
    BY <2>1, <2>3, <2>6, <2>7
  <2>. QED
    BY <2>3, <2>5, <2>8
<1>. QED
  BY <1>1, <1>2, <1>3 DEF AuthorsKnow

LEMMA ResolvedIsPaidSame ==
    ASSUME DebtInv, Shape, DebtInv', Shape', NEW x, LeavesAlone(x), ResolvedIsPaid(x)
    PROVE  ResolvedIsPaid(x)'
<1>1. \A n \in Node : table'[n][x].status = "resolved" => owed'[x] = 0
  BY DEF ResolvedIsPaid, LeavesAlone
<1>2. ASSUME NEW n \in Node, NEW i \in 1..Len(log'[n]),
             log'[n][i].ob = x, log'[n][i].type = "debt.resolved"
      PROVE  owed'[x] = 0
  <2>1. Len(log[n]) \in Nat /\ Len(log'[n]) \in Nat
    BY CountsAreNat, CountsStayNat
  <2>2. /\ \A j \in 1..Len(log[n]) : log'[n][j] = log[n][j]
        /\ \A j \in Len(log[n]) + 1 .. Len(log'[n]) : log'[n][j].ob # x
        /\ owed'[x] = owed[x]
    BY DEF LeavesAlone
  <2>3. i \in 1..Len(log[n]) /\ log'[n][i] = log[n][i]
    BY <1>2, <2>1, <2>2
  <2>. QED
    BY <1>2, <2>2, <2>3 DEF ResolvedIsPaid
<1>. QED
  BY <1>1, <1>2 DEF ResolvedIsPaid

LEMMA ShownIsOwedSame ==
    ASSUME DebtInv, Shape, DebtInv', Shape', NEW x \in Obligation, LeavesAlone(x), ShownIsOwed(x)
    PROVE  ShownIsOwed(x)'
<1>0. x[1] \in Node
  BY ObligationIsPair
<1>1. \A n \in Node : table'[n][x] = table[n][x]
  BY DEF LeavesAlone
<1>2. owed'[x] = owed[x]
  BY DEF LeavesAlone
<1>3. ASSUME table'[x[1]][x].status # "none"
      PROVE  ~Unannounced(x)'
  BY <1>0, <1>1, <1>3, UnannouncedSame DEF ShownIsOwed
<1>4. ASSUME table'[x[1]][x].status # "none", NEW n \in Node, ~Unhandled(n, x)',
             Emitting(x)' => n = here'
      PROVE  Current(n, x)'
  <2>1. ~Unhandled(n, x)
    BY <1>4, UnhandledSame
  <2>2. Emitting(x) => n = here
    BY <1>4, EmittingSame DEF LeavesAlone
  <2>3. Current(n, x)
    BY <1>0, <1>1, <1>4, <2>1, <2>2 DEF ShownIsOwed
  <2>. QED
    BY <1>1, <1>2, <2>3 DEF Current
<1>5. ASSUME NEW n \in Node, n # x[1], table'[n][x].status # "none"
      PROVE  \E k \in 1..Handling(n)' : IsCreated(feed[k].ev, x)'
  <2>1. PICK k \in 1..Handling(n) : IsCreated(feed[k].ev, x)
    BY <1>1, <1>5 DEF ShownIsOwed
  <2>2. /\ Handling(n) \in Nat /\ Handling(n)' \in Nat /\ Len(feed) \in Nat
        /\ Handling(n) <= Len(feed) /\ Handling(n)' >= Handling(n)
    BY CountsAreNat, CountsStayNat DEF LeavesAlone
  <2>3. k \in 1..Len(feed) /\ k \in 1..Handling(n)'
    BY <2>2
  <2>4. feed'[k] = feed[k]
    BY <2>3 DEF LeavesAlone
  <2>5. IsCreated(feed[k].ev, x)'
    BY <2>1, <2>4 DEF IsCreated
  <2>. QED
    BY <2>3, <2>5
<1>6. ASSUME NEW s \in Session, NEW d \in work'[s].todo, d.ob = x
      PROVE  d = [ob |-> x, weight |-> owed'[x]] /\ owed'[x] > 0 /\ ~Unhandled(here, x)'
  <2>1. d \in work[s].todo /\ here' = here
    BY <1>6 DEF LeavesAlone
  <2>2. d = [ob |-> x, weight |-> owed[x]] /\ owed[x] > 0 /\ ~Unhandled(here, x)
    BY <1>6, <2>1 DEF ShownIsOwed
  <2>3. PICK n \in Node : n = here
    BY CountsAreNat
  <2>4. ~Unhandled(n, x)'
    BY <2>2, <2>3, UnhandledSame
  <2>. QED
    BY <1>2, <2>1, <2>2, <2>3, <2>4
<1>. QED
  BY <1>3, <1>4, <1>5, <1>6 DEF ShownIsOwed

LEMMA CreatedOnceSame ==
    ASSUME DebtInv, Shape, DebtInv', Shape', NEW x \in Obligation, LeavesAlone(x), CreatedOnce(x)
    PROVE  CreatedOnce(x)'
<1>0. x[1] \in Node
  BY ObligationIsPair
<1>. PICK n \in Node : n = x[1]
  BY <1>0
<1>1. /\ Len(log[n]) \in Nat /\ Len(log'[n]) \in Nat /\ Len(feed) \in Nat /\ Len(feed') \in Nat
      /\ sent[n] \in Nat /\ sent'[n] \in Nat /\ sent'[n] >= sent[n] /\ sent[n] <= Len(log[n])
  BY CountsAreNat, CountsStayNat DEF LeavesAlone
<1>2. /\ Len(log'[n]) >= Len(log[n])
      /\ \A i \in 1..Len(log[n]) : log'[n][i] = log[n][i]
      /\ \A i \in Len(log[n]) + 1 .. Len(log'[n]) : log'[n][i].ob # x
      /\ \A k \in 1..Len(feed) : feed'[k] = feed[k]
      /\ \A k \in Len(feed) + 1 .. Len(feed') : feed'[k].ev.ob # x
  BY DEF LeavesAlone
<1>3. ASSUME NEW i \in 1..Len(log'[n]), IsCreated(log[n][i], x)'
      PROVE  i \in 1..Len(log[n]) /\ IsCreated(log[n][i], x)
  <2>1. log'[n][i].ob = x /\ log'[n][i].type = "debt.created"
    BY <1>3 DEF IsCreated
  <2>2. i \in 1..Len(log[n]) /\ log'[n][i] = log[n][i]
    BY <1>1, <1>2, <2>1
  <2>. QED
    BY <2>1, <2>2 DEF IsCreated
<1>4. ASSUME NEW k \in 1..Len(feed'), IsCreated(feed[k].ev, x)'
      PROVE  k \in 1..Len(feed) /\ IsCreated(feed[k].ev, x)
  <2>1. feed'[k].ev.ob = x /\ feed'[k].ev.type = "debt.created"
    BY <1>4 DEF IsCreated
  <2>2. k \in 1..Len(feed) /\ feed'[k] = feed[k]
    BY <1>1, <1>2, <2>1
  <2>. QED
    BY <2>1, <2>2 DEF IsCreated
<1>5. ASSUME NEW i \in 1..sent[n], IsCreated(log[n][i], x)
      PROVE  i \in 1..sent'[n] /\ IsCreated(log[n][i], x)'
  <2>1. i \in 1..Len(log[n]) /\ i \in 1..sent'[n]
    BY <1>1
  <2>2. log'[n][i] = log[n][i]
    BY <1>2, <2>1
  <2>. QED
    BY <1>5, <2>1, <2>2 DEF IsCreated
<1>6. \A i, j \in 1..Len(log'[n]) : IsCreated(log[n][i], x)' /\ IsCreated(log[n][j], x)' => i = j
  BY <1>3 DEF CreatedOnce
<1>7. ASSUME NEW s \in Session, work'[s].emit # << >>, IsCreated(work[s].emit[1], x)',
             NEW i \in 1..Len(log'[n])
      PROVE  ~IsCreated(log[n][i], x)'
  <2>1. work'[s].emit[1].ob = x
    BY <1>7 DEF IsCreated
  <2>2. work'[s].emit = work[s].emit
    BY <1>7, <2>1 DEF LeavesAlone
  <2>3. work[s].emit # << >> /\ IsCreated(work[s].emit[1], x)
    BY <1>7, <2>2 DEF IsCreated
  <2>. QED
    BY <1>3, <2>3 DEF CreatedOnce
<1>8. ASSUME NEW k \in 1..Len(feed'), IsCreated(feed[k].ev, x)'
      PROVE  /\ \E i \in 1..sent'[n] : IsCreated(log[n][i], x)'
             /\ \A j \in 1..Len(feed') : IsCreated(feed[j].ev, x)' => j = k
  BY <1>4, <1>5, <1>8 DEF CreatedOnce
<1>. QED
  BY <1>6, <1>7, <1>8 DEF CreatedOnce

\* What is true of x stays true while the step is about something else.
LEMMA BookOfSame ==
    ASSUME DebtInv, Shape, DebtInv', Shape', NEW x \in Obligation, LeavesAlone(x), BookOf(x)
    PROVE  BookOf(x)'
<1>1. x[1] \in Node
  BY ObligationIsPair
<1>2. table'[x[1]][x] = table[x[1]][x] /\ (Born(x)' <=> Born(x))
  BY <1>1 DEF LeavesAlone
<1>3. table[x[1]][x].status # "none" <=> Born(x)
  BY DEF BookOf, Born
<1>4. table'[x[1]][x].status # "none" <=> \E i \in 1..Len(born') : born'[i] = x
  BY <1>2, <1>3 DEF Born
<1>5. CreatedOnce(x)' /\ LatestCarries(x)' /\ AuthorsKnow(x)' /\ ResolvedIsPaid(x)' /\ ShownIsOwed(x)'
  BY CreatedOnceSame, LatestCarriesSame, AuthorsKnowSame, ResolvedIsPaidSame, ShownIsOwedSame DEF BookOf
<1>. QED
  BY <1>4, <1>5 DEF BookOf

OneAtATime == \A s, t \in Busy : s = t

Books == \A o \in Obligation : BookOf(o)

LEMMA StillOne ==
    ASSUME OneAtATime, \A s \in Session : work'[s] \in {work[s], Free} \/ s \in Busy
    PROVE  OneAtATime'
  BY DEF OneAtATime, Busy

LEMMA BecomesOne ==
    ASSUME NEW s \in Session, Overlaps(s) = {}, \A t \in Session \ {s} : work'[t] = work[t]
    PROVE  OneAtATime'
  BY DEF OneAtATime, Busy, Overlaps

\* While s is busy no other session has anything to emit or to pay.
LEMMA OthersIdle ==
    ASSUME OneAtATime, NEW s \in Session, work[s] # Free \/ Overlaps(s) = {}
    PROVE  \A t \in Session \ {s} : work[t] = Free /\ work[t].emit = << >> /\ work[t].todo = {}
<1>1. \A t \in Session \ {s} : work[t] = Free
  BY DEF OneAtATime, Busy, Overlaps
<1>. QED
  BY <1>1, FreeIs

\* Steps that leave the logs and the feed as they are.
LEMMA LeavesAloneQuietly ==
    ASSUME DebtInv, Shape, DebtInv', Shape', UNCHANGED <<log, sent, feed, born>>, NEW x,
           owed'[x] = owed[x], \A n \in Node : table'[n][x] = table[n][x],
           \A n \in Node :
               \/ Handling(n)' = Handling(n)
               \/ /\ Handling(n)' = Handling(n) + 1
                  /\ feed[Handling(n) + 1].src = n \/ feed[Handling(n) + 1].ev.ob # x,
           here' = here \/ ~Emitting(x),
           \A s \in Session :
               /\ \/ work'[s].emit = work[s].emit
                  \/ /\ work[s].emit = << >> \/ work[s].emit[1].ob # x
                     /\ work'[s].emit = << >> \/ work'[s].emit[1].ob # x
               /\ \A d \in work'[s].todo : d.ob = x => d \in work[s].todo /\ here' = here
    PROVE  LeavesAlone(x)
<1>1. ASSUME NEW n \in Node
      PROVE  /\ Len(log'[n]) >= Len(log[n])
             /\ \A i \in 1..Len(log[n]) : log'[n][i] = log[n][i]
             /\ \A i \in Len(log[n]) + 1 .. Len(log'[n]) : log'[n][i].ob # x
             /\ sent'[n] >= sent[n] /\ sent'[n] <= Len(log[n])
             /\ \A i \in sent[n] + 1 .. sent'[n] : log[n][i].ob # x
  BY CountsAreNat
<1>2. ASSUME NEW n \in Node
      PROVE  /\ Handling(n)' >= Handling(n) /\ Handling(n)' <= Len(feed)
             /\ \A k \in Handling(n) + 1 .. Handling(n)' : feed[k].src = n \/ feed[k].ev.ob # x
  <2>1. Handling(n) \in Nat /\ Handling(n)' \in Nat /\ Handling(n) <= Len(feed) /\ Len(feed) \in Nat
        /\ Handling(n)' <= Len(feed)
    BY CountsAreNat, CountsStayNat
  <2>2. CASE Handling(n)' = Handling(n)
    BY <2>1, <2>2
  <2>3. CASE /\ Handling(n)' = Handling(n) + 1
             /\ feed[Handling(n) + 1].src = n \/ feed[Handling(n) + 1].ev.ob # x
    <3>1. \A k \in Handling(n) + 1 .. Handling(n)' : k = Handling(n) + 1
      BY <2>1, <2>3
    <3>. QED
      BY <2>1, <2>3, <3>1
  <2>. QED
    BY <2>2, <2>3
<1>3. /\ Len(feed') >= Len(feed)
      /\ \A k \in 1..Len(feed) : feed'[k] = feed[k]
      /\ \A k \in Len(feed) + 1 .. Len(feed') : feed'[k].ev.ob # x
  BY CountsAreNat
<1>4. Born(x)' <=> Born(x)
  BY DEF Born
<1>. QED
  BY <1>1, <1>2, <1>3, <1>4 DEF LeavesAlone

LEMMA HandlingSame ==
    ASSUME UNCHANGED <<cur, ran>>, NEW n
    PROVE  Handling(n)' = Handling(n)
  BY DEF Handling

\* Sessions go on where they are, or end with nothing to emit.
LEMMA BooksQuiet ==
    ASSUME DebtInv, Shape, DebtInv', Shape', OneAtATime, Books,
           UNCHANGED <<log, sent, feed, born, owed, table>>,
           \A n \in Node :
               \/ Handling(n)' = Handling(n)
               \/ Handling(n)' = Handling(n) + 1 /\ feed[Handling(n) + 1].src = n,
           here' = here \/ Busy = {},
           \A s \in Session : work'[s] = work[s] \/ (work[s].emit = << >> /\ work'[s] = Free)
    PROVE  OneAtATime' /\ Books'
<1>1. OneAtATime'
  BY StillOne
<1>2. ASSUME NEW x \in Obligation
      PROVE  BookOf(x)'
  <2>1. here' = here \/ (~Emitting(x) /\ \A s \in Session : work[s].todo = {} /\ work'[s].todo = {})
    <3>1. CASE Busy = {}
      <4>1. \A s \in Session : work[s] = Free /\ work'[s] = Free
        BY <3>1 DEF Busy
      <4>. QED
        BY <4>1, FreeIs DEF Emitting
    <3>. QED
      BY <3>1
  <2>2. \A s \in Session :
               /\ \/ work'[s].emit = work[s].emit
                  \/ /\ work[s].emit = << >> \/ work[s].emit[1].ob # x
                     /\ work'[s].emit = << >> \/ work'[s].emit[1].ob # x
               /\ \A d \in work'[s].todo : d.ob = x => d \in work[s].todo /\ here' = here
    BY <2>1, FreeIs
  <2>3. LeavesAlone(x)
    BY <2>1, <2>2, LeavesAloneQuietly
  <2>. QED
    BY <2>3, BookOfSame DEF Books
<1>. QED
  BY <1>1, <1>2 DEF Books

LEMMA BooksFind ==
    ASSUME DebtInv, Shape, DebtInv', Shape', OneAtATime, Books, NEW g \in Good, Find(g)
    PROVE  OneAtATime' /\ Books'
<1>1. UNCHANGED <<here, work, cur, ran>> /\ UNCHANGED <<log, sent, feed, born, owed, table>>
  BY DEF Find, feedVars
<1>. QED
  BY <1>1, HandlingSame, BooksQuiet

LEMMA BooksPayEnds ==
    ASSUME DebtInv, Shape, DebtInv', Shape', OneAtATime, Books, NEW s \in Session,
           PayEnds(s) \/ PayFails(s)
    PROVE  OneAtATime' /\ Books'
<1>1. UNCHANGED <<here, cur, ran>> /\ UNCHANGED <<log, sent, feed, born, owed, table>>
      /\ work[s].emit = << >> /\ work' = [work EXCEPT ![s] = Free]
  BY DEF PayEnds, PayFails, PayingNext, feedVars
<1>2. work'[s] = Free /\ \A t \in Session \ {s} : work'[t] = work[t]
  BY <1>1, SessionEnds DEF DebtInv
<1>. QED
  BY <1>1, <1>2, HandlingSame, BooksQuiet

LEMMA BooksMove ==
    ASSUME DebtInv, Shape, DebtInv', Shape', OneAtATime, Books, NEW n \in Node, Move(n)
    PROVE  OneAtATime' /\ Books'
<1>1. UNCHANGED <<work, cur, ran>> /\ UNCHANGED <<log, sent, feed, born, owed, table>> /\ Busy = {}
  BY DEF Move, feedVars
<1>. QED
  BY <1>1, HandlingSame, BooksQuiet

LEMMA BooksSyncer ==
    ASSUME DebtInv, Shape, DebtInv', Shape', OneAtATime, Books, NEW n \in Node,
           SkipOwn(n) \/ HandlerMarked(n)
    PROVE  OneAtATime' /\ Books'
<1>1. UNCHANGED <<here, work>> /\ UNCHANGED <<log, sent, feed, born, owed, table>>
  BY DEF SkipOwn, HandlerMarked, sessionVars
<1>2. cur \in [Node -> 0..Len(feed)] /\ ran \in [Node -> BOOLEAN] /\ Len(feed) \in Nat
  BY CountsAreNat DEF DebtInv, IdInv, TypeOK
<1>3. ASSUME NEW m \in Node
      PROVE  \/ Handling(m)' = Handling(m)
             \/ Handling(m)' = Handling(m) + 1 /\ feed[Handling(m) + 1].src = m
  <2>1. /\ Handling(m) = cur[m] + (IF ran[m] THEN 1 ELSE 0)
        /\ Handling(m)' = cur'[m] + (IF ran'[m] THEN 1 ELSE 0)
    BY DEF Handling
  <2>2. CASE HandlerMarked(n)
    <3>1. ran[n] /\ ran' = [ran EXCEPT ![n] = FALSE] /\ cur' = [cur EXCEPT ![n] = @ + 1]
      BY <2>2 DEF HandlerMarked
    <3>. QED
      BY <1>2, <2>1, <3>1
  <2>3. CASE SkipOwn(n)
    <3>1. feed[cur[n] + 1].src = n /\ ran' = ran /\ cur' = [cur EXCEPT ![n] = @ + 1]
      BY <2>3 DEF SkipOwn
    <3>2. ran[n] => feed[cur[n] + 1].src # n
      BY DEF DebtInv, HandlersKeep
    <3>. QED
      BY <1>2, <2>1, <3>1, <3>2
  <2>. QED
    BY <2>2, <2>3
<1>. QED
  BY <1>1, <1>3, BooksQuiet

-----------------------------------------------------------------------------
(* The books: the steps. *)

\* One event of n, on o, goes to the feed.
PushesOn(n, ev, o) ==
    /\ UNCHANGED <<here, work, table, owed, born, log, cur, ran>>
    /\ ev = log[n][sent[n] + 1] /\ o = ev.ob
    /\ sent[n] < Len(log[n]) /\ Len(feed') = Len(feed) + 1
    /\ \A k \in 1..Len(feed) : feed'[k] = feed[k]
    /\ feed'[Len(feed) + 1].src = n /\ feed'[Len(feed) + 1].ev = ev
    /\ sent'[n] = sent[n] + 1 /\ \A m \in Node \ {n} : sent'[m] = sent[m]

LEMMA PushShape ==
    ASSUME DebtInv, Shape, NEW n \in Node, Push(n)
    PROVE  \E o \in Obligation : \E ev : PushesOn(n, ev, o)
<1>1. UNCHANGED <<here, work, table, owed, born, log, cur, ran>>
      /\ sent[n] < Len(log[n]) /\ sent' = [sent EXCEPT ![n] = @ + 1]
      /\ feed' = Append(feed, [src |-> n, ev |-> log[n][sent[n] + 1]])
  BY DEF Push, Pushed, sessionVars
<1>2. sent[n] \in Nat /\ Len(log[n]) \in Nat /\ sent \in [Node -> Nat]
  BY CountsAreNat DEF DebtInv, IdInv, TypeOK
<1>3. PICK ev : ev = log[n][sent[n] + 1]
  OBVIOUS
<1>4. sent[n] + 1 \in 1..Len(log[n])
  BY <1>1, <1>2
<1>5. Backed(n, ev)
  BY <1>3, <1>4 DEF DebtInv, IdInv, EventsHaveRows
<1>6. PICK o \in Obligation : o = ev.ob
  BY <1>5 DEF Backed
<1>7. PICK e : e = [src |-> n, ev |-> ev]
  OBVIOUS
<1>8. e.src = n /\ e.ev = ev
  BY <1>7
<1>9. /\ Len(feed') = Len(feed) + 1 /\ feed'[Len(feed) + 1] = e
      /\ \A k \in 1..Len(feed) : feed'[k] = feed[k]
  <2>1. PICK S : feed \in Seq(S)
    BY DEF Shape
  <2>2. PICK T : T = S \cup {e}
    OBVIOUS
  <2>3. feed \in Seq(T) /\ e \in T /\ feed' = Append(feed, e)
    BY <1>1, <1>3, <1>7, <2>1, <2>2
  <2>. QED
    BY <2>3
<1>10. sent'[n] = sent[n] + 1 /\ \A m \in Node \ {n} : sent'[m] = sent[m]
  BY <1>1, <1>2
<1>11. PushesOn(n, ev, o)
  BY <1>1, <1>3, <1>6, <1>8, <1>9, <1>10 DEF PushesOn
<1>. QED
  BY <1>11

LEMMA PushLeavesAlone ==
    ASSUME DebtInv, Shape, DebtInv', Shape', NEW n \in Node, NEW ev, NEW o, PushesOn(n, ev, o),
           NEW x, x # o
    PROVE  LeavesAlone(x)
<1>1. /\ UNCHANGED <<here, work, table, owed, born, log, cur, ran>>
      /\ log[n][sent[n] + 1].ob # x
      /\ sent[n] < Len(log[n]) /\ Len(feed') = Len(feed) + 1
      /\ \A k \in 1..Len(feed) : feed'[k] = feed[k]
      /\ feed'[Len(feed) + 1].ev.ob # x
      /\ sent'[n] = sent[n] + 1 /\ \A m \in Node \ {n} : sent'[m] = sent[m]
  BY DEF PushesOn
<1>2. ASSUME NEW m \in Node
      PROVE  /\ Len(log'[m]) >= Len(log[m])
             /\ \A i \in 1..Len(log[m]) : log'[m][i] = log[m][i]
             /\ \A i \in Len(log[m]) + 1 .. Len(log'[m]) : log'[m][i].ob # x
             /\ sent'[m] >= sent[m] /\ sent'[m] <= Len(log[m])
  BY <1>1, CountsAreNat
<1>3. ASSUME NEW m \in Node, NEW i \in sent[m] + 1 .. sent'[m]
      PROVE  log[m][i].ob # x
  <2>1. sent[m] \in Nat /\ sent[n] \in Nat
    BY CountsAreNat
  <2>2. m = n /\ i = sent[n] + 1
    BY <1>1, <1>3, <2>1
  <2>. QED
    BY <1>1, <2>2
<1>4. ASSUME NEW m \in Node
      PROVE  /\ Handling(m)' >= Handling(m) /\ Handling(m)' <= Len(feed)
             /\ \A k \in Handling(m) + 1 .. Handling(m)' : feed[k].src = m \/ feed[k].ev.ob # x
  BY <1>1, HandlingSame, CountsAreNat
<1>5. /\ Len(feed') >= Len(feed)
      /\ \A k \in Len(feed) + 1 .. Len(feed') : feed'[k].ev.ob # x
  <2>1. Len(feed) \in Nat /\ \A k \in Len(feed) + 1 .. Len(feed') : k = Len(feed) + 1
    BY <1>1, CountsAreNat
  <2>. QED
    BY <1>1, <2>1
<1>6. Born(x)' <=> Born(x)
  BY <1>1 DEF Born
<1>. QED
  BY <1>1, <1>2, <1>3, <1>4, <1>5, <1>6 DEF LeavesAlone

\* The pushed event is the latest of those on o that the hub has, and the one
\* whose author had handled all of them.
LEMMA PushOn ==
    ASSUME DebtInv, Shape, DebtInv', Shape', NEW n \in Node, NEW ev, NEW o \in Obligation,
           PushesOn(n, ev, o), BookOf(o)
    PROVE  BookOf(o)'
<1>0. o[1] \in Node
  BY ObligationIsPair
<1>1. /\ UNCHANGED <<here, work, table, owed, born, log, cur, ran>>
      /\ ev = log[n][sent[n] + 1] /\ o = ev.ob
      /\ sent[n] < Len(log[n]) /\ Len(feed') = Len(feed) + 1
      /\ \A k \in 1..Len(feed) : feed'[k] = feed[k]
      /\ feed'[Len(feed) + 1].src = n /\ feed'[Len(feed) + 1].ev = ev
      /\ sent'[n] = sent[n] + 1 /\ \A m \in Node \ {n} : sent'[m] = sent[m]
  BY DEF PushesOn
<1>2. /\ Len(feed) \in Nat /\ here \in Node
      /\ \A m \in Node : /\ Len(log[m]) \in Nat /\ sent[m] \in Nat /\ sent[m] <= Len(log[m])
                         /\ Handling(m) \in Nat /\ Handling(m) <= Len(feed)
  BY CountsAreNat
<1>2a. \A m \in Node : sent'[m] \in Nat /\ sent'[m] >= sent[m]
  BY <1>1, <1>2
<1>2b. sent[n] \in Nat /\ Len(log[n]) \in Nat
  BY <1>2
<1>3. \A m : Handling(m)' = Handling(m)
  BY <1>1, HandlingSame
<1>4. Emitting(o)' <=> Emitting(o)
  BY <1>1 DEF Emitting
<1>5. ASSUME NEW m \in Node, Unpushed(m, o)'
      PROVE  Unpushed(m, o)
  <2>1. PICK i \in sent'[m] + 1 .. Len(log[m]) : log[m][i].ob = o
    BY <1>1, <1>5 DEF Unpushed
  <2>2. sent'[m] \in Nat /\ sent'[m] >= sent[m] /\ sent[m] \in Nat /\ Len(log[m]) \in Nat
    BY <1>2, <1>2a
  <2>3. i \in sent[m] + 1 .. Len(log[m])
    BY <2>2
  <2>. QED
    BY <2>1, <2>3 DEF Unpushed
<1>6. Unpushed(n, o)
  <2>1. sent[n] + 1 \in sent[n] + 1 .. Len(log[n])
    BY <1>1, <1>2
  <2>. QED
    BY <1>1, <2>1 DEF Unpushed
<1>7. ~Unhandled(n, o) /\ \A m \in Node \ {n} : Unhandled(m, o)
  BY <1>6 DEF BookOf, AuthorsKnow, Unhandled
<1>8. ~Unhandled(n, o)'
  <2>1. \A m \in Node \ {n} : ~Unpushed(m, o)'
    BY <1>5, <1>7 DEF Unhandled
  <2>2. ASSUME NEW k \in Handling(n) + 1 .. Len(feed'), feed'[k].src # n
        PROVE  feed'[k].ev.ob # o
    <3>1. k \in Handling(n) + 1 .. Len(feed) /\ feed'[k] = feed[k]
      BY <1>1, <1>2, <2>2
    <3>. QED
      BY <1>7, <2>2, <3>1 DEF Unhandled
  <2>. QED
    BY <1>3, <2>1, <2>2 DEF Unhandled
<1>9. \A m \in Node \ {n} : Unhandled(m, o)'
  <2>1. TAKE m \in Node \ {n}
  <2>2. Len(feed) + 1 \in Handling(m)' + 1 .. Len(feed')
    BY <1>1, <1>2, <1>3
  <2>3. feed'[Len(feed) + 1].src # m /\ feed'[Len(feed) + 1].ev.ob = o
    BY <1>1
  <2>. QED
    BY <2>2, <2>3 DEF Unhandled
<1>10. \A m \in Node : Unhandled(m, o)' <=> Unhandled(m, o)
  BY <1>7, <1>8, <1>9
<1>11. LatestCarries(o)'
  <2>0. \A e : Carries(e)' <=> Carries(e)
    BY <1>1 DEF Carries
  <2>1. ASSUME NEW s \in Session, work'[s].emit # << >>, work'[s].emit[1].ob = o
        PROVE  Carries(work[s].emit[1])'
    BY <1>1, <2>0, <2>1 DEF BookOf, LatestCarries
  <2>2. ASSUME ~Emitting(o), NEW m \in Node, NEW i \in sent'[m] + 1 .. Len(log'[m]),
               log'[m][i].ob = o, \A j \in i + 1 .. Len(log'[m]) : log'[m][j].ob # o
        PROVE  Carries(log[m][i])'
    <3>0. sent'[m] \in Nat /\ sent'[m] >= sent[m] /\ sent[m] \in Nat /\ Len(log[m]) \in Nat
      BY <1>2, <1>2a
    <3>1. i \in sent[m] + 1 .. Len(log[m])
      BY <1>1, <3>0
    <3>2. Carries(log[m][i])
      BY <1>1, <2>2, <3>1 DEF BookOf, LatestCarries
    <3>. QED
      BY <1>1, <2>0, <3>2
  <2>3. ASSUME ~Emitting(o), \A m \in Node : ~Unpushed(m, o)', NEW k \in 1..Len(feed'),
               feed'[k].ev.ob = o, \A j \in k + 1 .. Len(feed') : feed'[j].ev.ob # o
        PROVE  Carries(feed[k].ev)'
    <3>1. k = Len(feed) + 1
      <4>1. ~(Len(feed) + 1 \in k + 1 .. Len(feed'))
        BY <1>1, <2>3
      <4>. QED
        BY <1>1, <1>2, <4>1
    <3>2. \A j \in sent[n] + 2 .. Len(log[n]) : log[n][j].ob # o
      <4>1. ~Unpushed(n, o)'
        BY <2>3
      <4>2. \A j \in sent'[n] + 1 .. Len(log[n]) : log[n][j].ob # o
        BY <1>1, <4>1 DEF Unpushed
      <4>3. sent'[n] + 1 = sent[n] + 2
        BY <1>1, <1>2b
      <4>. QED
        BY <4>2, <4>3
    <3>3. PICK i : i = sent[n] + 1
      OBVIOUS
    <3>4. i \in sent[n] + 1 .. Len(log[n]) /\ \A j \in i + 1 .. Len(log[n]) : log[n][j].ob # o
      BY <1>1, <1>2, <3>2, <3>3
    <3>5. Carries(log[n][i])
      BY <1>1, <2>3, <3>3, <3>4 DEF BookOf, LatestCarries
    <3>. QED
      BY <1>1, <2>0, <3>1, <3>3, <3>5
  <2>. QED
    BY <1>4, <2>1, <2>2, <2>3 DEF LatestCarries
<1>12. AuthorsKnow(o)'
  <2>1. Emitting(o)' => ~Unhandled(here, o)'
    <3>1. PICK h \in Node : h = here
      BY <1>2
    <3>. QED
      BY <1>1, <1>4, <1>10, <3>1 DEF BookOf, AuthorsKnow
  <2>2. \A m \in Node : Unpushed(m, o)' => ~Unhandled(m, o)'
    BY <1>5, <1>10 DEF BookOf, AuthorsKnow
  <2>3. ASSUME NEW k \in 1..Len(feed'), NEW j \in 1..k - 1,
               feed'[k].ev.ob = o, feed'[j].ev.ob = o, feed'[j].src # feed'[k].src
        PROVE  j <= Handling(feed[k].src)'
    <3>1. j \in 1..Len(feed) /\ feed'[j] = feed[j]
      BY <1>1, <1>2, <2>3
    <3>2. CASE k \in 1..Len(feed)
      <4>1. feed'[k] = feed[k]
        BY <1>1, <3>2
      <4>2. j <= Handling(feed[k].src)
        BY <2>3, <3>1, <3>2, <4>1 DEF BookOf, AuthorsKnow
      <4>. QED
        BY <1>3, <4>1, <4>2
    <3>3. CASE k = Len(feed) + 1
      <4>1. ~(j \in Handling(n) + 1 .. Len(feed))
        BY <1>1, <1>7, <2>3, <3>1, <3>3 DEF Unhandled
      <4>2. j <= Handling(n)
        BY <1>2, <3>1, <4>1
      <4>. QED
        BY <1>1, <1>3, <3>3, <4>2
    <3>. QED
      BY <1>1, <1>2, <3>2, <3>3
  <2>. QED
    BY <2>1, <2>2, <2>3 DEF AuthorsKnow
<1>13. ResolvedIsPaid(o)'
  BY <1>1 DEF BookOf, ResolvedIsPaid
<1>14. ShownIsOwed(o)'
  <2>1. table'[o[1]][o].status # "none" => ~Unannounced(o)'
    BY <1>1 DEF BookOf, ShownIsOwed, Unannounced
  <2>2. ASSUME table'[o[1]][o].status # "none", NEW m \in Node, ~Unhandled(m, o)',
               Emitting(o)' => m = here'
        PROVE  Current(m, o)'
    <3>1. Current(m, o)
      BY <1>1, <1>4, <1>10, <2>2 DEF BookOf, ShownIsOwed
    <3>. QED
      BY <1>1, <3>1 DEF Current
  <2>3. ASSUME NEW m \in Node, m # o[1], table'[m][o].status # "none"
        PROVE  \E k \in 1..Handling(m)' : IsCreated(feed[k].ev, o)'
    <3>1. PICK k \in 1..Handling(m) : IsCreated(feed[k].ev, o)
      BY <1>1, <2>3 DEF BookOf, ShownIsOwed
    <3>2. k \in 1..Len(feed)
      BY <1>2
    <3>3. IsCreated(feed[k].ev, o)'
      BY <1>1, <3>1, <3>2 DEF IsCreated
    <3>. QED
      BY <1>3, <3>3
  <2>4. ASSUME NEW s \in Session, NEW d \in work'[s].todo, d.ob = o
        PROVE  d = [ob |-> o, weight |-> owed'[o]] /\ owed'[o] > 0 /\ ~Unhandled(here, o)'
    <3>1. PICK h \in Node : h = here
      BY <1>2
    <3>. QED
      BY <1>1, <1>10, <2>4, <3>1 DEF BookOf, ShownIsOwed
  <2>. QED
    BY <2>1, <2>2, <2>3, <2>4 DEF ShownIsOwed
<1>15. CreatedOnce(o)'
  <2>0. PICK b \in Node : b = o[1]
    BY <1>0
  <2>1. \A i \in 1..sent[b] : i \in 1..sent'[b]
    <3>1. sent[b] \in Nat /\ sent'[b] \in {sent[b], sent[b] + 1}
      BY <1>1, <1>2
    <3>. QED
      BY <3>1
  <2>2. \A e : IsCreated(e, o)' <=> IsCreated(e, o)
    BY DEF IsCreated
  <2>3. ASSUME IsCreated(ev, o)
        PROVE  b = n /\ \A k \in 1..Len(feed) : ~IsCreated(feed[k].ev, o)
    <3>1. sent[n] + 1 \in 1..Len(log[n])
      BY <1>1, <1>2
    <3>1a. Backed(n, ev)
      BY <1>1, <3>1 DEF DebtInv, IdInv, EventsHaveRows
    <3>2. b = n
      BY <1>1, <2>0, <2>3, <3>1a DEF Backed, IsCreated
    <3>3. ASSUME NEW k \in 1..Len(feed), IsCreated(feed[k].ev, o)
          PROVE  FALSE
      <4>1. PICK i \in 1..sent[n] : IsCreated(log[n][i], o)
        BY <2>0, <3>2, <3>3 DEF BookOf, CreatedOnce
      <4>2. i \in 1..Len(log[n]) /\ i # sent[n] + 1
        BY <1>2
      <4>3. i \in 1..Len(log[b]) /\ IsCreated(log[b][i], o)
        BY <3>2, <4>1, <4>2
      <4>4. sent[n] + 1 \in 1..Len(log[b]) /\ IsCreated(log[b][sent[n] + 1], o)
        BY <1>1, <2>3, <3>1, <3>2
      <4>5. CreatedOnce(o)
        BY <1>1 DEF BookOf
      <4>6. i = sent[n] + 1
        BY <2>0, <4>3, <4>4, <4>5 DEF CreatedOnce
      <4>. QED
        BY <4>2, <4>6
    <3>. QED
      BY <3>2, <3>3
  <2>4. ASSUME NEW k \in 1..Len(feed'), IsCreated(feed'[k].ev, o)
        PROVE  /\ \E i \in 1..sent'[b] : IsCreated(log'[b][i], o)
               /\ \A j \in 1..Len(feed') : IsCreated(feed'[j].ev, o) => j = k
    <3>1. \A j \in 1..Len(feed') : j \in 1..Len(feed) \/ j = Len(feed) + 1
      BY <1>1, <1>2
    <3>2. CASE IsCreated(ev, o)
      <4>1. \A j \in 1..Len(feed') : IsCreated(feed'[j].ev, o) => j = Len(feed) + 1
        BY <1>1, <2>3, <3>1, <3>2
      <4>2. sent[n] + 1 \in 1..sent'[n]
        BY <1>1, <1>2
      <4>. QED
        BY <1>1, <2>3, <2>4, <3>2, <4>1, <4>2
    <3>3. CASE ~IsCreated(ev, o)
      <4>1. \A j \in 1..Len(feed') : IsCreated(feed'[j].ev, o) => j \in 1..Len(feed) /\ IsCreated(feed[j].ev, o)
        BY <1>1, <3>1, <3>3
      <4>2. \E i \in 1..sent[b] : IsCreated(log[b][i], o)
        BY <2>0, <2>4, <4>1 DEF BookOf, CreatedOnce
      <4>. QED
        BY <1>1, <2>0, <2>1, <2>4, <4>1, <4>2 DEF BookOf, CreatedOnce
    <3>. QED
      BY <3>2, <3>3
  <2>5. \A i, j \in 1..Len(log'[b]) : IsCreated(log'[b][i], o) /\ IsCreated(log'[b][j], o) => i = j
    BY <1>1, <2>0 DEF BookOf, CreatedOnce
  <2>6. \A s \in Session : work'[s].emit # << >> /\ IsCreated(work'[s].emit[1], o) =>
            \A i \in 1..Len(log'[b]) : ~IsCreated(log'[b][i], o)
    BY <1>1, <2>0 DEF BookOf, CreatedOnce
  <2>. QED
    BY <2>0, <2>2, <2>4, <2>5, <2>6 DEF CreatedOnce
<1>16. table'[o[1]][o].status # "none" <=> \E i \in 1..Len(born') : born'[i] = o
  BY <1>1 DEF BookOf
<1>. QED
  BY <1>11, <1>12, <1>13, <1>14, <1>15, <1>16 DEF BookOf

LEMMA BooksPush ==
    ASSUME DebtInv, Shape, DebtInv', Shape', OneAtATime, Books, NEW n \in Node, Push(n)
    PROVE  OneAtATime' /\ Books'
<1>1. PICK o \in Obligation : \E ev : PushesOn(n, ev, o)
  BY PushShape
<1>2. PICK ev : PushesOn(n, ev, o)
  BY <1>1
<1>3. OneAtATime'
  BY <1>2, StillOne DEF PushesOn
<1>4. \A x \in Obligation : BookOf(x)'
  BY <1>2, PushOn, PushLeavesAlone, BookOfSame DEF Books
<1>. QED
  BY <1>3, <1>4 DEF Books

\* Session s emits ev, which is on o, at n.
EmitsOn(s, n, ev, o) ==
    /\ UNCHANGED <<here, table, sent, feed, cur, ran, born, owed, astray>>
    /\ n = here /\ work[s].emit # << >> /\ ev = work[s].emit[1] /\ o = ev.ob
    /\ Backed(n, ev)
    /\ Len(log'[n]) = Len(log[n]) + 1 /\ log'[n][Len(log[n]) + 1] = ev
    /\ \A i \in 1..Len(log[n]) : log'[n][i] = log[n][i]
    /\ \A m \in Node \ {n} : log'[m] = log[m]
    /\ work'[s].emit = << >> /\ work'[s].todo = work[s].todo
    /\ \A t \in Session \ {s} : work'[t] = work[t]

LEMMA EmitsOnShape ==
    ASSUME DebtInv, Shape, NEW s \in Session, EmitEvent(s)
    PROVE  \E n \in Node : \E o \in Obligation : \E ev : EmitsOn(s, n, ev, o)
<1>0. IdInv /\ TypeOK
  BY DEF DebtInv, IdInv
<1>1. PICK n \in Node : n = here /\ log' = [log EXCEPT ![n] = Append(log[n], work[s].emit[1])]
  BY <1>0, EmitShape
<1>2. UNCHANGED <<here, table, sent, feed, cur, ran, born, owed, astray>>
      /\ work[s].emit # << >> /\ work' = Set(s, work[s].todo, work[s].amount, << >>)
  BY <1>0, EmitShape DEF feedVars
<1>3. PICK ev : ev = work[s].emit[1]
  OBVIOUS
<1>4. Backed(n, ev)
  BY <1>0, <1>1, <1>2, <1>3 DEF IdInv, EventsHaveRows
<1>5. PICK o \in Obligation : o = ev.ob
  BY <1>4 DEF Backed
<1>6. /\ Len(log'[n]) = Len(log[n]) + 1 /\ log'[n][Len(log[n]) + 1] = ev
      /\ \A i \in 1..Len(log[n]) : log'[n][i] = log[n][i]
      /\ \A m \in Node \ {n} : log'[m] = log[m]
  <2>1. log' = [log EXCEPT ![n] = Append(log[n], ev)]
    BY <1>1, <1>3
  <2>. QED
    BY <2>1, LogAppended
<1>7. /\ work'[s].emit = << >> /\ work'[s].todo = work[s].todo
      /\ \A t \in Session \ {s} : work'[t] = work[t]
  BY <1>0, <1>2, WorkBecomes
<1>8. EmitsOn(s, n, ev, o)
  BY <1>1, <1>2, <1>3, <1>4, <1>5, <1>6, <1>7 DEF EmitsOn
<1>. QED
  BY <1>8

LEMMA EmitLeavesAlone ==
    ASSUME DebtInv, Shape, DebtInv', Shape', NEW s \in Session, NEW n \in Node, NEW ev, NEW o,
           EmitsOn(s, n, ev, o), NEW x, x # o
    PROVE  LeavesAlone(x)
<1>1. /\ UNCHANGED <<here, table, sent, feed, cur, ran, born, owed, astray>>
      /\ work[s].emit[1].ob # x
      /\ Len(log'[n]) = Len(log[n]) + 1 /\ log'[n][Len(log[n]) + 1].ob # x
      /\ \A i \in 1..Len(log[n]) : log'[n][i] = log[n][i]
      /\ \A m \in Node \ {n} : log'[m] = log[m]
      /\ work'[s].emit = << >> /\ work'[s].todo = work[s].todo
      /\ \A t \in Session \ {s} : work'[t] = work[t]
  BY DEF EmitsOn
<1>2. /\ Len(feed) \in Nat
      /\ \A m \in Node : Len(log[m]) \in Nat /\ sent[m] \in Nat /\ sent[m] <= Len(log[m])
                         /\ Handling(m) \in Nat /\ Handling(m) <= Len(feed)
  BY CountsAreNat
<1>3. ASSUME NEW m \in Node
      PROVE  /\ Len(log'[m]) >= Len(log[m])
             /\ \A i \in 1..Len(log[m]) : log'[m][i] = log[m][i]
             /\ \A i \in Len(log[m]) + 1 .. Len(log'[m]) : log'[m][i].ob # x
  <2>1. CASE m = n
    <3>1. Len(log[n]) \in Nat /\ \A i \in Len(log[n]) + 1 .. Len(log'[n]) : i = Len(log[n]) + 1
      BY <1>1, <1>2
    <3>. QED
      BY <1>1, <2>1, <3>1
  <2>2. CASE m # n
    BY <1>1, <1>2, <2>2
  <2>. QED
    BY <2>1, <2>2
<1>4. ASSUME NEW m \in Node
      PROVE  /\ sent'[m] >= sent[m] /\ sent'[m] <= Len(log[m])
             /\ \A i \in sent[m] + 1 .. sent'[m] : log[m][i].ob # x
             /\ Handling(m)' >= Handling(m) /\ Handling(m)' <= Len(feed)
             /\ \A k \in Handling(m) + 1 .. Handling(m)' : feed[k].src = m \/ feed[k].ev.ob # x
  <2>1. Handling(m)' = Handling(m) /\ sent'[m] = sent[m]
    BY <1>1, HandlingSame
  <2>. QED
    BY <1>2, <2>1
<1>5. /\ Len(feed') >= Len(feed)
      /\ \A k \in 1..Len(feed) : feed'[k] = feed[k]
      /\ \A k \in Len(feed) + 1 .. Len(feed') : feed'[k].ev.ob # x
  BY <1>1, <1>2
<1>6. Born(x)' <=> Born(x)
  BY <1>1 DEF Born
<1>. QED
  BY <1>1, <1>3, <1>4, <1>5, <1>6 DEF LeavesAlone

\* The emitted event is the latest on o, and its author has handled the others.
LEMMA EmitOn ==
    ASSUME DebtInv, Shape, DebtInv', Shape', OneAtATime, NEW s \in Session, NEW n \in Node, NEW ev,
           NEW o \in Obligation, EmitsOn(s, n, ev, o), BookOf(o)
    PROVE  BookOf(o)'
<1>0. o[1] \in Node
  BY ObligationIsPair
<1>1. /\ UNCHANGED <<here, table, sent, feed, cur, ran, born, owed, astray>>
      /\ n = here /\ work[s].emit # << >> /\ ev = work[s].emit[1] /\ o = ev.ob
      /\ Backed(n, ev)
      /\ Len(log'[n]) = Len(log[n]) + 1 /\ log'[n][Len(log[n]) + 1] = ev
      /\ \A i \in 1..Len(log[n]) : log'[n][i] = log[n][i]
      /\ \A m \in Node \ {n} : log'[m] = log[m]
      /\ work'[s].emit = << >> /\ work'[s].todo = work[s].todo
      /\ \A t \in Session \ {s} : work'[t] = work[t]
  BY DEF EmitsOn
<1>2. /\ Len(feed) \in Nat
      /\ \A m \in Node : Len(log[m]) \in Nat /\ sent[m] \in Nat /\ sent[m] <= Len(log[m])
                         /\ Handling(m) \in Nat /\ Handling(m) <= Len(feed)
  BY CountsAreNat
<1>2a. Len(log[n]) \in Nat /\ sent[n] \in Nat /\ sent[n] <= Len(log[n])
  BY <1>2
<1>2b. \A i \in 1..Len(log'[n]) : i \in 1..Len(log[n]) \/ i = Len(log[n]) + 1
  BY <1>1, <1>2a
<1>3. \A m : Handling(m)' = Handling(m)
  BY <1>1, HandlingSame
<1>4. Emitting(o) /\ ~Emitting(o)'
  <2>1. work[s] # Free
    BY <1>1, FreeIs
  <2>2. \A t \in Session : work'[t].emit = << >>
    BY <1>1, <2>1, OthersIdle
  <2>. QED
    BY <1>1, <2>2 DEF Emitting
<1>4a. \A t \in Session : work'[t].emit = << >>
  <2>1. work[s] # Free
    BY <1>1, FreeIs
  <2>. QED
    BY <1>1, <2>1, OthersIdle
<1>5. ~Unhandled(n, o)
  BY <1>1, <1>4 DEF BookOf, AuthorsKnow
<1>6. \A m \in Node \ {n} : ~Unpushed(m, o) /\ ~Unpushed(m, o)'
  <2>1. TAKE m \in Node \ {n}
  <2>2. ~Unpushed(m, o)
    BY <1>5 DEF Unhandled
  <2>. QED
    BY <1>1, <2>2 DEF Unpushed
<1>7. Unpushed(n, o)'
  <2>1. Len(log[n]) + 1 \in sent'[n] + 1 .. Len(log'[n])
    BY <1>1, <1>2a
  <2>. QED
    BY <1>1, <2>1 DEF Unpushed
<1>8. ~Unhandled(n, o)' /\ \A m \in Node \ {n} : Unhandled(m, o)'
  <2>1. \A k \in Handling(n) + 1 .. Len(feed) : ~(feed[k].src # n /\ feed[k].ev.ob = o)
    BY <1>5 DEF Unhandled
  <2>2. ~Unhandled(n, o)'
    BY <1>1, <1>3, <1>6, <2>1 DEF Unhandled
  <2>3. \A m \in Node \ {n} : Unhandled(m, o)'
    BY <1>7 DEF Unhandled
  <2>. QED
    BY <2>2, <2>3
<1>9. Carries(ev)
  BY <1>1 DEF BookOf, LatestCarries
<1>10. Carries(ev)'
  BY <1>1, <1>9 DEF Carries
<1>11. LatestCarries(o)'
  <2>1. ASSUME NEW m \in Node, NEW i \in sent'[m] + 1 .. Len(log'[m]),
               log'[m][i].ob = o, \A j \in i + 1 .. Len(log'[m]) : log'[m][j].ob # o
        PROVE  Carries(log[m][i])'
    <3>1. m = n
      BY <1>6, <2>1 DEF Unpushed
    <3>2. i = Len(log[n]) + 1
      <4>1. ~(Len(log[n]) + 1 \in i + 1 .. Len(log'[n]))
        BY <1>1, <2>1, <3>1
      <4>. QED
        BY <1>1, <1>2a, <2>1, <3>1, <4>1
    <3>3. log'[m][i] = ev
      BY <1>1, <3>1, <3>2
    <3>. QED
      BY <1>10, <3>3
  <2>. QED
    BY <1>4a, <1>7, <2>1 DEF LatestCarries
<1>12. AuthorsKnow(o)'
  <2>1. \A m \in Node : Unpushed(m, o)' => ~Unhandled(m, o)'
    BY <1>6, <1>8
  <2>2. \A k \in 1..Len(feed') : \A j \in 1..k - 1 :
            feed'[k].ev.ob = o /\ feed'[j].ev.ob = o /\ feed'[j].src # feed'[k].src
                => j <= Handling(feed'[k].src)
    BY <1>1 DEF BookOf, AuthorsKnow
  <2>3. \A k : Handling(feed[k].src)' = Handling(feed'[k].src)
    BY <1>1 DEF Handling
  <2>. QED
    BY <1>4, <2>1, <2>2, <2>3 DEF AuthorsKnow
<1>13. ResolvedIsPaid(o)'
  <2>1. ASSUME NEW m \in Node, NEW i \in 1..Len(log'[m]),
               log'[m][i].ob = o, log'[m][i].type = "debt.resolved"
        PROVE  owed'[o] = 0
    <3>1. CASE m = n /\ i = Len(log[n]) + 1
      BY <1>1, <1>9, <2>1, <3>1 DEF Carries
    <3>2. CASE ~(m = n /\ i = Len(log[n]) + 1)
      <4>1. i \in 1..Len(log[m]) /\ log'[m][i] = log[m][i]
        BY <1>1, <1>2b, <2>1, <3>2
      <4>. QED
        BY <1>1, <2>1, <4>1 DEF BookOf, ResolvedIsPaid
    <3>. QED
      BY <3>1, <3>2
  <2>. QED
    BY <1>1, <2>1 DEF BookOf, ResolvedIsPaid
<1>14. ASSUME Unannounced(o)'
       PROVE  Unannounced(o)
  <2>1. \A i \in 1..Len(log[o[1]]) : ~IsCreated(log[o[1]][i], o)
    <3>1. CASE o[1] = n
      <4>1. \A i \in 1..Len(log[n]) : i \in 1..Len(log'[n])
        BY <1>1, <1>2a
      <4>. QED
        BY <1>1, <1>14, <3>1, <4>1 DEF Unannounced, IsCreated
    <3>2. CASE o[1] # n
      <4>1. log'[o[1]] = log[o[1]]
        BY <1>0, <1>1, <3>2
      <4>2. \A i \in 1..Len(log'[o[1]]) : ~IsCreated(log'[o[1]][i], o)
        BY <1>14 DEF Unannounced, IsCreated
      <4>. QED
        BY <4>1, <4>2
    <3>. QED
      BY <3>1, <3>2
  <2>2. ~IsCreated(ev, o)
    <3>. SUFFICES ASSUME IsCreated(ev, o) PROVE FALSE
      OBVIOUS
    <3>1. o[1] = n
      BY <1>1 DEF Backed, IsCreated
    <3>2. Len(log[n]) + 1 \in 1..Len(log'[n])
      BY <1>1, <1>2a
    <3>. QED
      BY <1>1, <1>14, <3>1, <3>2 DEF Unannounced, IsCreated
  <2>3. \A t \in Session : work[t].emit = << >> \/ ~IsCreated(work[t].emit[1], o)
    <3>1. TAKE t \in Session
    <3>2. CASE t = s
      BY <1>1, <2>2, <3>2
    <3>3. CASE t # s
      BY <1>1, <1>4a, <3>3
    <3>. QED
      BY <3>2, <3>3
  <2>. QED
    BY <2>1, <2>3 DEF Unannounced
<1>15. ShownIsOwed(o)'
  <2>1. table'[o[1]][o].status # "none" => ~Unannounced(o)'
    BY <1>1, <1>14 DEF BookOf, ShownIsOwed
  <2>2. ASSUME table'[o[1]][o].status # "none", NEW m \in Node, ~Unhandled(m, o)'
        PROVE  Current(m, o)'
    <3>1. m = n
      BY <1>8, <2>2
    <3>2. Current(n, o)
      BY <1>1, <1>5, <2>2 DEF BookOf, ShownIsOwed
    <3>. QED
      BY <1>1, <3>1, <3>2 DEF Current
  <2>3. \A m \in Node : m # o[1] /\ table'[m][o].status # "none" =>
            \E k \in 1..Handling(m)' : IsCreated(feed[k].ev, o)'
    BY <1>1, <1>3 DEF BookOf, ShownIsOwed, IsCreated
  <2>4. ASSUME NEW t \in Session, NEW d \in work'[t].todo, d.ob = o
        PROVE  d = [ob |-> o, weight |-> owed'[o]] /\ owed'[o] > 0 /\ ~Unhandled(here, o)'
    <3>1. d \in work[t].todo
      BY <1>1, <2>4
    <3>2. ~Unhandled(here, o)'
      BY <1>1, <1>8
    <3>. QED
      BY <1>1, <2>4, <3>1, <3>2 DEF BookOf, ShownIsOwed
  <2>. QED
    BY <2>1, <2>2, <2>3, <2>4 DEF ShownIsOwed
<1>16. CreatedOnce(o)'
  <2>0. PICK b \in Node : b = o[1]
    BY <1>0
  <2>1. \A e : IsCreated(e, o)' <=> IsCreated(e, o)
    BY DEF IsCreated
  <2>2. ASSUME IsCreated(ev, o)
        PROVE  b = n /\ \A i \in 1..Len(log[b]) : ~IsCreated(log[b][i], o)
    BY <1>1, <2>0, <2>2 DEF BookOf, CreatedOnce, Backed, IsCreated
  <2>3. ASSUME NEW i \in 1..Len(log'[b]), IsCreated(log'[b][i], o)
        PROVE  \/ i \in 1..Len(log[b]) /\ IsCreated(log[b][i], o)
               \/ b = n /\ i = Len(log[n]) + 1 /\ IsCreated(ev, o)
    <3>1. CASE b = n /\ i = Len(log[n]) + 1
      BY <1>1, <2>3, <3>1
    <3>2. CASE ~(b = n /\ i = Len(log[n]) + 1)
      <4>1. i \in 1..Len(log[b]) /\ log'[b][i] = log[b][i]
        BY <1>1, <1>2b, <2>3, <3>2
      <4>. QED
        BY <2>3, <4>1
    <3>. QED
      BY <3>1, <3>2
  <2>4. \A i, j \in 1..Len(log'[b]) : IsCreated(log'[b][i], o) /\ IsCreated(log'[b][j], o) => i = j
    BY <2>0, <2>2, <2>3 DEF BookOf, CreatedOnce
  <2>5. ASSUME NEW k \in 1..Len(feed), IsCreated(feed[k].ev, o)
        PROVE  /\ \E i \in 1..sent[b] : IsCreated(log'[b][i], o)
               /\ \A j \in 1..Len(feed) : IsCreated(feed[j].ev, o) => j = k
    <3>1. PICK i \in 1..sent[b] : IsCreated(log[b][i], o)
      BY <2>0, <2>5 DEF BookOf, CreatedOnce
    <3>2. i \in 1..Len(log[b])
      BY <1>2
    <3>3. log'[b][i] = log[b][i]
      BY <1>1, <3>2
    <3>. QED
      BY <2>0, <2>5, <3>1, <3>3 DEF BookOf, CreatedOnce
  <2>. QED
    BY <1>1, <1>4a, <2>0, <2>1, <2>4, <2>5 DEF CreatedOnce
<1>17. table'[o[1]][o].status # "none" <=> \E i \in 1..Len(born') : born'[i] = o
  BY <1>1 DEF BookOf
<1>. QED
  BY <1>11, <1>12, <1>13, <1>15, <1>16, <1>17 DEF BookOf

LEMMA BooksEmit ==
    ASSUME DebtInv, Shape, DebtInv', Shape', OneAtATime, Books, NEW s \in Session, EmitEvent(s)
    PROVE  OneAtATime' /\ Books'
<1>1. PICK n \in Node : \E o \in Obligation : \E ev : EmitsOn(s, n, ev, o)
  BY EmitsOnShape
<1>2. PICK o \in Obligation : \E ev : EmitsOn(s, n, ev, o)
  BY <1>1
<1>3. PICK ev : EmitsOn(s, n, ev, o)
  BY <1>2
<1>4. OneAtATime'
  <2>1. s \in Busy /\ \A t \in Session \ {s} : work'[t] = work[t]
    BY <1>3, FreeIs DEF EmitsOn, Busy
  <2>. QED
    BY <2>1, StillOne
<1>5. \A x \in Obligation : BookOf(x)'
  BY <1>3, EmitOn, EmitLeavesAlone, BookOfSame DEF Books
<1>. QED
  BY <1>4, <1>5 DEF Books

LEMMA HandlerMoves ==
    ASSUME DebtInv, Shape, NEW n \in Node, NEW k, NEW o, NEW st, NEW w, NEW su, NEW v,
           Handles(n, k, o, st, w, su, v), cur' = cur
    PROVE  /\ Handling(n) = k - 1 /\ Handling(n)' = k /\ k \in Nat
           /\ \A m \in Node \ {n} : Handling(m)' = Handling(m)
<1>1. k = cur[n] + 1 /\ ~ran[n] /\ ran' = [ran EXCEPT ![n] = TRUE]
  BY DEF Handles
<1>2. ran \in [Node -> BOOLEAN] /\ cur[n] \in Nat
  BY CountsAreNat DEF DebtInv, IdInv, TypeOK
<1>3. ran'[n] = TRUE /\ \A m \in Node \ {n} : ran'[m] = ran[m]
  BY <1>1, <1>2
<1>4. \A m : /\ Handling(m) = cur[m] + (IF ran[m] THEN 1 ELSE 0)
             /\ Handling(m)' = cur[m] + (IF ran'[m] THEN 1 ELSE 0)
  BY DEF Handling
<1>5. Handling(n) = k - 1 /\ Handling(n)' = k /\ k \in Nat
  BY <1>1, <1>2, <1>3, <1>4
<1>6. \A m \in Node \ {n} : Handling(m)' = Handling(m)
  BY <1>3, <1>4
<1>. QED
  BY <1>5, <1>6

LEMMA HandlerLeavesAlone ==
    ASSUME DebtInv, Shape, DebtInv', Shape', NEW n \in Node, NEW k, NEW o \in Obligation,
           NEW st, NEW w, NEW su, NEW v, Handles(n, k, o, st, w, su, v),
           UNCHANGED <<sessionVars, oseq, log, sent, feed, cur, astray, faults>>,
           NEW x \in Obligation, x # o
    PROVE  LeavesAlone(x)
<1>1. UNCHANGED <<here, born, work, owed>> /\ UNCHANGED <<log, sent, feed, born>>
  BY DEF sessionVars
<1>2. \A m \in Node : table'[m][x] = table[m][x]
  <2>1. TypeOK /\ table' = Written(n, o, su, v)
    BY DEF DebtInv, IdInv, Handles
  <2>. QED
    BY <2>1, OtherRows
<1>3. \A m \in Node :
               \/ Handling(m)' = Handling(m)
               \/ /\ Handling(m)' = Handling(m) + 1
                  /\ feed[Handling(m) + 1].src = m \/ feed[Handling(m) + 1].ev.ob # x
  <2>1. /\ Handling(n) = k - 1 /\ Handling(n)' = k /\ k \in Nat
        /\ \A m \in Node \ {n} : Handling(m)' = Handling(m)
    BY HandlerMoves
  <2>2. Handling(n)' = Handling(n) + 1 /\ Handling(n) + 1 = k
    BY <2>1
  <2>3. feed[k].ev.ob # x
    BY DEF Handles
  <2>. QED
    BY <2>1, <2>2, <2>3
<1>. QED
  BY <1>1, <1>2, <1>3, LeavesAloneQuietly

\* A handler on the latest event leaves the row with what is owed.
LEMMA HandlerShows ==
    ASSUME DebtInv, Shape, astray = {}, NEW n \in Node, NEW k \in 1..Len(feed), NEW o \in Obligation,
           NEW st, NEW w, NEW su, NEW v, Handles(n, k, o, st, w, su, v), BookOf(o),
           Handling(n) = k - 1, Carries(feed[k].ev), table[o[1]][o].status # "none",
           n # o[1] \/ feed[k].ev.type # "debt.created"
    PROVE  \/ su = "open" /\ v = owed[o] /\ owed[o] > 0
           \/ su = "resolved" /\ owed[o] = 0
<1>. PICK ev : ev = feed[k].ev
  OBVIOUS
<1>1. /\ o = ev.ob /\ table[n][o].status = st /\ table[n][o].weight = w
      /\ \/ ev.type = "debt.created" /\ st = "none" /\ su = "open" /\ v = ev.weight
         \/ ev.type = "debt.resolved" /\ st = "open" /\ su = "resolved" /\ v = w
         \/ ev.type = "debt.adjusted" /\ st = "open" /\ su = "open" /\ v = ev.weight
         \/ /\ su = st /\ v = w
            /\ ~(ev.type = "debt.created" /\ st = "none")
            /\ ~(ev.type \in {"debt.resolved", "debt.adjusted"} /\ st = "open")
  BY DEF Handles
<1>2. \/ ev.type \in {"debt.created", "debt.adjusted"} /\ ev.weight = owed[o] /\ owed[o] > 0
      \/ ev.type = "debt.resolved" /\ owed[o] = 0
  BY <1>1 DEF Carries
<1>3. st \in {"none", "open", "resolved"}
  BY <1>1 DEF DebtInv, IdInv, TypeOK, RowsOK
<1>4. Len(feed) \in Nat
  BY CountsAreNat
<1>5. CASE st = "none"
  <2>1. ev.type = "debt.created"
    <3>. SUFFICES ASSUME ev.type # "debt.created" PROVE FALSE
      OBVIOUS
    <3>1. ~Unannounced(o)
      BY DEF BookOf, ShownIsOwed
    <3>2. PICK j \in 1..k - 1 : IsCreated(feed[j].ev, o)
      BY <1>1, <3>1 DEF DebtInv, CreatedFirst
    <3>3. j \in 1..Handling(n)
      BY <3>2
    <3>4. KeptAt(n, j)
      BY <3>3, HandledIsInFeed DEF DebtInv
    <3>. QED
      BY <1>1, <1>5, <3>2, <3>4 DEF KeptAt, IsCreated
  <2>. QED
    BY <1>1, <1>2, <1>5, <2>1
<1>6. CASE st = "open"
  <2>1. ev.type # "debt.created"
    <3>. SUFFICES ASSUME ev.type = "debt.created" PROVE FALSE
      OBVIOUS
    <3>1. n # o[1] /\ table[n][o].status # "none"
      BY <1>1, <1>6
    <3>2. PICK j \in 1..Handling(n) : IsCreated(feed[j].ev, o)
      BY <3>1 DEF BookOf, ShownIsOwed
    <3>3. j \in 1..Len(feed) /\ j # k
      BY <1>4, <3>2
    <3>4. IsCreated(feed[k].ev, o)
      BY <1>1 DEF IsCreated
    <3>. QED
      BY <3>2, <3>3, <3>4 DEF BookOf, CreatedOnce
  <2>. QED
    BY <1>1, <1>2, <1>6, <2>1
<1>7. CASE st = "resolved"
  <2>1. owed[o] = 0
    BY <1>1, <1>7 DEF BookOf, ResolvedIsPaid
  <2>. QED
    BY <1>1, <1>2, <1>7, <2>1
<1>. QED
  BY <1>3, <1>5, <1>6, <1>7

\* A node that has handled all the others' events on o now has handled the
\* latest one last.
LEMMA HandledLatest ==
    ASSUME DebtInv, Shape, NEW n \in Node, NEW k \in 1..Len(feed), NEW o \in Obligation, BookOf(o),
           Handling(n) = k - 1, feed[k].src # n, feed[k].ev.ob = o,
           \A m \in Node \ {n} : ~Unpushed(m, o),
           \A j \in k + 1 .. Len(feed) : ~(feed[j].src # n /\ feed[j].ev.ob = o),
           Emitting(o) => n = here
    PROVE  Carries(feed[k].ev)
<1>1. Len(feed) \in Nat
  BY CountsAreNat
<1>2. Unhandled(n, o)
  <2>1. k \in Handling(n) + 1 .. Len(feed)
    BY <1>1
  <2>. QED
    BY <2>1 DEF Unhandled
<1>3. ~Emitting(o)
  BY <1>2 DEF BookOf, AuthorsKnow
<1>4. \A m \in Node : ~Unpushed(m, o)
  BY <1>2 DEF BookOf, AuthorsKnow
<1>5. ASSUME NEW j \in k + 1 .. Len(feed), feed[j].ev.ob = o
      PROVE  FALSE
  <2>1. feed[j].src = n
    BY <1>5
  <2>2. j \in 1..Len(feed) /\ k \in 1..j - 1
    BY <1>1
  <2>3. k <= Handling(n)
    BY <1>5, <2>1, <2>2 DEF BookOf, AuthorsKnow
  <2>. QED
    BY <2>3
<1>. QED
  BY <1>3, <1>4, <1>5 DEF BookOf, LatestCarries

LEMMA HandlerOn ==
    ASSUME DebtInv, Shape, DebtInv', Shape', astray = {}, NEW n \in Node, NEW k \in 1..Len(feed),
           NEW o \in Obligation, NEW st, NEW w, NEW su, NEW v, Handles(n, k, o, st, w, su, v),
           UNCHANGED <<sessionVars, oseq, log, sent, feed, cur, astray, faults>>, BookOf(o)
    PROVE  BookOf(o)'
<1>0. o[1] \in Node
  BY ObligationIsPair
<1>1. UNCHANGED <<here, born, work, owed, log, sent, feed, oseq>>
  BY DEF sessionVars
<1>2. /\ k = cur[n] + 1 /\ o = feed[k].ev.ob /\ feed[k].src # n
      /\ table[n][o].status = st
      /\ table' = Written(n, o, su, v)
  BY DEF Handles
<1>3. /\ table'[n][o].status = su /\ table'[n][o].weight = v
      /\ \A m \in Node : \A x \in Obligation : m # n \/ x # o => table'[m][x] = table[m][x]
  <2>1. TypeOK /\ table' = Written(n, o, su, v)
    BY <1>2 DEF DebtInv, IdInv
  <2>2. table'[n][o].status = su /\ table'[n][o].weight = v
    BY <2>1, RowIs
  <2>3. \A m \in Node : \A x \in Obligation : m # n \/ x # o => table'[m][x] = table[m][x]
    BY <2>1, OtherRows
  <2>. QED
    BY <2>2, <2>3
<1>4. /\ Handling(n) = k - 1 /\ Handling(n)' = k /\ k \in Nat
      /\ \A m \in Node \ {n} : Handling(m)' = Handling(m)
  BY HandlerMoves
<1>5. /\ Len(feed) \in Nat /\ here \in Node /\ \A m \in Node : Handling(m) \in Nat /\ Handling(m)' \in Nat
  BY CountsAreNat, CountsStayNat
<1>6. \A m \in Node : Handling(m)' >= Handling(m)
  BY <1>4, <1>5
<1>7. Backed(feed[k].src, feed[k].ev) /\ table[o[1]][o].status # "none"
  BY <1>2, FeedBacked DEF DebtInv
<1>8. n # o[1] \/ feed[k].ev.type # "debt.created"
  BY <1>2, <1>7 DEF Backed
<1>9. /\ Emitting(o)' <=> Emitting(o)
      /\ \A m \in Node : Unpushed(m, o)' <=> Unpushed(m, o)
      /\ Unannounced(o)' <=> Unannounced(o)
      /\ \A e : (Carries(e)' <=> Carries(e)) /\ (IsCreated(e, o)' <=> IsCreated(e, o))
  BY <1>1 DEF Emitting, Unpushed, Unannounced, Carries, IsCreated
<1>10. ASSUME NEW m \in Node, Unhandled(m, o)'
       PROVE  Unhandled(m, o)
  <2>1. Handling(m) \in Nat /\ Handling(m)' \in Nat /\ Handling(m)' >= Handling(m)
    BY <1>5, <1>6
  <2>2. \A j \in Handling(m)' + 1 .. Len(feed) : j \in Handling(m) + 1 .. Len(feed)
    BY <1>5, <2>1
  <2>. QED
    BY <1>1, <1>9, <1>10, <2>2 DEF Unhandled
<1>11. table'[o[1]][o].status # "none"
  <2>1. o[1] # n => table'[o[1]][o] = table[o[1]][o]
    BY <1>0, <1>3
  <2>2. o[1] = n => su # "none"
    BY <1>2, <1>7 DEF Handles
  <2>. QED
    BY <1>3, <1>7, <2>1, <2>2
<1>12. LatestCarries(o)'
  BY <1>1, <1>9 DEF BookOf, LatestCarries
<1>13. AuthorsKnow(o)'
  <2>1. Emitting(o)' => ~Unhandled(here, o)'
    <3>1. PICK h \in Node : h = here
      BY <1>5
    <3>. QED
      BY <1>1, <1>9, <1>10, <3>1 DEF BookOf, AuthorsKnow
  <2>2. \A m \in Node : Unpushed(m, o)' => ~Unhandled(m, o)'
    BY <1>9, <1>10 DEF BookOf, AuthorsKnow
  <2>3. ASSUME NEW i \in 1..Len(feed'), NEW j \in 1..i - 1,
               feed'[i].ev.ob = o, feed'[j].ev.ob = o, feed'[j].src # feed'[i].src
        PROVE  j <= Handling(feed[i].src)'
    <3>1. j <= Handling(feed[i].src)
      BY <1>1, <2>3 DEF BookOf, AuthorsKnow
    <3>2. PICK m \in Node : m = feed[i].src
      BY <1>1, FeedBacked DEF DebtInv
    <3>3. Handling(feed[i].src)' = Handling(m)'
      BY <1>1, <3>2
    <3>4. Handling(m) \in Nat /\ Handling(m)' \in Nat /\ Handling(m)' >= Handling(m) /\ j \in Int
      BY <1>5, <1>6
    <3>5. j <= Handling(m)'
      BY <3>1, <3>2, <3>4
    <3>. QED
      BY <3>3, <3>5
  <2>. QED
    BY <2>1, <2>2, <2>3 DEF AuthorsKnow
<1>14. ResolvedIsPaid(o)'
  <2>1. su = "resolved" => owed[o] = 0
    <3>1. CASE st = "resolved"
      BY <1>2, <3>1 DEF BookOf, ResolvedIsPaid
    <3>2. CASE st # "resolved" /\ su = "resolved"
      <4>1. feed[k].ev.type = "debt.resolved"
        BY <3>2 DEF Handles
      <4>2. PICK i \in 1..Len(log[feed[k].src]) : feed[k].ev = log[feed[k].src][i]
        BY DEF DebtInv, FeedIsPushed
      <4>3. feed[k].src \in Node
        BY FeedBacked DEF DebtInv
      <4>. QED
        BY <1>2, <4>1, <4>2, <4>3 DEF BookOf, ResolvedIsPaid
    <3>. QED
      BY <3>1, <3>2
  <2>2. \A m \in Node : table'[m][o].status = "resolved" => owed[o] = 0
    <3>1. TAKE m \in Node
    <3>2. CASE m = n
      BY <1>3, <2>1, <3>2
    <3>3. CASE m # n
      BY <1>3, <3>3 DEF BookOf, ResolvedIsPaid
    <3>. QED
      BY <3>2, <3>3
  <2>. QED
    BY <1>1, <2>2 DEF BookOf, ResolvedIsPaid
<1>15. ShownIsOwed(o)'
  <2>1. ~Unannounced(o)'
    BY <1>7, <1>9 DEF BookOf, ShownIsOwed
  <2>2. ASSUME NEW m \in Node, ~Unhandled(m, o)', Emitting(o)' => m = here'
        PROVE  Current(m, o)'
    <3>1. CASE m # n
      <4>1. Handling(m)' = Handling(m)
        BY <1>4, <3>1
      <4>2. ~Unhandled(m, o)
        BY <1>1, <1>9, <2>2, <4>1 DEF Unhandled
      <4>3. Current(m, o)
        BY <1>1, <1>7, <1>9, <2>2, <4>2 DEF BookOf, ShownIsOwed
      <4>4. table'[m][o] = table[m][o]
        BY <1>3, <3>1
      <4>. QED
        BY <1>1, <4>3, <4>4 DEF Current
    <3>2. CASE m = n
      <4>1. \A i \in Node \ {n} : ~Unpushed(i, o)
        BY <1>9, <2>2, <3>2 DEF Unhandled
      <4>2. \A j \in k + 1 .. Len(feed) : ~(feed[j].src # n /\ feed[j].ev.ob = o)
        BY <1>1, <1>4, <2>2, <3>2 DEF Unhandled
      <4>3. Carries(feed[k].ev)
        BY <1>1, <1>2, <1>4, <1>9, <2>2, <3>2, <4>1, <4>2, HandledLatest
      <4>4. \/ su = "open" /\ v = owed[o] /\ owed[o] > 0
            \/ su = "resolved" /\ owed[o] = 0
        BY <1>4, <1>7, <1>8, <4>3, HandlerShows
      <4>. QED
        BY <1>1, <1>3, <3>2, <4>4 DEF Current
    <3>. QED
      BY <3>1, <3>2
  <2>3. ASSUME NEW m \in Node, m # o[1], table'[m][o].status # "none"
        PROVE  \E j \in 1..Handling(m)' : IsCreated(feed[j].ev, o)'
    <3>1. CASE table[m][o].status # "none"
      <4>1. PICK j \in 1..Handling(m) : IsCreated(feed[j].ev, o)
        BY <2>3, <3>1 DEF BookOf, ShownIsOwed
      <4>2. Handling(m) \in Nat /\ Handling(m)' \in Nat /\ Handling(m)' >= Handling(m)
        BY <1>5, <1>6
      <4>3. j \in 1..Handling(m)'
        BY <4>2
      <4>. QED
        BY <1>1, <1>9, <4>1, <4>3
    <3>2. CASE table[m][o].status = "none"
      <4>1. m = n
        BY <1>3, <2>3, <3>2
      <4>2. st = "none" /\ su # "none"
        BY <1>2, <1>3, <2>3, <3>2, <4>1
      <4>3. feed[k].ev.type = "debt.created"
        BY <4>2 DEF Handles
      <4>4. k \in 1..Handling(m)' /\ IsCreated(feed[k].ev, o)
        BY <1>2, <1>4, <4>1, <4>3 DEF IsCreated
      <4>. QED
        BY <1>1, <1>9, <4>4
    <3>. QED
      BY <3>1, <3>2
  <2>4. ASSUME NEW s \in Session, NEW d \in work'[s].todo, d.ob = o
        PROVE  d = [ob |-> o, weight |-> owed'[o]] /\ owed'[o] > 0 /\ ~Unhandled(here, o)'
    <3>1. PICK h \in Node : h = here
      BY <1>5
    <3>. QED
      BY <1>1, <1>10, <2>4, <3>1 DEF BookOf, ShownIsOwed
  <2>. QED
    BY <2>1, <2>2, <2>3, <2>4 DEF ShownIsOwed
<1>16. CreatedOnce(o)'
  BY <1>1, <1>9 DEF BookOf, CreatedOnce
<1>17. table'[o[1]][o].status # "none" <=> \E i \in 1..Len(born') : born'[i] = o
  BY <1>1, <1>7, <1>11 DEF BookOf
<1>. QED
  BY <1>12, <1>13, <1>14, <1>15, <1>16, <1>17 DEF BookOf

LEMMA BooksHandler ==
    ASSUME DebtInv, Shape, DebtInv', Shape', astray = {}, OneAtATime, Books, NEW n \in Node, HandlerRuns(n)
    PROVE  OneAtATime' /\ Books'
<1>1. UNCHANGED <<sessionVars, oseq, log, sent, feed, cur, astray, faults>>
  BY HandlerShape
<1>2. PICK k \in 1..Len(feed) : \E o \in Obligation : \E st, w, su, v : Handles(n, k, o, st, w, su, v)
  BY HandlerShape
<1>3. PICK o \in Obligation : \E st, w, su, v : Handles(n, k, o, st, w, su, v)
  BY <1>2
<1>4. PICK st, w, su, v : Handles(n, k, o, st, w, su, v)
  BY <1>3, Zenon
<1>5. OneAtATime'
  BY <1>1, StillOne DEF sessionVars
<1>6. BookOf(o)'
  BY <1>1, <1>4, HandlerOn DEF Books
<1>7. ASSUME NEW x \in Obligation, x # o
      PROVE  BookOf(x)'
  <2>1. LeavesAlone(x)
    BY <1>1, <1>4, <1>7, HandlerLeavesAlone
  <2>. QED
    BY <2>1, BookOfSame DEF Books
<1>. QED
  BY <1>5, <1>6, <1>7 DEF Books

\* A new obligation o of weight w at n.
OpensOn(s, n, o, w) ==
    /\ UNCHANGED <<here, log, sent, feed, cur, ran>>
    /\ n = here /\ o[1] = n /\ w > 0
    /\ \A m \in Node : table[m][o].status = "none"
    /\ born' = Append(born, o)
    /\ table'[n][o].status = "open" /\ table'[n][o].weight = w
    /\ \A m \in Node : \A x \in Obligation : m # n \/ x # o => table'[m][x] = table[m][x]
    /\ owed'[o] = w /\ \A x \in Obligation \ {o} : owed'[x] = owed[x]
    /\ work'[s].todo = {} /\ work'[s].emit # << >>
    /\ work'[s].emit[1].type = "debt.created" /\ work'[s].emit[1].ob = o
    /\ work'[s].emit[1].weight = w
    /\ \A t \in Session \ {s} : work'[t] = work[t]

LEMMA OpensOnShape ==
    ASSUME DebtInv, Shape, AmountsInv, NEW s \in Session, NEW o, NEW w, w > 0, Opens(s, o, w),
           UNCHANGED <<here, log, feedVars>>
    PROVE  o \in Obligation /\ \E n \in Node : OpensOn(s, n, o, w)
<1>1. PICK n \in Node : n = here
  BY CountsAreNat
<1>2. TypeOK /\ IdInv /\ o \in Obligation /\ table' = Written(n, o, "open", w)
  BY <1>1 DEF DebtInv, IdInv, Opens
<1>3. table'[n][o].status = "open" /\ table'[n][o].weight = w
  BY <1>2, RowIs
<1>4. \A m \in Node : \A x \in Obligation : m # n \/ x # o => table'[m][x] = table[m][x]
  BY <1>2, OtherRows
<1>5. o = <<n, oseq[n] + 1>> /\ o[1] = n
  BY <1>1 DEF Opens, Opened
<1>6. table[n][o].status = "none"
  <2>1. oseq[n] \in Nat /\ o[2] = oseq[n] + 1 /\ o[2] \in 1..MaxDebts
    BY <1>2, <1>5, ObligationIsPair DEF TypeOK
  <2>2. ~(o[2] <= oseq[n])
    BY <2>1
  <2>3. table[n][<<n, o[2]>>].status = "none"
    BY <1>2, <2>1, <2>2 DEF IdInv, IdsAreFresh
  <2>. QED
    BY <1>5, <2>1, <2>3
<1>7. \A m \in Node : table[m][o].status = "none"
  BY <1>2, <1>5, <1>6, SourceHasRow
<1>8. owed'[o] = w /\ \A x \in Obligation \ {o} : owed'[x] = owed[x]
  <2>1. owed \in [Obligation -> Int] /\ owed' = [owed EXCEPT ![o] = w]
    BY AmountsParts DEF Opens
  <2>. QED
    BY <1>2, <2>1
<1>9. PICK em : em = <<Event("debt.created", o, w)>>
  OBVIOUS
<1>10. em # << >> /\ em[1].type = "debt.created" /\ em[1].ob = o /\ em[1].weight = w
  BY <1>9, EventOf
<1>11. work'[s].todo = {} /\ work'[s].emit = em /\ \A t \in Session \ {s} : work'[t] = work[t]
  <2>1. work' = Set(s, {}, 0, em)
    BY <1>9 DEF Opens
  <2>. QED
    BY <1>2, <2>1, WorkBecomes
<1>12. born' = Append(born, o)
  BY DEF Opens
<1>13. OpensOn(s, n, o, w)
  BY <1>1, <1>3, <1>4, <1>5, <1>7, <1>8, <1>10, <1>11, <1>12 DEF OpensOn, feedVars
<1>. QED
  BY <1>2, <1>13

LEMMA BornGrows ==
    ASSUME DebtInv, NEW o \in Obligation, born' = Append(born, o), NEW x
    PROVE  Born(x)' <=> (Born(x) \/ x = o)
<1>1. born \in Seq(Obligation)
  BY DEF DebtInv, IdInv, TypeOK
<1>2. /\ Len(born) \in Nat /\ Len(born') = Len(born) + 1 /\ born'[Len(born) + 1] = o
      /\ \A i \in 1..Len(born) : born'[i] = born[i]
  BY <1>1
<1>3. \A i \in 1..Len(born') : i \in 1..Len(born) \/ i = Len(born) + 1
  BY <1>2
<1>4. Len(born) + 1 \in 1..Len(born') /\ \A i \in 1..Len(born) : i \in 1..Len(born')
  BY <1>2
<1>. QED
  BY <1>2, <1>3, <1>4 DEF Born

LEMMA OpenLeavesAlone ==
    ASSUME DebtInv, Shape, DebtInv', Shape', OneAtATime, NEW s \in Session, NEW n \in Node,
           NEW o \in Obligation, NEW w, OpensOn(s, n, o, w), work[s] = Free,
           NEW x \in Obligation, x # o
    PROVE  LeavesAlone(x)
<1>1. /\ UNCHANGED <<here, log, sent, feed, cur, ran>>
      /\ \A m \in Node : table'[m][x] = table[m][x]
      /\ owed'[x] = owed[x] /\ born' = Append(born, o)
      /\ work'[s].todo = {} /\ work'[s].emit[1].ob = o
      /\ \A t \in Session \ {s} : work'[t] = work[t]
  BY DEF OpensOn
<1>2. work[s].emit = << >>
  BY FreeIs
<1>3. \A m \in Node : Handling(m)' = Handling(m)
  BY <1>1, HandlingSame
<1>4. Born(x)' <=> Born(x)
  BY <1>1, BornGrows
<1>5. \A t \in Session :
         /\ \/ work'[t].emit = work[t].emit
            \/ /\ work[t].emit = << >> \/ work[t].emit[1].ob # x
               /\ work'[t].emit = << >> \/ work'[t].emit[1].ob # x
         /\ \A d \in work'[t].todo : d.ob = x => d \in work[t].todo
  BY <1>1, <1>2
<1>6. /\ Len(feed) \in Nat
      /\ \A m \in Node : Len(log[m]) \in Nat /\ sent[m] \in Nat /\ sent[m] <= Len(log[m])
                         /\ Handling(m) \in Nat /\ Handling(m) <= Len(feed)
  BY CountsAreNat
<1>7. \A m \in Node :
         /\ Len(log'[m]) >= Len(log[m])
         /\ \A i \in 1..Len(log[m]) : log'[m][i] = log[m][i]
         /\ \A i \in Len(log[m]) + 1 .. Len(log'[m]) : log'[m][i].ob # x
         /\ sent'[m] >= sent[m] /\ sent'[m] <= Len(log[m])
         /\ \A i \in sent[m] + 1 .. sent'[m] : log[m][i].ob # x
         /\ Handling(m)' >= Handling(m) /\ Handling(m)' <= Len(feed)
         /\ \A k \in Handling(m) + 1 .. Handling(m)' : feed[k].src = m \/ feed[k].ev.ob # x
  BY <1>1, <1>3, <1>6
<1>8. /\ Len(feed') >= Len(feed)
      /\ \A k \in 1..Len(feed) : feed'[k] = feed[k]
      /\ \A k \in Len(feed) + 1 .. Len(feed') : feed'[k].ev.ob # x
  BY <1>1, <1>6
<1>. QED
  BY <1>1, <1>4, <1>5, <1>7, <1>8 DEF LeavesAlone

\* Nothing is said yet of an obligation without a row.
LEMMA NothingOn ==
    ASSUME DebtInv, Shape, NEW o \in Obligation, \A m \in Node : table[m][o].status = "none"
    PROVE  /\ \A m \in Node : \A i \in 1..Len(log[m]) : log[m][i].ob # o
           /\ \A k \in 1..Len(feed) : feed[k].ev.ob # o
           /\ \A s \in Session : /\ work[s].emit # << >> => work[s].emit[1].ob # o
                                 /\ \A d \in work[s].todo : d.ob # o
<1>1. here \in Node
  BY CountsAreNat
<1>2. IdInv /\ FeedIsPushed
  BY DEF DebtInv
<1>3. \A m \in Node : \A i \in 1..Len(log[m]) : log[m][i].ob # o
  BY <1>2 DEF IdInv, EventsHaveRows, Backed
<1>4. \A k \in 1..Len(feed) : feed[k].ev.ob # o
  <2>1. TAKE k \in 1..Len(feed)
  <2>2. feed[k].src \in Node /\ Backed(feed[k].src, feed[k].ev)
    BY <1>2, FeedBacked
  <2>. QED
    BY <2>2 DEF Backed
<1>5. \A s \in Session : /\ work[s].emit # << >> => work[s].emit[1].ob # o
                         /\ \A d \in work[s].todo : d.ob # o
  BY <1>1, <1>2 DEF IdInv, EventsHaveRows, Backed
<1>. QED
  BY <1>3, <1>4, <1>5

\* The new row is the only word on o, but for the event to emit.
LEMMA OpenOn ==
    ASSUME DebtInv, Shape, DebtInv', Shape', NEW s \in Session, NEW n \in Node,
           NEW o \in Obligation, NEW w, OpensOn(s, n, o, w)
    PROVE  BookOf(o)'
<1>1. /\ UNCHANGED <<here, log, sent, feed, cur, ran>>
      /\ n = here /\ o[1] = n /\ w > 0
      /\ \A m \in Node : table[m][o].status = "none"
      /\ born' = Append(born, o)
      /\ table'[n][o].status = "open" /\ table'[n][o].weight = w
      /\ \A m \in Node : m # n => table'[m][o] = table[m][o]
      /\ owed'[o] = w
      /\ work'[s].todo = {} /\ work'[s].emit # << >>
      /\ work'[s].emit[1].type = "debt.created" /\ work'[s].emit[1].ob = o
      /\ work'[s].emit[1].weight = w
      /\ \A t \in Session \ {s} : work'[t] = work[t]
  BY DEF OpensOn
<1>2. /\ \A m \in Node : \A i \in 1..Len(log[m]) : log[m][i].ob # o
      /\ \A k \in 1..Len(feed) : feed[k].ev.ob # o
      /\ \A t \in Session : /\ work[t].emit # << >> => work[t].emit[1].ob # o
                            /\ \A d \in work[t].todo : d.ob # o
  BY <1>1, NothingOn
<1>3. /\ Len(feed) \in Nat
      /\ \A m \in Node : Len(log[m]) \in Nat /\ sent[m] \in Nat /\ sent[m] <= Len(log[m])
                         /\ Handling(m) \in Nat /\ Handling(m) <= Len(feed)
  BY CountsAreNat
<1>4. \A t \in Session : work'[t].emit # << >> /\ work'[t].emit[1].ob = o => t = s
  BY <1>1, <1>2
<1>5. \A m \in Node : ~Unpushed(m, o)'
  <2>1. \A m \in Node : \A i \in sent[m] + 1 .. Len(log[m]) : i \in 1..Len(log[m])
    BY <1>3
  <2>. QED
    BY <1>1, <1>2, <2>1 DEF Unpushed
<1>6. \A m \in Node : Handling(m)' = Handling(m)
  BY <1>1, HandlingSame
<1>7. \A m \in Node : ~Unhandled(m, o)'
  <2>1. \A m \in Node : \A k \in Handling(m) + 1 .. Len(feed) : k \in 1..Len(feed)
    BY <1>3
  <2>2. \A m \in Node : \A k \in Handling(m)' + 1 .. Len(feed') : feed'[k].ev.ob # o
    BY <1>1, <1>2, <1>6, <2>1
  <2>. QED
    BY <1>5, <2>2 DEF Unhandled
<1>8. Emitting(o)'
  BY <1>1 DEF Emitting
<1>9. CreatedOnce(o)'
  BY <1>1, <1>2 DEF CreatedOnce, IsCreated
<1>10. LatestCarries(o)'
  <2>1. Carries(work[s].emit[1])'
    BY <1>1 DEF Carries
  <2>. QED
    BY <1>4, <1>8, <2>1 DEF LatestCarries
<1>11. AuthorsKnow(o)'
  <2>1. ~Unhandled(here, o)'
    BY <1>1, <1>7
  <2>2. \A m \in Node : Unpushed(m, o)' => ~Unhandled(m, o)'
    BY <1>7
  <2>. QED
    BY <1>1, <1>2, <2>1, <2>2 DEF AuthorsKnow
<1>12. ResolvedIsPaid(o)'
  BY <1>1, <1>2 DEF ResolvedIsPaid
<1>13. ShownIsOwed(o)'
  <2>1. ~Unannounced(o)'
    BY <1>1 DEF Unannounced, IsCreated
  <2>2. ASSUME NEW m \in Node, Emitting(o)' => m = here'
        PROVE  Current(m, o)'
    BY <1>1, <1>8, <2>2 DEF Current
  <2>3. \A m \in Node : m # o[1] => table'[m][o].status = "none"
    BY <1>1
  <2>4. \A t \in Session : \A d \in work'[t].todo : d.ob # o
    BY <1>1, <1>2
  <2>. QED
    BY <2>1, <2>2, <2>3, <2>4 DEF ShownIsOwed
<1>14. table'[o[1]][o].status # "none" <=> \E i \in 1..Len(born') : born'[i] = o
  <2>1. Born(o)'
    BY <1>1, BornGrows
  <2>. QED
    BY <1>1, <2>1 DEF Born
<1>. QED
  BY <1>9, <1>10, <1>11, <1>12, <1>13, <1>14 DEF BookOf

LEMMA BooksBuy ==
    ASSUME DebtInv, Shape, DebtInv', Shape', AmountsInv, astray' = {}, OneAtATime, Books,
           NEW s \in Session, NEW price \in Prices, Buy(s, price)
    PROVE  OneAtATime' /\ Books'
<1>. PICK c \in Nat : c = Consume(purse, price).consumed
  <2>1. price \in Int
    BY GoodsAssumption
  <2>. QED
    BY <2>1, ConsumeTyped, AmountsParts
<1>0. TypeOK
  BY DEF DebtInv, IdInv
<1>1. /\ work[s] = Free /\ UNCHANGED <<here, log, feedVars>>
      /\ \/ UNCHANGED <<table, oseq, born, work, owed, astray>>
         \/ ~(c >= price) /\ \E o : Opens(s, o, price - c)
  BY <1>0, BuyShape
<1>2. CASE UNCHANGED <<table, oseq, born, work, owed, astray>>
  <2>1. UNCHANGED <<log, sent, feed, born, owed, table>> /\ UNCHANGED <<here, work, cur, ran>>
    BY <1>1, <1>2 DEF feedVars
  <2>. QED
    BY <2>1, HandlingSame, BooksQuiet
<1>3. CASE ~(c >= price) /\ \E o : Opens(s, o, price - c)
  <2>1. PICK w : w = price - c /\ w > 0
    <3>1. price \in Int
      BY GoodsAssumption
    <3>. QED
      BY <1>3, <3>1
  <2>2. PICK o : Opens(s, o, w)
    BY <1>3, <2>1
  <2>3. o \in Obligation /\ \E n \in Node : OpensOn(s, n, o, w)
    BY <1>1, <2>1, <2>2, OpensOnShape
  <2>4. PICK n \in Node : OpensOn(s, n, o, w)
    BY <2>3
  <2>5. OneAtATime'
    <3>1. Overlaps(s) = {}
      BY <2>2 DEF Opens
    <3>2. \A t \in Session \ {s} : work'[t] = work[t]
      BY <2>4 DEF OpensOn
    <3>. QED
      BY <3>1, <3>2, BecomesOne
  <2>6. BookOf(o)'
    BY <2>3, <2>4, OpenOn
  <2>7. ASSUME NEW x \in Obligation, x # o
        PROVE  BookOf(x)'
    <3>1. LeavesAlone(x)
      BY <1>1, <2>3, <2>4, <2>7, OpenLeavesAlone
    <3>. QED
      BY <3>1, BookOfSame DEF Books
  <2>. QED
    BY <2>5, <2>6, <2>7 DEF Books
<1>. QED
  BY <1>1, <1>2, <1>3

\* A statement of a payment at n, which leaves u owed on o.
PaidOn(s, n, d, o, u) ==
    /\ UNCHANGED <<here, log, sent, feed, cur, ran, born>>
    /\ n = here /\ d \in work[s].todo /\ o = d.ob
    /\ work[s].emit = << >> /\ work[s] # Free
    /\ owed[o] > 0
    /\ table'[n][o].status # "none"
    /\ \/ table'[n][o].status = "open" /\ table'[n][o].weight = u /\ u > 0
       \/ table'[n][o].status = "resolved" /\ u = 0
    /\ \A m \in Node : \A x \in Obligation : m # n \/ x # o => table'[m][x] = table[m][x]
    /\ owed'[o] = u /\ \A x \in Obligation \ {o} : owed'[x] = owed[x]
    /\ work'[s].todo = work[s].todo \ {d} /\ work'[s].emit # << >>
    /\ work'[s].emit[1].ob = o
    /\ \/ work'[s].emit[1].type = "debt.adjusted" /\ work'[s].emit[1].weight = u /\ u > 0
       \/ work'[s].emit[1].type = "debt.resolved" /\ u = 0
    /\ \A t \in Session \ {s} : work'[t] = work[t]

\* The payment goes by a row that shows what is owed.
LEMMA PaidFromBook ==
    ASSUME DebtInv, Shape, AmountsInv, OneAtATime, Books, NEW s \in Session,
           NEW d \in work[s].todo, NEW o \in Obligation, d.ob = o, work[s].emit = << >>
    PROVE  /\ d.weight = owed[o] /\ owed[o] > 0 /\ owed[o] \in Int
           /\ table[here][o].status = "open" /\ table[here][o].weight = owed[o]
<1>1. d = [ob |-> o, weight |-> owed[o]] /\ owed[o] > 0 /\ ~Unhandled(here, o)
  BY DEF Books, BookOf, ShownIsOwed
<1>2. PICK n \in Node : n = here
  BY CountsAreNat
<1>3. table[n][o].status # "none"
  BY <1>2 DEF DebtInv, IdInv, EventsHaveRows
<1>4. table[o[1]][o].status # "none"
  BY <1>3, SourceHasRow DEF DebtInv
<1>5. ~Emitting(o)
  <2>1. work[s] # Free
    BY FreeIs
  <2>. QED
    BY <2>1, OthersIdle DEF Emitting
<1>6. Current(n, o)
  BY <1>1, <1>2, <1>4, <1>5 DEF Books, BookOf, ShownIsOwed
<1>7. owed[o] \in Int
  BY AmountsParts
<1>8. d.weight = owed[o]
  <2>1. [ob |-> o, weight |-> owed[o]].weight = owed[o]
    OBVIOUS
  <2>. QED
    BY <1>1, <2>1
<1>. QED
  BY <1>1, <1>2, <1>6, <1>7, <1>8 DEF Current

LEMMA PaidOnShape ==
    ASSUME DebtInv, Shape, AmountsInv, OneAtATime, Books, NEW s \in Session,
           PayResolves(s) \/ PayAdjusts(s)
    PROVE  \E n \in Node : \E o \in Obligation : \E d, u : PaidOn(s, n, d, o, u)
<1>0. IdInv /\ TypeOK
  BY DEF DebtInv, IdInv
<1>1. PICK d, o, x, a, st, v, type, w : Pays(s, d, o, x, a, st, v, type, w)
  BY <1>0, PaymentShape, Zenon
<1>2. UNCHANGED <<here, log, feedVars, born>>
  BY <1>0, PaymentShape
<1>3. PICK n \in Node : n = here
  BY CountsAreNat
<1>4. /\ work[s].emit = << >> /\ work[s].amount > 0
      /\ d \in work[s].todo /\ o \in Obligation /\ o = d.ob
      /\ table' = Written(n, o, st, v) /\ owed' = [owed EXCEPT ![o] = @ - x]
      /\ work' = Set(s, work[s].todo \ {d}, a, <<Event(type, o, w)>>)
  BY <1>1, <1>3, Zenon DEF Pays
<1>5. PICK c : c = owed[o]
  OBVIOUS
<1>6. /\ d.weight = c /\ c > 0 /\ c \in Int
      /\ table[n][o].status = "open" /\ table[n][o].weight = c
  BY <1>3, <1>4, <1>5, PaidFromBook
<1>7. work[s].amount \in Int
  BY AmountsParts DEF SessionAmounts
<1>8. PICK u : u = c - x
  OBVIOUS
<1>9. \/ type = "debt.resolved" /\ st = "resolved" /\ u = 0
      \/ type = "debt.adjusted" /\ st = "open" /\ v = u /\ w = u /\ u > 0
  <2>1. \/ /\ type = "debt.resolved" /\ st = "resolved" /\ x = d.weight
        \/ /\ type = "debt.adjusted" /\ st = table[n][o].status /\ v = table[n][o].weight - x
           /\ work[s].amount < d.weight /\ x = work[s].amount /\ w = d.weight - x
    BY <1>1, <1>3 DEF Pays
  <2>. QED
    BY <1>4, <1>6, <1>7, <1>8, <2>1
<1>10. table'[n][o].status = st /\ table'[n][o].weight = v
  <2>1. TypeOK /\ table' = Written(n, o, st, v)
    BY <1>0, <1>4
  <2>. QED
    BY <1>4, <2>1, RowIs
<1>11. \A m \in Node : \A y \in Obligation : m # n \/ y # o => table'[m][y] = table[m][y]
  BY <1>0, <1>4, OtherRows
<1>12. owed'[o] = u /\ \A y \in Obligation \ {o} : owed'[y] = owed[y]
  <2>1. owed \in [Obligation -> Int]
    BY AmountsParts
  <2>. QED
    BY <1>4, <1>5, <1>8, <2>1
<1>13. PICK em : em = <<Event(type, o, w)>>
  OBVIOUS
<1>14. em # << >> /\ em[1].type = type /\ em[1].ob = o /\ em[1].weight = w
  BY <1>13, EventOf
<1>15. work'[s].todo = work[s].todo \ {d} /\ work'[s].emit = em
       /\ \A t \in Session \ {s} : work'[t] = work[t]
  <2>1. work' = Set(s, work[s].todo \ {d}, a, em)
    BY <1>4, <1>13
  <2>. QED
    BY <1>0, <2>1, WorkBecomes
<1>16. work[s] # Free
  BY <1>4, FreeIs
<1>17. PaidOn(s, n, d, o, u)
  BY <1>2, <1>3, <1>4, <1>5, <1>6, <1>9, <1>10, <1>11, <1>12, <1>14, <1>15, <1>16 DEF PaidOn, feedVars
<1>. QED
  BY <1>4, <1>17

LEMMA PaidLeavesAlone ==
    ASSUME DebtInv, Shape, DebtInv', Shape', NEW s \in Session, NEW n \in Node, NEW o \in Obligation,
           NEW d, NEW u, PaidOn(s, n, d, o, u), NEW x \in Obligation, x # o
    PROVE  LeavesAlone(x)
<1>1. /\ UNCHANGED <<here, cur, ran>> /\ UNCHANGED <<log, sent, feed, born>>
      /\ \A m \in Node : table'[m][x] = table[m][x]
      /\ owed'[x] = owed[x]
  BY DEF PaidOn
<1>2. \A t \in Session :
         /\ \/ work'[t].emit = work[t].emit
            \/ /\ work[t].emit = << >> \/ work[t].emit[1].ob # x
               /\ work'[t].emit = << >> \/ work'[t].emit[1].ob # x
         /\ \A e \in work'[t].todo : e.ob = x => e \in work[t].todo
  BY DEF PaidOn
<1>. QED
  BY <1>1, <1>2, HandlingSame, LeavesAloneQuietly

LEMMA PaidOnBook ==
    ASSUME DebtInv, Shape, DebtInv', Shape', OneAtATime, NEW s \in Session, NEW n \in Node,
           NEW o \in Obligation, NEW d, NEW u, PaidOn(s, n, d, o, u), BookOf(o)
    PROVE  BookOf(o)'
<1>0. o[1] \in Node
  BY ObligationIsPair
<1>1. /\ UNCHANGED <<here, log, sent, feed, cur, ran, born>>
      /\ n = here /\ d \in work[s].todo /\ o = d.ob
      /\ work[s].emit = << >> /\ work[s] # Free
      /\ owed[o] > 0
      /\ table'[n][o].status # "none"
      /\ \/ table'[n][o].status = "open" /\ table'[n][o].weight = u /\ u > 0
         \/ table'[n][o].status = "resolved" /\ u = 0
      /\ \A m \in Node \ {n} : table'[m][o] = table[m][o]
      /\ owed'[o] = u
      /\ work'[s].todo = work[s].todo \ {d} /\ work'[s].emit # << >>
      /\ work'[s].emit[1].ob = o
      /\ \/ work'[s].emit[1].type = "debt.adjusted" /\ work'[s].emit[1].weight = u /\ u > 0
         \/ work'[s].emit[1].type = "debt.resolved" /\ u = 0
      /\ \A t \in Session \ {s} : work'[t] = work[t]
  BY DEF PaidOn
<1>2. \A t \in Session \ {s} : work[t].emit = << >> /\ work[t].todo = {}
  BY <1>1, OthersIdle
<1>3. /\ \A m \in Node : Unpushed(m, o)' <=> Unpushed(m, o)
      /\ \A m : Handling(m)' = Handling(m)
      /\ \A e : IsCreated(e, o)' <=> IsCreated(e, o)
  BY <1>1, HandlingSame DEF Unpushed, IsCreated
<1>4. \A m \in Node : Unhandled(m, o)' <=> Unhandled(m, o)
  BY <1>1, <1>3 DEF Unhandled
<1>5. ~Unhandled(n, o)
  BY <1>1 DEF BookOf, ShownIsOwed
<1>6. Emitting(o)'
  BY <1>1 DEF Emitting
<1>7. \A m \in Node : table[m][o].status # "resolved"
  BY <1>1 DEF BookOf, ResolvedIsPaid
<1>8. table[n][o].status # "none" /\ table[o[1]][o].status # "none" /\ table'[o[1]][o].status # "none"
  <2>1. table[n][o].status # "none"
    BY <1>1 DEF DebtInv, IdInv, EventsHaveRows
  <2>2. table[o[1]][o].status # "none"
    BY <2>1, SourceHasRow DEF DebtInv
  <2>3. table'[o[1]][o].status # "none"
    BY <1>0, <1>1, <2>2
  <2>. QED
    BY <2>1, <2>2, <2>3
<1>9. CreatedOnce(o)'
  <2>1. \A t \in Session : work'[t].emit # << >> => ~IsCreated(work'[t].emit[1], o)
    BY <1>1, <1>2 DEF IsCreated
  <2>. QED
    BY <1>1, <1>3, <2>1 DEF BookOf, CreatedOnce
<1>10. LatestCarries(o)'
  <2>1. Carries(work[s].emit[1])'
    BY <1>1 DEF Carries
  <2>2. \A t \in Session : work'[t].emit # << >> => t = s
    BY <1>1, <1>2
  <2>. QED
    BY <1>6, <2>1, <2>2 DEF LatestCarries
<1>11. AuthorsKnow(o)'
  <2>1. ~Unhandled(here, o)'
    BY <1>1, <1>4, <1>5
  <2>2. \A m \in Node : Unpushed(m, o)' => ~Unhandled(m, o)'
    BY <1>3, <1>4 DEF BookOf, AuthorsKnow
  <2>3. \A k \in 1..Len(feed') : \A j \in 1..k - 1 :
            feed'[k].ev.ob = o /\ feed'[j].ev.ob = o /\ feed'[j].src # feed'[k].src
                => j <= Handling(feed[k].src)
    BY <1>1 DEF BookOf, AuthorsKnow
  <2>4. \A k : Handling(feed[k].src)' = Handling(feed[k].src)
    BY <1>1 DEF Handling
  <2>. QED
    BY <2>1, <2>2, <2>3, <2>4 DEF AuthorsKnow
<1>12. ResolvedIsPaid(o)'
  <2>1. \A m \in Node : table'[m][o].status = "resolved" => owed'[o] = 0
    BY <1>1, <1>7
  <2>2. \A m \in Node : \A i \in 1..Len(log[m]) : ~(log[m][i].ob = o /\ log[m][i].type = "debt.resolved")
    BY <1>1 DEF BookOf, ResolvedIsPaid
  <2>. QED
    BY <1>1, <2>1, <2>2 DEF ResolvedIsPaid
<1>13. ShownIsOwed(o)'
  <2>1. ~Unannounced(o)'
    <3>. SUFFICES ASSUME Unannounced(o)' PROVE FALSE
      OBVIOUS
    <3>1. \A i \in 1..Len(log[o[1]]) : ~IsCreated(log[o[1]][i], o)
      BY <1>1, <1>3 DEF Unannounced, IsCreated
    <3>2. \A t \in Session : work[t].emit = << >>
      BY <1>1, <1>2
    <3>. QED
      BY <1>8, <3>1, <3>2 DEF Unannounced, BookOf, ShownIsOwed
  <2>2. ASSUME NEW m \in Node, Emitting(o)' => m = here'
        PROVE  Current(m, o)'
    BY <1>1, <1>6, <2>2 DEF Current
  <2>3. \A m \in Node : m # o[1] /\ table'[m][o].status # "none" =>
            \E k \in 1..Handling(m)' : IsCreated(feed[k].ev, o)'
    <3>1. \A m \in Node : table'[m][o].status # "none" => table[m][o].status # "none"
      BY <1>1, <1>8
    <3>. QED
      BY <1>1, <1>3, <3>1 DEF BookOf, ShownIsOwed
  <2>4. \A t \in Session : \A e \in work'[t].todo : e.ob # o
    <3>1. \A e \in work[s].todo : e.ob = o => e = d
      BY <1>1 DEF BookOf, ShownIsOwed
    <3>. QED
      BY <1>1, <1>2, <3>1
  <2>. QED
    BY <2>1, <2>2, <2>3, <2>4 DEF ShownIsOwed
<1>14. table'[o[1]][o].status # "none" <=> \E i \in 1..Len(born') : born'[i] = o
  BY <1>1, <1>8 DEF BookOf
<1>. QED
  BY <1>9, <1>10, <1>11, <1>12, <1>13, <1>14 DEF BookOf

LEMMA BooksPayment ==
    ASSUME DebtInv, Shape, DebtInv', Shape', AmountsInv, OneAtATime, Books, NEW s \in Session,
           PayResolves(s) \/ PayAdjusts(s)
    PROVE  OneAtATime' /\ Books'
<1>1. PICK n \in Node : \E o \in Obligation : \E d, u : PaidOn(s, n, d, o, u)
  BY PaidOnShape
<1>2. PICK o \in Obligation : \E d, u : PaidOn(s, n, d, o, u)
  BY <1>1
<1>3. PICK d, u : PaidOn(s, n, d, o, u)
  BY <1>2
<1>4. OneAtATime'
  <2>1. s \in Busy /\ \A t \in Session \ {s} : work'[t] = work[t]
    BY <1>3 DEF PaidOn, Busy
  <2>. QED
    BY <2>1, StillOne
<1>5. BookOf(o)'
  BY <1>3, PaidOnBook DEF Books
<1>6. ASSUME NEW x \in Obligation, x # o
      PROVE  BookOf(x)'
  <2>1. LeavesAlone(x)
    BY <1>3, <1>6, PaidLeavesAlone
  <2>. QED
    BY <2>1, BookOfSame DEF Books
<1>. QED
  BY <1>4, <1>5, <1>6 DEF Books

\* A payment begins on rows that show what is owed: no session is at work, and
\* this node has seen all there is on what was born.
LEMMA BooksPayDebt ==
    ASSUME DebtInv, Shape, DebtInv', Shape', AmountsInv, astray' = {}, Books,
           NEW s \in Session, PayDebt(s)
    PROVE  OneAtATime' /\ Books'
<1>1. /\ UNCHANGED <<here, table, log, feedVars, born, owed>> /\ work[s] = Free
      /\ Overlaps(s) = {} /\ \A i \in 1..Len(born) : ~Unseen(here, born[i])
  <2>1. /\ UNCHANGED <<here, table, log, feedVars, born, owed>> /\ work[s] = Free
        /\ astray' = astray \cup Overlaps(s)
             \cup {x \in {"stale"} : \E i \in 1..Len(born) : Unseen(here, born[i])}
    BY DEF PayDebt
  <2>2. Overlaps(s) = {} /\ {x \in {"stale"} : \E i \in 1..Len(born) : Unseen(here, born[i])} = {}
    BY <2>1
  <2>3. \A i \in 1..Len(born) : ~Unseen(here, born[i])
    BY <2>2
  <2>. QED
    BY <2>1, <2>2, <2>3
<1>2. UNCHANGED <<here, table, log, sent, feed, cur, ran, born, owed>>
  BY <1>1 DEF feedVars
<1>3. PICK n \in Node : n = here
  BY CountsAreNat
<1>4. /\ work'[s].todo = OpenDebts(n) /\ work'[s].emit = << >>
      /\ \A t \in Session \ {s} : work'[t] = work[t]
  <2>1. PICK am : work' = Set(s, OpenDebts(n), am, << >>)
    BY <1>3 DEF PayDebt, Set
  <2>2. TypeOK
    BY DEF DebtInv, IdInv
  <2>. QED
    BY <2>1, <2>2, WorkBecomes
<1>5. OneAtATime'
  BY <1>1, <1>4, BecomesOne
<1>6. \A t \in Session : work[t].emit = << >> /\ work'[t].emit = << >>
  <2>1. \A t \in Session \ {s} : work[t] = Free
    BY <1>1 DEF Overlaps, Busy
  <2>. QED
    BY <1>1, <1>4, <2>1, FreeIs
<1>7. \A t \in Session \ {s} : work'[t].todo = {}
  <2>1. \A t \in Session \ {s} : work[t] = Free
    BY <1>1 DEF Overlaps, Busy
  <2>. QED
    BY <1>4, <2>1, FreeIs
<1>8. ASSUME NEW x \in Obligation
      PROVE  BookOf(x)'
  <2>1. /\ ~Emitting(x) /\ ~Emitting(x)'
        /\ \A m \in Node : Unpushed(m, x)' <=> Unpushed(m, x)
        /\ \A m : Handling(m)' = Handling(m)
        /\ \A e : (Carries(e)' <=> Carries(e)) /\ (IsCreated(e, x)' <=> IsCreated(e, x))
        /\ Unannounced(x)' <=> Unannounced(x)
    BY <1>2, <1>6, HandlingSame DEF Emitting, Unpushed, Carries, IsCreated, Unannounced
  <2>2. \A m \in Node : Unhandled(m, x)' <=> Unhandled(m, x)
    BY <1>2, <2>1 DEF Unhandled
  <2>3. CreatedOnce(x)'
    BY <1>2, <1>6, <2>1 DEF Books, BookOf, CreatedOnce
  <2>4. LatestCarries(x)'
    BY <1>2, <1>6, <2>1 DEF Books, BookOf, LatestCarries
  <2>5. AuthorsKnow(x)'
    <3>1. \A k : Handling(feed[k].src)' = Handling(feed[k].src)
      BY <1>2 DEF Handling
    <3>2. \A k \in 1..Len(feed') : \A j \in 1..k - 1 :
            feed'[k].ev.ob = x /\ feed'[j].ev.ob = x /\ feed'[j].src # feed'[k].src
                => j <= Handling(feed[k].src)
      BY <1>2 DEF Books, BookOf, AuthorsKnow
    <3>3. \A m \in Node : Unpushed(m, x)' => ~Unhandled(m, x)'
      BY <2>1, <2>2 DEF Books, BookOf, AuthorsKnow
    <3>. QED
      BY <2>1, <3>1, <3>2, <3>3 DEF AuthorsKnow
  <2>6. ResolvedIsPaid(x)'
    BY <1>2 DEF Books, BookOf, ResolvedIsPaid
  <2>7. ASSUME NEW d \in OpenDebts(n), d.ob = x
        PROVE  d = [ob |-> x, weight |-> owed[x]] /\ owed[x] > 0 /\ ~Unhandled(n, x)
    <3>1. d = [ob |-> x, weight |-> table[n][x].weight] /\ table[n][x].status = "open"
      <4>1. PICK o \in Obligation : table[n][o].status = "open" /\ d = [ob |-> o, weight |-> table[n][o].weight]
        BY DEF OpenDebts
      <4>2. [ob |-> o, weight |-> table[n][o].weight].ob = o
        OBVIOUS
      <4>. QED
        BY <2>7, <4>1, <4>2
    <3>2. table[x[1]][x].status # "none"
      BY <3>1, SourceHasRow DEF DebtInv
    <3>3. PICK i \in 1..Len(born) : born[i] = x
      BY <3>2 DEF Books, BookOf
    <3>4. ~Unseen(n, x)
      BY <1>1, <1>3, <3>3
    <3>5. ~Unhandled(n, x)
      <4>1. cur[n] \in Nat /\ Handling(n) \in Nat /\ cur[n] <= Handling(n) /\ Len(feed) \in Nat
        BY CountsAreNat DEF Handling
      <4>2. \A k \in Handling(n) + 1 .. Len(feed) : k \in cur[n] + 1 .. Len(feed)
        BY <4>1
      <4>. QED
        BY <3>4, <4>2 DEF Unseen, Unhandled, Unpushed
    <3>6. Current(n, x)
      BY <2>1, <3>2, <3>5 DEF Books, BookOf, ShownIsOwed
    <3>. QED
      BY <3>1, <3>5, <3>6 DEF Current
  <2>8. ShownIsOwed(x)'
    <3>1. table'[x[1]][x].status # "none" =>
             /\ ~Unannounced(x)'
             /\ \A m \in Node : ~Unhandled(m, x)' => Current(m, x)'
      BY <1>2, <2>1, <2>2 DEF Books, BookOf, ShownIsOwed, Current
    <3>2. \A m \in Node : m # x[1] /\ table'[m][x].status # "none" =>
              \E k \in 1..Handling(m)' : IsCreated(feed[k].ev, x)'
      BY <1>2, <2>1 DEF Books, BookOf, ShownIsOwed, IsCreated
    <3>3. ASSUME NEW t \in Session, NEW d \in work'[t].todo, d.ob = x
          PROVE  d = [ob |-> x, weight |-> owed'[x]] /\ owed'[x] > 0 /\ ~Unhandled(here, x)'
      <4>1. d \in OpenDebts(n)
        BY <1>4, <1>7, <3>3
      <4>2. d = [ob |-> x, weight |-> owed[x]] /\ owed[x] > 0 /\ ~Unhandled(n, x)
        BY <2>7, <3>3, <4>1
      <4>3. ~Unhandled(n, x)'
        BY <2>2, <4>2
      <4>. QED
        BY <1>2, <1>3, <4>2, <4>3
    <3>. QED
      BY <3>1, <3>2, <3>3 DEF ShownIsOwed
  <2>9. x[1] \in Node
    BY ObligationIsPair
  <2>10. table'[x[1]][x].status # "none" <=> \E i \in 1..Len(born') : born'[i] = x
    BY <1>2 DEF Books, BookOf
  <2>. QED
    BY <2>3, <2>4, <2>5, <2>6, <2>8, <2>10 DEF BookOf
<1>. QED
  BY <1>5, <1>8 DEF Books

LEMMA BooksParts ==
    BooksInv <=> AmountsInv /\ (astray = {} => OneAtATime /\ Books)
  BY DEF BooksInv, OneAtATime, Books

LEMMA BooksNext ==
    ASSUME DebtInv, Shape, BooksInv, [Next]_vars
    PROVE  BooksInv'
<1>1. DebtInv' /\ Shape' /\ AmountsInv'
  BY DebtNext, AmountsNext, BooksParts
<1>2. ASSUME astray' = {}
      PROVE  OneAtATime' /\ Books'
  <2>1. astray = {} => AmountsInv /\ OneAtATime /\ Books
    BY BooksParts
  <2>2. CASE UNCHANGED vars
    <3>1. UNCHANGED <<log, sent, feed, born, owed, table>> /\ UNCHANGED <<here, work, cur, ran, astray>>
      BY <2>2 DEF vars
    <3>. QED
      BY <1>1, <1>2, <2>1, <3>1, HandlingSame, BooksQuiet
  <2>3. CASE \E g \in Good : Find(g)
    <3>1. astray' = astray
      BY <2>3 DEF Find
    <3>. QED
      BY <1>1, <1>2, <2>1, <2>3, <3>1, BooksFind
  <2>4. ASSUME NEW s \in Session, SessionStep(s) PROVE OneAtATime' /\ Books'
    <3>1. astray' = astray
      BY <2>4 DEF SessionStep, PayEnds, PayResolves, PayAdjusts, EmitEvent
    <3>. QED
      BY <1>1, <1>2, <2>1, <2>4, <3>1, BooksPayEnds, BooksPayment, BooksEmit DEF SessionStep
  <2>5. ASSUME NEW s \in Session, PayDebt(s) PROVE OneAtATime' /\ Books'
    <3>1. astray = {}
      BY <1>2, <2>5 DEF PayDebt
    <3>. QED
      BY <1>1, <1>2, <2>1, <2>5, <3>1, BooksPayDebt
  <2>11. ASSUME NEW s \in Session, PayFails(s) PROVE OneAtATime' /\ Books'
    <3>1. astray' = astray
      BY <2>11 DEF PayFails
    <3>. QED
      BY <1>1, <1>2, <2>1, <2>11, <3>1, BooksPayEnds
  <2>12. ASSUME NEW s \in Session, NEW price \in Prices, BuyFails(s, price) PROVE OneAtATime' /\ Books'
    <3>1. UNCHANGED <<log, sent, feed, born, owed, table>> /\ UNCHANGED <<here, work, cur, ran, astray>>
      BY <2>12 DEF BuyFails, feedVars
    <3>. QED
      BY <1>1, <1>2, <2>1, <3>1, HandlingSame, BooksQuiet
  <2>6. ASSUME NEW s \in Session, EmitFails(s) PROVE FALSE
    BY <1>2, <2>6 DEF EmitFails
  <2>7. ASSUME NEW s \in Session, NEW price \in Prices, Buy(s, price) PROVE OneAtATime' /\ Books'
    <3>0. TypeOK
      BY DEF DebtInv, IdInv
    <3>1. astray = {}
      BY <1>2, <2>7, <3>0, BuyShape DEF Opens
    <3>. QED
      BY <1>1, <1>2, <2>1, <2>7, <3>1, BooksBuy
  <2>8. ASSUME NEW n \in Node, Move(n) PROVE OneAtATime' /\ Books'
    <3>1. astray' = astray
      BY <2>8 DEF Move
    <3>. QED
      BY <1>1, <1>2, <2>1, <2>8, <3>1, BooksMove
  <2>9. ASSUME NEW n \in Node, Deliver(n) PROVE OneAtATime' /\ Books'
    <3>1. astray' = astray
      BY <2>9 DEF Deliver, Push, Pushed, SkipOwn, HandlerRuns, HandlerMarked
    <3>. QED
      BY <1>1, <1>2, <2>1, <2>9, <3>1, BooksPush, BooksSyncer, BooksHandler DEF Deliver
  <2>10. ASSUME NEW n \in Node, Crash(n) PROVE FALSE
    BY <1>2, <2>10 DEF Crash
  <2>. QED
    BY <2>2, <2>3, <2>4, <2>5, <2>6, <2>7, <2>8, <2>9, <2>10, <2>11, <2>12 DEF Next
<1>3. (AmountsInv /\ (astray = {} => OneAtATime /\ Books))'
  BY <1>1, <1>2
<1>. QED
  BY <1>3 DEF BooksInv, OneAtATime, Books

LEMMA BooksInit == Init => BooksInv
<1>. SUFFICES ASSUME Init PROVE BooksInv
  OBVIOUS
<1>1. AmountsInv
  BY AmountsInit
<1>2. /\ table = [n \in Node |-> [o \in Obligation |-> NoDebt]]
      /\ log = [n \in Node |-> << >>] /\ feed = << >> /\ born = << >>
      /\ work = [s \in Session |-> Free]
  BY DEF Init
<1>3. OneAtATime
  BY <1>2 DEF OneAtATime, Busy
<1>4. ASSUME NEW o \in Obligation
      PROVE  BookOf(o)
  <2>1. o[1] \in Node
    BY ObligationIsPair
  <2>2. \A n \in Node : table[n][o].status = "none"
    BY <1>2 DEF NoDebt
  <2>3. /\ Len(feed) = 0 /\ Len(born) = 0 /\ \A n \in Node : Len(log[n]) = 0
    BY <1>2
  <2>4. \A s \in Session : work[s].emit = << >> /\ work[s].todo = {}
    BY <1>2, FreeIs
  <2>5. \A n \in Node : sent[n] = 0
    BY DEF Init
  <2>6. \A n \in Node : ~Unpushed(n, o)
    BY <2>3, <2>5 DEF Unpushed
  <2>7. CreatedOnce(o) /\ LatestCarries(o)
    BY <2>1, <2>3, <2>4, <2>5 DEF CreatedOnce, LatestCarries
  <2>8. AuthorsKnow(o) /\ ResolvedIsPaid(o)
    BY <2>2, <2>3, <2>4, <2>6 DEF AuthorsKnow, ResolvedIsPaid, Emitting
  <2>9. ShownIsOwed(o)
    BY <2>1, <2>2, <2>4 DEF ShownIsOwed
  <2>. QED
    BY <2>1, <2>2, <2>3, <2>7, <2>8, <2>9 DEF BookOf
<1>. QED
  BY <1>1, <1>3, <1>4, BooksParts DEF Books

\* When everything is delivered nothing is on its way, so every mirror shows
\* what is owed.
LEMMA DeliveredIsCurrent ==
    ASSUME DebtInv, Shape, BooksInv
    PROVE  BooksBalance
<1>. SUFFICES ASSUME astray = {}, CaughtUp, NEW n \in Node, NEW i \in 1..Len(born)
              PROVE  Current(n, born[i])
  BY DEF BooksBalance
<1>1. born \in Seq(Obligation)
  BY DEF DebtInv, IdInv, TypeOK
<1>2. PICK o \in Obligation : o = born[i]
  BY <1>1
<1>3. BookOf(o)
  BY BooksParts DEF Books
<1>4. o[1] \in Node
  BY ObligationIsPair
<1>5. table[o[1]][o].status # "none"
  BY <1>2, <1>3 DEF BookOf
<1>6. ~Emitting(o)
  BY FreeIs DEF CaughtUp, Busy, Emitting
<1>7. \A m \in Node : Len(log[m]) \in Nat /\ cur[m] \in Nat /\ Handling(m) \in Nat /\ cur[m] <= Handling(m)
                      /\ Len(feed) \in Nat
  BY CountsAreNat DEF Handling
<1>8. \A m \in Node : ~Unpushed(m, o)
  BY <1>7 DEF CaughtUp, Unpushed
<1>9. ~(\E k \in Handling(n) + 1 .. Len(feed) : TRUE)
  BY <1>7 DEF CaughtUp
<1>10. ~Unhandled(n, o)
  BY <1>8, <1>9 DEF Unhandled
<1>. QED
  BY <1>2, <1>3, <1>5, <1>6, <1>10 DEF BookOf, ShownIsOwed

\* When every event is emitted, pushed and handled, the obligations tables of
\* all nodes show each debt at what it was opened with less the payments, or as
\* resolved: the UPDATEs of PayDebt before their events, and the handlers
\* that apply the events in the feed's order, lose nothing.  Only overlapping sessions,
\* a payment from a mirror that lacked an event, and a failure between an
\* UPDATE and its event void this.
THEOREM MirrorsShowWhatIsOwed == Spec => []BooksBalance
<1>1. Init => DebtInv /\ Shape /\ BooksInv
  BY DebtInit, BooksInit
<1>2. DebtInv /\ Shape /\ BooksInv /\ [Next]_vars => (DebtInv /\ Shape /\ BooksInv)'
  BY DebtNext, BooksNext
<1>3. DebtInv /\ Shape /\ BooksInv => BooksBalance
  BY DeliveredIsCurrent
<1>. QED
  BY <1>1, <1>2, <1>3, PTL DEF Spec

=============================================================================
