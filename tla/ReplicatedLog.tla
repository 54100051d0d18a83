---------------------------- MODULE ReplicatedLog ----------------------------
(***************************************************************************)
(* What the event spine promises, with neither requests, pages, cursors    *)
(* nor failures: nodes append to logs of their own, the network publishes  *)
(* each log in order as part of one sequence, and every node consumes what *)
(* the others published in the order of that sequence, each event once.    *)
(***************************************************************************)
EXTENDS Integers, Sequences

CONSTANTS Node, Seqs

VARIABLES
    emitted,    \* emitted[n]: the seqs n has logged
    published,  \* the events of all nodes in network order
    consumed    \* consumed[n]: the foreign events whose effects n has applied

vars == <<emitted, published, consumed>>

Init ==
    /\ emitted = [n \in Node |-> {}]
    /\ published = << >>
    /\ consumed = [n \in Node |-> {}]

IsPublished(e) == \E i \in 1..Len(published) : published[i] = e

\* A log only grows at its end; a seq may be skipped.
Emit(n) ==
    /\ \E s \in Seqs :
         /\ \A t \in emitted[n] : t < s
         /\ emitted' = [emitted EXCEPT ![n] = @ \cup {s}]
    /\ UNCHANGED <<published, consumed>>

\* The first event of n's log that is not published yet.
Publish(n) ==
    /\ \E s \in emitted[n] :
         /\ ~IsPublished(<<n, s>>)
         /\ \A t \in emitted[n] : t < s => IsPublished(<<n, t>>)
         /\ published' = Append(published, <<n, s>>)
    /\ UNCHANGED <<emitted, consumed>>

\* The first published event of another node that n has not consumed yet.
Consume(n) ==
    /\ \E i \in 1..Len(published) :
         /\ published[i][1] # n
         /\ published[i] \notin consumed[n]
         /\ \A j \in 1..i-1 : published[j][1] # n => published[j] \in consumed[n]
         /\ consumed' = [consumed EXCEPT ![n] = @ \cup {published[i]}]
    /\ UNCHANGED <<emitted, published>>

Next == \E n \in Node : Emit(n) \/ Publish(n) \/ Consume(n)

Spec == Init /\ [][Next]_vars

=============================================================================
