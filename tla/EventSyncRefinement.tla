------------------------- MODULE EventSyncRefinement -------------------------
(***************************************************************************)
(* EventSync implements ReplicatedLog.                                     *)
(***************************************************************************)
EXTENDS EventSync

\* An event is consumed once it is stored and its last handler is marked.
ConsumedAt == [n \in Node |-> {e \in stored[n] : FullyApplied(n, e)}]

Abstract == INSTANCE ReplicatedLog
    WITH emitted <- log, published <- feed, consumed <- ConsumedAt

\* Requests, retries, abandoned requests, pages, cursors, crashes and restarts
\* never show: every step of Syncer.Tick, ApplyEvent and handleEventsPush is a
\* step of the replicated log or changes nothing of it.
ImplementsReplicatedLog == Abstract!Spec

=============================================================================
