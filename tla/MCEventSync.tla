---------------------------- MODULE MCEventSync ----------------------------
(***************************************************************************)
(* Instances of EventSync for TLC.                                         *)
(***************************************************************************)
EXTENDS EventSyncRefinement, TLC

CONSTANTS a, b, debt

MCNode == {a, b}

Ev(t, w) == [type |-> t, ob |-> debt, weight |-> w]

\* Node a opens a debt and pays it off; b's fight and its new player are
\* events with and without a handler.
MCEvent ==
    [n \in MCNode |->
        IF n = a
        THEN <<Ev("debt.created", 9), Ev("debt.resolved", 0)>>
        ELSE <<Ev("pvp.resolved", 0), Ev("player.created", 0)>>]

\* RegisterDebtHandlers and RegisterGameHandlers: one handler for each of the
\* debt types and for pvp.resolved, none for the others.
MCHandlers ==
    [t \in Types |-> IF t \in DebtTypes \cup {"pvp.resolved"} THEN 1 ELSE 0]

=============================================================================
