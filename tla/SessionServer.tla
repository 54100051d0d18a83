---------------------------- MODULE SessionServer ----------------------------
(***************************************************************************)
(* The node's SSH server (engine/server.go): the accept loop, one          *)
(* handleConn per connection, one serveSession and one idleWatch per       *)
(* session channel, the session limit, and the shutdown of cmd/node.       *)
(*                                                                         *)
(* Time is abstract: a session is quiet once its client has sent nothing   *)
(* for longer than idleTimeout.  A client may close its connection, or     *)
(* vanish without a trace.  ch.Close of the ssh library only sends a       *)
(* message: a pending read ends when the client answers it, or when the    *)
(* connection fails.                                                       *)
(***************************************************************************)
EXTENDS Integers, FiniteSets

CONSTANTS
    Conn,         \* connections
    Chan,         \* channels that clients open
    Owner,        \* Owner[ch]: the connection of ch
    MaxSessions,  \* Options.MaxSessions, not 0
    MaxFaults     \* bound: panics and network errors

ASSUME SessionServerAssumption ==
    /\ Owner \in [Chan -> Conn]
    /\ IsFiniteSet(Chan) /\ IsFiniteSet(Conn)
    /\ MaxSessions \in Nat \ {0}
    /\ MaxFaults \in Nat

VARIABLES
    main,      \* what the process does: "run", "closing", "exit", "gone"
    serve,     \* ListenAndServe: "start", "accept", "done" (nil) or "fatal" (an error)
    ln,        \* the listener: "none", "open", "closed"
    closing,   \* Server.closing
    conn,      \* conn[c]: "out", "open", "vanished" or "closed"
    pc,        \* pc[ch]: how far the server is with channel ch
    cut,       \* cut[ch]: idleWatch has called ch.Close
    quiet,     \* quiet[ch]: no input for longer than idleTimeout
    sessions,  \* Server.sessions
    faults

serverVars == <<main, serve, ln, closing>>
vars == <<serverVars, conn, pc, cut, quiet, sessions, faults>>

Init ==
    /\ main = "run" /\ serve = "start" /\ ln = "none" /\ closing = FALSE
    /\ conn = [c \in Conn |-> "out"]
    /\ pc = [ch \in Chan |-> "none"]
    /\ cut = [ch \in Chan |-> FALSE]
    /\ quiet = [ch \in Chan |-> FALSE]
    /\ sessions = 0
    /\ faults = 0

Up == main # "gone"

Fault == faults < MaxFaults /\ faults' = faults + 1

Playing(ch) == pc[ch] \in {"menu", "game"}

Goto(ch, where) == pc' = [pc EXCEPT ![ch] = where]

-----------------------------------------------------------------------------
(* ListenAndServe and Shutdown. *)

\* net.Listen.
Listen ==
    /\ Up /\ serve = "start"
    /\ \/ serve' = "accept" /\ ln' = "open" /\ UNCHANGED faults
       \/ serve' = "fatal" /\ Fault /\ UNCHANGED ln
    /\ UNCHANGED <<main, closing, conn, pc, cut, quiet, sessions>>

\* Accept, and the handshake of handleConn.
Accept(c) ==
    /\ Up /\ serve = "accept" /\ ln = "open"
    /\ conn[c] = "out"
    /\ \E st \in {"open", "closed"} : conn' = [conn EXCEPT ![c] = st]
    /\ UNCHANGED <<serverVars, pc, cut, quiet, sessions, faults>>

\* Accept fails because the listener is closed, or for a reason of its own.
AcceptFails ==
    /\ Up /\ serve = "accept"
    /\ IF ln = "closed" THEN UNCHANGED faults ELSE Fault
    /\ serve' = IF closing THEN "done" ELSE "fatal"
    /\ UNCHANGED <<main, ln, closing, conn, pc, cut, quiet, sessions>>

\* Mutant: Shutdown closes the listener before it sets the flag.
ShutdownFlagLast ==
    /\ main = "run"
    /\ main' = "closing"
    /\ ln' = IF ln = "open" THEN "closed" ELSE ln
    /\ UNCHANGED <<serve, closing, conn, pc, cut, quiet, sessions, faults>>

\* SIGTERM: Shutdown sets the flag ...
Shutdown ==
    /\ main = "run"
    /\ main' = "closing"
    /\ closing' = TRUE
    /\ UNCHANGED <<serve, ln, conn, pc, cut, quiet, sessions, faults>>

\* ... and closes the listener, if there is one.
CloseListener ==
    /\ main = "closing"
    /\ main' = "exit"
    /\ ln' = IF ln = "open" THEN "closed" ELSE ln
    /\ UNCHANGED <<serve, closing, conn, pc, cut, quiet, sessions, faults>>

\* main returns, or log.Fatalf: every session is torn down with the process.
Exit ==
    /\ Up /\ (main = "exit" \/ serve = "fatal")
    /\ main' = "gone"
    /\ pc' = [ch \in Chan |-> "ended"]
    /\ sessions' = 0
    /\ UNCHANGED <<serve, ln, closing, conn, cut, quiet, faults>>

-----------------------------------------------------------------------------
(* handleConn: the channels of a connection, one after the other. *)

\* The client asks for a channel.
OpenChannel(ch) ==
    /\ Up /\ pc[ch] = "none"
    /\ conn[Owner[ch]] = "open"
    /\ Goto(ch, "offered")
    /\ UNCHANGED <<serverVars, conn, cut, quiet, sessions, faults>>

\* The limit, as read before the channel is accepted.
Full == sessions >= MaxSessions

\* The type and the limit are checked; the connection is busy with ch.
CheckLimit(ch) ==
    /\ Up /\ pc[ch] = "offered"
    /\ conn[Owner[ch]] # "closed"
    /\ \A other \in Chan : Owner[other] = Owner[ch] => pc[other] # "admitted"
    /\ \/ ~Full /\ Goto(ch, "admitted")
       \/ Goto(ch, "refused")   \* full, or not a session channel
    /\ UNCHANGED <<serverVars, conn, cut, quiet, sessions, faults>>

\* Accept and Add(1): the session has a slot and waits for a shell request.
AcceptChannel(ch) ==
    /\ Up /\ pc[ch] = "admitted"
    /\ conn[Owner[ch]] # "closed"
    /\ Goto(ch, "waiting")
    /\ sessions' = sessions + 1
    /\ UNCHANGED <<serverVars, conn, cut, quiet, faults>>

\* Accept fails, or the loop ends, when the connection is closed.
AcceptChannelFails(ch) ==
    /\ Up /\ pc[ch] \in {"offered", "admitted"}
    /\ conn[Owner[ch]] = "closed"
    /\ Goto(ch, "refused")
    /\ UNCHANGED <<serverVars, conn, cut, quiet, sessions, faults>>

-----------------------------------------------------------------------------
(* serveSession and idleWatch. *)

\* serveSession returns: its deferred calls give the slot back.
Ends(ch) == Goto(ch, "ended") /\ sessions' = sessions - 1

\* "shell": the terminal is built, and idleWatch starts.
Shell(ch) ==
    /\ Up /\ pc[ch] = "waiting"
    /\ conn[Owner[ch]] = "open"
    /\ Goto(ch, "menu")
    /\ quiet' = [quiet EXCEPT ![ch] = FALSE]
    /\ UNCHANGED <<serverVars, conn, cut, sessions, faults>>

\* Input: at the front door it may log the player in.  Keys that were typed before
\* the client sees the CLOSE are still read.
Key(ch) ==
    /\ Up /\ Playing(ch)
    /\ conn[Owner[ch]] = "open"
    /\ \E where \in {pc[ch], "game"} : Goto(ch, where)
    /\ quiet' = [quiet EXCEPT ![ch] = FALSE]
    /\ UNCHANGED <<serverVars, conn, cut, sessions, faults>>

Quit(ch) ==
    /\ Up /\ Playing(ch)
    /\ conn[Owner[ch]] = "open"
    /\ Ends(ch)
    /\ UNCHANGED <<serverVars, conn, cut, quiet, faults>>

\* Mutant: recover, and no more.
PanicUncounted(ch) ==
    /\ Up /\ pc[ch] = "game"
    /\ Fault
    /\ Goto(ch, "ended")
    /\ UNCHANGED <<serverVars, conn, cut, quiet, sessions>>

\* A panic in the game is contained to the session.
Panic(ch) ==
    /\ Up /\ pc[ch] = "game"
    /\ Fault
    /\ Ends(ch)
    /\ UNCHANGED <<serverVars, conn, cut, quiet>>

\* Time passes without input.
Idles(ch) ==
    /\ Up /\ Playing(ch) /\ ~quiet[ch]
    /\ quiet' = [quiet EXCEPT ![ch] = TRUE]
    /\ UNCHANGED <<serverVars, conn, pc, cut, sessions, faults>>

\* Mutant: only a client that still answers is sent away.
IdleWatchPolite(ch) ==
    /\ Up /\ Playing(ch) /\ quiet[ch] /\ ~cut[ch]
    /\ conn[Owner[ch]] = "open"
    /\ cut' = [cut EXCEPT ![ch] = TRUE]
    /\ UNCHANGED <<serverVars, conn, pc, quiet, sessions, faults>>

\* idleWatch's ticker finds the session quiet, sends a CLOSE and returns.
IdleWatch(ch) ==
    /\ Up /\ Playing(ch) /\ quiet[ch] /\ ~cut[ch]
    /\ cut' = [cut EXCEPT ![ch] = TRUE]
    /\ UNCHANGED <<serverVars, conn, pc, quiet, sessions, faults>>

\* ReadKey fails on a connection that is gone: every menu returns, and
\* serveSession with them.
ReadFails(ch) ==
    /\ Up /\ Playing(ch)
    /\ conn[Owner[ch]] = "closed"
    /\ Ends(ch)
    /\ UNCHANGED <<serverVars, conn, cut, quiet, faults>>

\* The client answers the CLOSE, and ReadKey fails.  A client that is stopped, or
\* does not care, never does.
ClientAnswers(ch) ==
    /\ Up /\ Playing(ch)
    /\ cut[ch] /\ conn[Owner[ch]] = "open"
    /\ Ends(ch)
    /\ UNCHANGED <<serverVars, conn, cut, quiet, faults>>

-----------------------------------------------------------------------------
(* The clients and the network, which are no part of the server. *)

\* The client closes the connection, or disappears; the network may notice a
\* client that disappeared.
Hangup(c) ==
    /\ Up /\ conn[c] \in {"open", "vanished"}
    /\ conn' = [conn EXCEPT ![c] = "closed"]
    /\ UNCHANGED <<serverVars, pc, cut, quiet, sessions, faults>>

Vanish(c) ==
    /\ Up /\ conn[c] = "open"
    /\ conn' = [conn EXCEPT ![c] = "vanished"]
    /\ UNCHANGED <<serverVars, pc, cut, quiet, sessions, faults>>

\* The packet of a CLOSE finds nobody who acknowledges it: TCP sends it again some
\* times and gives the connection up.
TransportFails(c) ==
    /\ Up /\ conn[c] = "vanished"
    /\ \E ch \in Chan : Owner[ch] = c /\ cut[ch]
    /\ conn' = [conn EXCEPT ![c] = "closed"]
    /\ UNCHANGED <<serverVars, pc, cut, quiet, sessions, faults>>

Server(ch) ==
    \/ CheckLimit(ch) \/ AcceptChannel(ch) \/ AcceptChannelFails(ch)
    \/ IdleWatch(ch) \/ ReadFails(ch)

Next ==
    \/ Listen \/ AcceptFails \/ Shutdown \/ CloseListener \/ Exit
    \/ \E c \in Conn : Accept(c) \/ Hangup(c) \/ Vanish(c) \/ TransportFails(c)
    \/ \E ch \in Chan :
         \/ OpenChannel(ch) \/ Shell(ch) \/ Key(ch) \/ Quit(ch) \/ Panic(ch)
         \/ Idles(ch) \/ ClientAnswers(ch) \/ Server(ch)

Spec == Init /\ [][Next]_vars

\* The goroutines run and time passes, and TCP does not send a packet again for
\* ever.  Nothing else is assumed of the network, and nothing of the clients and
\* the operator.
Fairness ==
    /\ WF_vars(AcceptFails) /\ WF_vars(CloseListener) /\ WF_vars(Exit)
    /\ \A ch \in Chan : WF_vars(Idles(ch)) /\ WF_vars(Server(ch))
    /\ \A c \in Conn : WF_vars(TransportFails(c))

FairSpec == Spec /\ Fairness

-----------------------------------------------------------------------------
(* Properties. *)

\* The type of every variable.
TypeOK ==
    /\ main \in {"run", "closing", "exit", "gone"}
    /\ serve \in {"start", "accept", "done", "fatal"}
    /\ ln \in {"none", "open", "closed"}
    /\ closing \in BOOLEAN
    /\ conn \in [Conn -> {"out", "open", "vanished", "closed"}]
    /\ pc \in [Chan -> {"none", "offered", "refused", "admitted", "waiting", "menu", "game", "ended"}]
    /\ cut \in [Chan -> BOOLEAN]
    /\ quiet \in [Chan -> BOOLEAN]
    /\ sessions \in Nat
    /\ faults \in 0..MaxFaults

\* The channels that hold a slot, and those past the check and short of one.
Serving  == {ch \in Chan : pc[ch] \in {"waiting", "menu", "game"}}
Admitted == {ch \in Chan : pc[ch] = "admitted"}

\* Server.sessions is the number of sessions being served, whichever way they
\* end: an answer, a lost connection, idleWatch or a panic.
CountMatches == sessions = Cardinality(Serving)

\* handleConn reads the counter before it accepts the channel and adds to it
\* afterwards, so connections that arrive together pass the check together.
\* The limit is overrun by one session for every other connection, and never
\* by the channels of one connection.
SlotsBounded == sessions <= MaxSessions + Cardinality(Conn) - 1

\* The loop of handleConn handles the channels of its connection in turn.
OneAdmittedPerConn ==
    \A ch, other \in Admitted : Owner[ch] = Owner[other] => ch = other

\* Every admission counts against the overrun before it has its slot.
AdmissionsBounded ==
    sessions + Cardinality(Admitted) <= MaxSessions + Cardinality(Conn) - 1

\* handleConn and serveSession keep the account of the slots: the counter is
\* right, its overrun is bounded, and so is what can still be added to it.
SlotInv ==
    /\ TypeOK
    /\ CountMatches
    /\ SlotsBounded
    /\ OneAdmittedPerConn
    /\ AdmissionsBounded

\* "A clean shutdown returns nil" (server.go): the accept loop never takes the
\* listener closed by Shutdown for an error, which would be fatal.
CleanShutdown == serve = "fatal" => faults > 0

\* Shutdown sets the flag first: whoever finds the listener closed finds it set.
FlagBeforeClose ==
    /\ ln = "closed" => closing
    /\ main \in {"closing", "exit"} => closing

\* "reclaiming the session slot from dead connections" (server.go): once it has
\* its shell, the session of a client that is gone, with or without a trace,
\* ends and gives its slot back.  Without a trace, it is the packet that
\* idleWatch sends which makes the transport fail.  Of a client that is there and
\* never answers that CLOSE nothing is claimed: the session stays, although
\* server.go:176 has Close unblock "the session's pending read, ending it".
SlotsComeBack ==
    \A ch \in Chan :
        (Playing(ch) /\ conn[Owner[ch]] # "open") ~> (pc[ch] = "ended")


=============================================================================
