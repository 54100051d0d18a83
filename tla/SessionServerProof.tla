-------------------------- MODULE SessionServerProof --------------------------
(***************************************************************************)
(* The session limit holds up to a bounded overrun, and a shutdown is      *)
(* never taken for an error, for any number of connections and channels.   *)
(***************************************************************************)
EXTENDS SessionServer, FiniteSetTheorems, FunctionTheorems, TLAPS

LEMMA SlotSets ==
    /\ IsFiniteSet(Serving) /\ IsFiniteSet(Admitted)
    /\ Cardinality(Serving) \in Nat /\ Cardinality(Admitted) \in Nat
    /\ IsFiniteSet(Conn) /\ Cardinality(Conn) \in Nat
<1>1. IsFiniteSet(Serving) /\ IsFiniteSet(Admitted)
  BY SessionServerAssumption, FS_Subset DEF Serving, Admitted
<1>. QED
  BY <1>1, SessionServerAssumption, FS_CardinalityType

\* One connection is busy with one channel: a set of channels of which no two
\* share their connection is no larger than the set of connections.
LEMMA OnePerConnAtMostConn ==
    ASSUME NEW S \in SUBSET Chan,
           \A ch, other \in S : Owner[ch] = Owner[other] => ch = other
    PROVE  Cardinality(S) \in Nat /\ Cardinality(S) <= Cardinality(Conn)
<1>. DEFINE f == [ch \in S |-> Owner[ch]]
<1>1. f \in [S -> Conn]
  BY SessionServerAssumption
<1>2. f \in Injection(S, Conn)
  BY <1>1, Fun_IsInj
<1>3. IsFiniteSet(S)
  BY SessionServerAssumption, FS_Subset
<1>. QED
  BY <1>2, <1>3, SessionServerAssumption, FS_Injection, FS_CardinalityType

LEMMA InitSlots == Init => SlotInv
<1>. SUFFICES ASSUME Init PROVE SlotInv
  OBVIOUS
<1>1. TypeOK
  <2>1. closing \in BOOLEAN /\ cut \in [Chan -> BOOLEAN] /\ quiet \in [Chan -> BOOLEAN]
    BY Zenon DEF Init
  <2>. QED
    BY <2>1, SessionServerAssumption DEF Init, TypeOK
<1>2. Serving = {} /\ Admitted = {}
  BY DEF Init, Serving, Admitted
<1>3. Cardinality(Serving) = 0 /\ Cardinality(Admitted) = 0
  BY <1>2, FS_EmptySet
<1>4. MaxSessions + Cardinality(Conn) - 1 >= 0
  BY SlotSets, <1>1, SessionServerAssumption
<1>. QED
  BY <1>1, <1>2, <1>3, <1>4
     DEF SlotInv, CountMatches, SlotsBounded, OneAdmittedPerConn, AdmissionsBounded, Init

LEMMA NextType == SlotInv /\ [Next]_vars => TypeOK'
<1>. SUFFICES ASSUME SlotInv, [Next]_vars PROVE TypeOK'
  OBVIOUS
<1>. USE SessionServerAssumption DEF TypeOK, SlotInv, serverVars
<1>0. ASSUME NEW ch \in Chan, pc[ch] \in {"waiting", "menu", "game"}
      PROVE  sessions - 1 \in Nat
  <2>1. Serving # {}
    BY <1>0 DEF Serving
  <2>. QED
    BY <2>1, SlotSets, FS_EmptySet DEF CountMatches
<1>1. ASSUME Listen \/ AcceptFails \/ CloseListener \/ Exit PROVE TypeOK'
  BY <1>1 DEF Listen, AcceptFails, CloseListener, Exit, Fault
<1>8. ASSUME Shutdown PROVE TypeOK'
  <2>1. closing' \in BOOLEAN
    BY <1>8, Zenon DEF Shutdown
  <2>. QED
    BY <1>8, <2>1 DEF Shutdown
<1>2. ASSUME NEW c \in Conn, Accept(c) \/ Hangup(c) \/ Vanish(c) \/ TransportFails(c) PROVE TypeOK'
  BY <1>2 DEF Accept, Hangup, Vanish, TransportFails
<1>3. ASSUME NEW ch \in Chan, OpenChannel(ch) \/ Shell(ch) \/ Key(ch) \/ Idles(ch)
      PROVE TypeOK'
  BY <1>3 DEF OpenChannel, Shell, Key, Idles, Goto, Playing
<1>4. ASSUME NEW ch \in Chan, Quit(ch) \/ Panic(ch) \/ ReadFails(ch) \/ ClientAnswers(ch) PROVE TypeOK'
  BY <1>4, <1>0 DEF Quit, Panic, ReadFails, ClientAnswers, Ends, Goto, Playing, Fault
<1>5. ASSUME NEW ch \in Chan, CheckLimit(ch) \/ AcceptChannel(ch) \/ AcceptChannelFails(ch)
      PROVE TypeOK'
  BY <1>5 DEF CheckLimit, AcceptChannel, AcceptChannelFails, Goto
<1>6. ASSUME NEW ch \in Chan, IdleWatch(ch) PROVE TypeOK'
  BY <1>6 DEF IdleWatch
<1>7. CASE UNCHANGED vars
  BY <1>7 DEF vars
<1>. QED
  BY <1>1, <1>2, <1>3, <1>4, <1>5, <1>6, <1>7, <1>8 DEF Next, Server

\* The account of the slots when a step leaves both sets as they are.
LEMMA SlotsKept ==
    ASSUME SlotInv, TypeOK', Serving' = Serving, Admitted' \subseteq Admitted,
           sessions' = sessions
    PROVE  SlotInv'
<1>1. Cardinality(Admitted') <= Cardinality(Admitted) /\ Cardinality(Admitted') \in Nat
  BY SlotSets, FS_Subset, FS_CardinalityType DEF SlotInv
<1>. QED
  BY <1>1, SlotSets, SessionServerAssumption
     DEF SlotInv, TypeOK, CountMatches, SlotsBounded, OneAdmittedPerConn, AdmissionsBounded

\* A session that ends takes one from the counter and one from the set.
LEMMA EndsSlots ==
    ASSUME SlotInv, TypeOK', NEW ch \in Chan, pc[ch] \in {"waiting", "menu", "game"}, Ends(ch)
    PROVE  SlotInv'
<1>1. Serving' = Serving \ {ch} /\ ch \in Serving /\ Admitted' = Admitted
  BY DEF Ends, Goto, Serving, Admitted, SlotInv, TypeOK
<1>2. Cardinality(Serving') = Cardinality(Serving) - 1
  BY <1>1, SlotSets, FS_RemoveElement DEF SlotInv
<1>. QED
  BY <1>1, <1>2, SlotSets, SessionServerAssumption
     DEF SlotInv, TypeOK, CountMatches, SlotsBounded, OneAdmittedPerConn, AdmissionsBounded, Ends

\* The check admits one channel of a connection that is busy with no other,
\* below the limit: after it the admissions are at most one per connection.
LEMMA CheckLimitSlots ==
    ASSUME SlotInv, TypeOK', NEW ch \in Chan, CheckLimit(ch)
    PROVE  SlotInv'
<1>1. CASE Goto(ch, "refused")
  <2>1. Serving' = Serving /\ Admitted' \subseteq Admitted /\ sessions' = sessions
    BY <1>1 DEF CheckLimit, Goto, Serving, Admitted, SlotInv, TypeOK
  <2>. QED
    BY <2>1, SlotsKept
<1>2. CASE ~Full /\ Goto(ch, "admitted")
  <2>1. Serving' = Serving /\ Admitted' = Admitted \cup {ch} /\ sessions' = sessions
    BY <1>2 DEF CheckLimit, Goto, Serving, Admitted, SlotInv, TypeOK
  <2>2. OneAdmittedPerConn'
    BY <2>1, SessionServerAssumption DEF CheckLimit, OneAdmittedPerConn, Admitted, SlotInv
  <2>3. Cardinality(Admitted') \in Nat /\ Cardinality(Admitted') <= Cardinality(Conn)
    <3>1. Admitted' \in SUBSET Chan
      BY <2>1 DEF Admitted
    <3>2. \A a, b \in Admitted' : Owner[a] = Owner[b] => a = b
      BY <2>2 DEF OneAdmittedPerConn
    <3>. QED
      BY <3>1, <3>2, OnePerConnAtMostConn
  <2>4. sessions <= MaxSessions - 1
    BY <1>2, SessionServerAssumption DEF Full, SlotInv, TypeOK
  <2>. QED
    BY <2>1, <2>2, <2>3, <2>4, SlotSets, SessionServerAssumption
       DEF SlotInv, TypeOK, CountMatches, SlotsBounded, AdmissionsBounded
<1>. QED
  BY <1>1, <1>2 DEF CheckLimit

\* An admitted channel becomes a session: the sum of both sets stays.
LEMMA AcceptChannelSlots ==
    ASSUME SlotInv, TypeOK', NEW ch \in Chan, AcceptChannel(ch)
    PROVE  SlotInv'
<1>1. /\ Serving' = Serving \cup {ch} /\ ch \notin Serving
      /\ Admitted' = Admitted \ {ch} /\ ch \in Admitted
  BY DEF AcceptChannel, Goto, Serving, Admitted, SlotInv, TypeOK
<1>2. Cardinality(Serving') = Cardinality(Serving) + 1
  BY <1>1, SlotSets, FS_AddElement DEF SlotInv
<1>3. Cardinality(Admitted') = Cardinality(Admitted) - 1
  BY <1>1, SlotSets, FS_RemoveElement DEF SlotInv
<1>4. Cardinality(Admitted') \in Nat
  BY <1>1, SlotSets, FS_RemoveElement, FS_CardinalityType
<1>. QED
  BY <1>1, <1>2, <1>3, <1>4, SlotSets, SessionServerAssumption
     DEF SlotInv, TypeOK, CountMatches, SlotsBounded, OneAdmittedPerConn, AdmissionsBounded,
         AcceptChannel

\* The end of the process empties both sets.
LEMMA ExitSlots == ASSUME SlotInv, TypeOK', Exit PROVE SlotInv'
<1>1. Serving' = {} /\ Admitted' = {}
  BY DEF Exit, Serving, Admitted
<1>2. Cardinality(Serving') = 0 /\ Cardinality(Admitted') = 0
  BY <1>1, FS_EmptySet
<1>. QED
  BY <1>1, <1>2, SlotSets, SessionServerAssumption
     DEF SlotInv, TypeOK, CountMatches, SlotsBounded, OneAdmittedPerConn, AdmissionsBounded, Exit

LEMMA NextSlots == SlotInv /\ [Next]_vars => SlotInv'
<1>. SUFFICES ASSUME SlotInv, [Next]_vars PROVE SlotInv'
  OBVIOUS
<1>0. TypeOK'
  BY NextType
<1>1. ASSUME UNCHANGED <<pc, sessions>> PROVE SlotInv'
  BY <1>0, <1>1, SlotsKept DEF Serving, Admitted
<1>2. ASSUME Listen \/ AcceptFails \/ Shutdown \/ CloseListener \/ UNCHANGED vars PROVE SlotInv'
  BY <1>1, <1>2 DEF Listen, AcceptFails, Shutdown, CloseListener, vars
<1>3. ASSUME NEW c \in Conn, Accept(c) \/ Hangup(c) \/ Vanish(c) \/ TransportFails(c) PROVE SlotInv'
  BY <1>1, <1>3 DEF Accept, Hangup, Vanish, TransportFails
<1>4. ASSUME NEW ch \in Chan, Idles(ch) \/ IdleWatch(ch) PROVE SlotInv'
  BY <1>1, <1>4 DEF Idles, IdleWatch
<1>5. ASSUME NEW ch \in Chan, OpenChannel(ch) \/ Shell(ch) \/ Key(ch) \/ AcceptChannelFails(ch)
      PROVE  SlotInv'
  <2>1. Serving' = Serving /\ Admitted' \subseteq Admitted /\ sessions' = sessions
    BY <1>5 DEF OpenChannel, Shell, Key, AcceptChannelFails, Goto, Playing, Serving, Admitted,
                SlotInv, TypeOK
  <2>. QED
    BY <1>0, <2>1, SlotsKept
<1>6. ASSUME NEW ch \in Chan, Quit(ch) \/ Panic(ch) \/ ReadFails(ch) \/ ClientAnswers(ch) PROVE SlotInv'
  BY <1>0, <1>6, EndsSlots DEF Quit, Panic, ReadFails, ClientAnswers, Playing
<1>. QED
  BY <1>0, <1>2, <1>3, <1>4, <1>5, <1>6, CheckLimitSlots, AcceptChannelSlots, ExitSlots
     DEF Next, Server

\* At every moment the counter is the number of sessions, and it exceeds the
\* limit by less than the number of connections.
THEOREM SlotsHold == Spec => []SlotInv
BY InitSlots, NextSlots, PTL DEF Spec

\* ListenAndServe returns an error only after a failure of the network: the
\* flag is set before the listener is closed.
THEOREM ShutdownIsClean == Spec => []CleanShutdown
<1>. DEFINE Inv == CleanShutdown /\ FlagBeforeClose /\ faults \in Nat
<1>. USE DEF CleanShutdown, FlagBeforeClose
<1>1. Init => Inv
  BY DEF Init
<1>2. Inv /\ [Next]_vars => Inv'
  <2>. SUFFICES ASSUME Inv, [Next]_vars PROVE Inv'
    OBVIOUS
  <2>1. ASSUME Listen \/ AcceptFails PROVE Inv'
    BY <2>1 DEF Listen, AcceptFails, Fault
  <2>2. ASSUME Shutdown \/ CloseListener \/ Exit PROVE Inv'
    BY <2>2 DEF Shutdown, CloseListener, Exit
  <2>3. ASSUME UNCHANGED <<serverVars, faults>> PROVE Inv'
    BY <2>3 DEF serverVars
  <2>4. ASSUME NEW ch \in Chan, Panic(ch) PROVE Inv'
    BY <2>4 DEF Panic, Fault, serverVars
  <2>. QED
    BY <2>1, <2>2, <2>3, <2>4
       DEF Next, Server, vars, serverVars, Accept, Hangup, Vanish, OpenChannel, Shell, Key, Quit,
           Idles, CheckLimit, AcceptChannel, AcceptChannelFails, IdleWatch, ReadFails,
           ClientAnswers, TransportFails
<1>. QED
  BY <1>1, <1>2, PTL DEF Spec

=============================================================================
