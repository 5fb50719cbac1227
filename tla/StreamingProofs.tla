--------------------------- MODULE StreamingProofs ---------------------------
(* Theorems about Streaming. *)
EXTENDS Streaming, TLAPS

\* While a reconnect waits for its tokens there is no session to lose: only it
\* and the first connection make one, and before that connection nothing is up
\* that a status could come from.
SessionInv ==
    /\ reconnect.pc = "connecting" => session = "none"
    /\ phase \in {"new", "starting"} =>
           session = "none" /\ news = "none" /\ closed = 0 /\ reconnect.pc = "idle"

SessionIInv == OneSession /\ SessionInv

LEMMA SessionInit == Init => SessionIInv
BY DEF Init, SessionIInv, OneSession, SessionInv, IdleReconnect

LEMMA SessionNext == SessionIInv /\ [Next]_vars => SessionIInv'
<1> SUFFICES ASSUME SessionIInv, [Next]_vars PROVE SessionIInv'
  OBVIOUS
<1> USE DEF SessionIInv, OneSession, SessionInv
<1>1. CASE Start
  BY <1>1 DEF Start
<1>2. CASE StartConnects
  BY <1>2 DEF StartConnects, NewSession
<1>3. CASE StartFails
  BY <1>3 DEF StartFails
<1>4. CASE Stop
  BY <1>4 DEF Stop
<1>5. CASE HandleStatus
  BY <1>5 DEF HandleStatus, Handled
<1>6. CASE HandleClosed
  BY <1>6 DEF HandleClosed, Handled
<1>7. CASE TearDown
  BY <1>7 DEF TearDown
<1>8. CASE Reconnected
  BY <1>8 DEF Reconnected, NewSession, IdleReconnect
<1>9. CASE ReconnectFails
  BY <1>9 DEF ReconnectFails, IdleReconnect
<1>10. ASSUME NEW want \in SUBSET Epics, SetEpics(want)
       PROVE  SessionIInv'
  BY <1>10 DEF SetEpics
<1>11. CASE EnsureConnected
  BY <1>11 DEF EnsureConnected
<1>12. ASSUME NEW w \in Watchers, WatchStep(w)
       PROVE  SessionIInv'
  BY <1>12 DEF WatchStep, WatchReads, WatchRepairs
<1>13. CASE SessionUp
  BY <1>13 DEF SessionUp
<1>14. ASSUME NEW how \in {"retrying", "wedged"}, SessionDown(how)
       PROVE  SessionIInv'
  BY <1>14 DEF SessionDown
<1>15. ASSUME NEW e \in Epics, Stall(e) \/ Candle(e) \/ Ages(e) \/ Opened(e)
       PROVE  SessionIInv'
  BY <1>15 DEF Stall, Candle, Ages, Opened
<1>16. CASE Closed
  BY <1>16 DEF Closed
<1>17. CASE UNCHANGED vars
  BY <1>17 DEF vars
<1> QED
  BY <1>1, <1>2, <1>3, <1>4, <1>5, <1>6, <1>7, <1>8, <1>9, <1>10, <1>11,
     <1>12, <1>13, <1>14, <1>15, <1>16, <1>17 DEF Next

\* No reconnect leaves the session it replaces open (_reconnect tears down the
\* client before it waits for the tokens of the next), for any number of epics,
\* watchdogs and faults.
THEOREM OneSessionHolds == Spec => []OneSession
<1>1. SessionIInv => OneSession
  BY DEF SessionIInv
<1> QED
  BY <1>1, SessionInit, SessionNext, PTL DEF Spec
=============================================================================
