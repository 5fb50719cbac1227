------------------------------ MODULE Streaming ------------------------------
(***************************************************************************)
(* IGStreamingClient (feed/streaming.py) and the tasks of the scheduler    *)
(* that drive it: the refresh of the tradable set, the health check and    *)
(* the analysis tick's watchdog over the open positions' epics.            *)
(*                                                                         *)
(* Everything runs on one event loop, so an action is the code between two *)
(* awaits.  The Lightstreamer library runs on threads of its own: what its *)
(* session is ("session", "closed") and what the bot has been told of it   *)
(* ("news", handed over with call_soon_threadsafe) are separate.  News not *)
(* handled yet is replaced by later news of the same session.              *)
(* _reconnect_lock is never waited for: whoever calls _reconnect has set   *)
(* _reconnecting before.  Delays only decide when a step is taken.         *)
(***************************************************************************)
EXTENDS Naturals, FiniteSets

CONSTANTS
    Epics,
    Cap,          \* streaming_max_epics
    Watchers,     \* _streaming_health_check, the analysis tick
    HealthCheck,  \* the watcher that also reconnects a dead session
    MaxFaults     \* bound: faults of IG and the network in a behaviour

ASSUME StreamingAssumption ==
    /\ IsFiniteSet(Epics)
    /\ Cap \in Nat \ {0}
    /\ HealthCheck \in Watchers
    /\ MaxFaults \in Nat

VARIABLES
    phase,      \* of the process: new, starting, running, failed, stopped
    started,    \* _started
    connected,  \* _connected
    reconnect,  \* [pc, epics]: the _reconnect task and its copy of the epics
    session,    \* of the client in _ls: none, new, up, retrying, wedged
    news,       \* status of that session the loop has still to handle
    closed,     \* clients torn down whose DISCONNECTED is still to come
    strays,     \* sessions left open by a client that is no longer _ls
    tracked,    \* _subscribed_epics
    subs,       \* keys of _subscriptions
    silent,     \* subscriptions the server no longer serves
    open,       \* epics with an OPEN row
    candle,     \* [Epics -> none, fresh, stale]: age of the buffer's last one
    watch,      \* [Watchers -> [pc, open]]: a watchdog's read of the table
    faults

vars == <<phase, started, connected, reconnect, session, news, closed, strays,
          tracked, subs, silent, open, candle, watch, faults>>

feed == <<tracked, subs, silent>>
market == <<open, candle>>

IdleReconnect == [pc |-> "idle", epics |-> {}]
IdleWatch == [pc |-> "idle", open |-> {}]

Init ==
    /\ phase = "new" /\ started = FALSE /\ connected = FALSE
    /\ reconnect = IdleReconnect
    /\ session = "none" /\ news = "none" /\ closed = 0 /\ strays = 0
    /\ tracked = {} /\ subs = {} /\ silent = {}
    /\ open \in SUBSET Epics
    /\ candle \in [Epics -> {"none", "stale"}]
    /\ watch = [w \in Watchers |-> IdleWatch]
    /\ faults = 0

Fault == faults < MaxFaults /\ faults' = faults + 1

\* The server sends an epic's candles.
Served(e) == session = "up" /\ e \in subs \ silent

-----------------------------------------------------------------------------
(* The client's own operations *)

\* _connect, once the tokens are there: a new client takes the place of _ls.
NewSession ==
    /\ session' = "new"
    /\ news' = "none"

\* _teardown_client: disconnect makes the library announce DISCONNECTED later.
Torn == session # "none"

Start ==
    /\ phase = "new"
    /\ phase' = "starting"
    /\ started' = TRUE
    /\ UNCHANGED <<connected, reconnect, session, news, closed, strays, feed,
                   market, watch, faults>>

StartConnects ==
    /\ phase = "starting"
    /\ phase' = "running"
    /\ NewSession
    /\ UNCHANGED <<started, connected, reconnect, closed, strays, feed, market,
                   watch, faults>>

\* No endpoint, no tokens, or connect raises: start passes it on.
StartFails ==
    /\ phase = "starting" /\ Fault
    /\ phase' = "failed"
    /\ UNCHANGED <<started, connected, reconnect, session, news, closed,
                   strays, feed, market, watch>>

\* stop, after scheduler.stop: a reconnect that is under way goes on.
Stop ==
    /\ phase = "running"
    /\ phase' = "stopped"
    /\ started' = FALSE /\ connected' = FALSE
    /\ tracked' = {} /\ subs' = {} /\ silent' = {}
    /\ session' = "none" /\ news' = "none"
    /\ closed' = IF Torn THEN closed + 1 ELSE closed
    /\ watch' = [w \in Watchers |-> IdleWatch]
    /\ UNCHANGED <<reconnect, strays, market, faults>>

\* handle_status: only two of the library's statuses start a reconnect.
StartsReconnect(status) ==
    started /\ status = "retrying" /\ reconnect.pc = "idle"

Handled(status) ==
    /\ connected' = (status = "up")
    /\ reconnect' = IF StartsReconnect(status)
                    THEN [pc |-> "sleeping", epics |-> tracked]
                    ELSE reconnect

HandleStatus ==
    /\ news # "none"
    /\ Handled(news)
    /\ news' = "none"
    /\ UNCHANGED <<phase, started, session, closed, strays, feed, market,
                   watch, faults>>

\* The DISCONNECTED of a client that was torn down: the handler cannot tell
\* whose status it is.  It usually comes while the reconnect still waits.
HandleClosed ==
    /\ closed > 0
    /\ closed' = closed - 1
    /\ Handled("retrying")
    /\ UNCHANGED <<phase, started, session, news, strays, feed, market, watch,
                   faults>>

\* Mutant: the old client stays open.
TearDownForgets ==
    /\ reconnect.pc = "sleeping"
    /\ reconnect' = [reconnect EXCEPT !.pc = "connecting"]
    /\ subs' = {} /\ silent' = {}
    /\ connected' = FALSE
    /\ UNCHANGED <<phase, started, session, news, closed, strays, tracked,
                   market, watch, faults>>

\* _reconnect after its sleep, up to the request for fresh tokens.
TearDown ==
    /\ reconnect.pc = "sleeping"
    /\ reconnect' = [reconnect EXCEPT !.pc = "connecting"]
    /\ closed' = IF Torn THEN closed + 1 ELSE closed
    /\ session' = "none" /\ news' = "none"
    /\ subs' = {} /\ silent' = {}
    /\ connected' = FALSE
    /\ UNCHANGED <<phase, started, strays, tracked, market, watch, faults>>

\* _reconnect with the tokens at hand: the epics copied before the sleep are
\* subscribed; what set_epics or resubscribe added since is not.
Reconnected ==
    /\ reconnect.pc = "connecting"
    /\ IF closed > 0 THEN Fault ELSE UNCHANGED faults
    /\ strays' = IF session = "none" THEN strays ELSE strays + 1
    /\ NewSession
    /\ tracked' = tracked \cup reconnect.epics
    /\ subs' = subs \cup reconnect.epics
    /\ reconnect' = IdleReconnect
    /\ UNCHANGED <<phase, started, connected, closed, silent, market, watch>>

ReconnectFails ==
    /\ reconnect.pc = "connecting" /\ Fault
    /\ reconnect' = IdleReconnect
    /\ UNCHANGED <<phase, started, connected, session, news, closed, strays,
                   feed, market, watch>>

-----------------------------------------------------------------------------
(* The scheduler's tasks *)

\* set_epics with the list of _refresh_tradable_epics, truncated.  Open epics
\* come first, but their rows were read several awaits before, and a read that
\* failed counts as no open epic: the list may be any.
SetEpics(want) ==
    /\ phase = "running"
    /\ Cardinality(want) <= Cap
    /\ want # tracked
    /\ tracked' = want
    /\ subs' = IF session = "none" THEN subs \cap want
               ELSE (subs \cap want) \cup (want \ tracked)
    /\ silent' = silent \cap subs'
    /\ UNCHANGED <<phase, started, connected, reconnect, session, news, closed,
                   strays, market, watch, faults>>

\* _streaming_health_check, session down: ensure_connected.  The check runs
\* once a minute, so it seldom meets a session that is just coming up.
EnsureConnected ==
    /\ phase = "running" /\ watch[HealthCheck].pc = "idle"
    /\ started /\ ~connected
    /\ reconnect.pc = "idle"
    /\ reconnect' = [pc |-> "sleeping", epics |-> tracked]
    /\ IF session \in {"new", "up"} THEN Fault ELSE UNCHANGED faults
    /\ UNCHANGED <<phase, started, connected, session, news, closed, strays,
                   feed, market, watch>>

\* _ensure_open_epics_streamed reads the table while the session is up ...
WatchReads(w) ==
    /\ phase = "running" /\ watch[w].pc = "idle"
    /\ connected
    /\ open # {}
    /\ watch' = [watch EXCEPT ![w] = [pc |-> "read", open |-> open]]
    /\ UNCHANGED <<phase, started, connected, reconnect, session, news, closed,
                   strays, feed, market, faults>>

\* ... then resubscribes what is missing or stale.  An epic without a candle
\* counts as just subscribed.  resubscribe looks at the session again.
InNeedMissing(w) == watch[w].open \ tracked  \* mutant: stalls are not repaired

InNeed(w) == {e \in watch[w].open : e \notin tracked \/ candle[e] = "stale"}

WatchRepairs(w) ==
    /\ watch[w].pc = "read"
    /\ watch' = [watch EXCEPT ![w] = IdleWatch]
    /\ IF session # "none" /\ connected
       THEN /\ tracked' = tracked \cup InNeed(w)
            /\ subs' = subs \cup InNeed(w)
            /\ silent' = silent \ InNeed(w)
       ELSE UNCHANGED feed
    /\ UNCHANGED <<phase, started, connected, reconnect, session, news, closed,
                   strays, market, faults>>

-----------------------------------------------------------------------------
(* Lightstreamer, IG and the table of positions *)

\* The session comes up, at first or after the library's own retry.
SessionUp ==
    /\ session \in {"new", "retrying"}
    /\ session' = "up" /\ news' = "up"
    /\ UNCHANGED <<phase, started, connected, reconnect, closed, strays, feed,
                   market, watch, faults>>

\* The line drops: WILL-RETRY, or TRYING-RECOVERY that is never resolved.
SessionDown(how) ==
    /\ session \in {"new", "up"} /\ Fault
    /\ how \in {"retrying", "wedged"}
    /\ session' = how /\ news' = how
    /\ UNCHANGED <<phase, started, connected, reconnect, closed, strays, feed,
                   market, watch>>

\* One subscription stalls although the session stays up.
Stall(e) ==
    /\ Served(e) /\ Fault
    /\ silent' = silent \cup {e}
    /\ UNCHANGED <<phase, started, connected, reconnect, session, news, closed,
                   strays, tracked, subs, market, watch>>

\* on_candle: the buffer's last candle of the epic is a recent one.
Candle(e) ==
    /\ started
    /\ Served(e) /\ candle[e] # "fresh"
    /\ candle' = [candle EXCEPT ![e] = "fresh"]
    /\ UNCHANGED <<phase, started, connected, reconnect, session, news, closed,
                   strays, feed, open, watch, faults>>

\* No candle for streaming_stale_seconds.
Ages(e) ==
    /\ candle[e] = "fresh" /\ ~Served(e)
    /\ candle' = [candle EXCEPT ![e] = "stale"]
    /\ UNCHANGED <<phase, started, connected, reconnect, session, news, closed,
                   strays, feed, open, watch, faults>>

\* Any epic may get an OPEN row: adopted from IG it need not be tracked.
Opened(e) ==
    /\ phase = "running" /\ open = {}
    /\ open' = {e}
    /\ UNCHANGED <<phase, started, connected, reconnect, session, news, closed,
                   strays, feed, candle, watch, faults>>

Closed ==
    /\ phase = "running" /\ open # {}
    /\ open' = {}
    /\ UNCHANGED <<phase, started, connected, reconnect, session, news, closed,
                   strays, feed, candle, watch, faults>>

-----------------------------------------------------------------------------
ReconnectStep == TearDown \/ Reconnected
WatchStep(w) == WatchReads(w) \/ WatchRepairs(w)

Next ==
    \/ Start \/ StartConnects \/ StartFails \/ Stop
    \/ HandleStatus \/ HandleClosed
    \/ TearDown \/ Reconnected \/ ReconnectFails
    \/ \E want \in SUBSET Epics : SetEpics(want)
    \/ EnsureConnected
    \/ \E w \in Watchers : WatchStep(w)
    \/ SessionUp \/ \E how \in {"retrying", "wedged"} : SessionDown(how)
    \/ \E e \in Epics : Stall(e) \/ Candle(e) \/ Ages(e) \/ Opened(e)
    \/ Closed

Spec == Init /\ [][Next]_vars

\* Callbacks reach the loop, the sleep of a reconnect ends and IG answers, the
\* two jobs run every minute, a session that is not disturbed comes up, time
\* passes, and an epic that is served sends a candle a minute, where the
\* selection changes once an hour.
Fairness ==
    /\ WF_vars(StartConnects)
    /\ WF_vars(HandleStatus) /\ WF_vars(HandleClosed) /\ WF_vars(ReconnectStep)
    /\ WF_vars(EnsureConnected)
    /\ \A w \in Watchers : SF_vars(WatchStep(w))
    /\ SF_vars(SessionUp)
    /\ \A e \in Epics : WF_vars(Ages(e)) /\ SF_vars(Candle(e))

FairSpec == Spec /\ Fairness

-----------------------------------------------------------------------------
(* Properties *)

\* No reconnect leaves the session it replaces open, whoever asked for it (the
\* status callback or the health check) and whatever came in meanwhile.
OneSession == strays = 0

\* An open position whose epic has printed a candle is served again in the
\* end, whatever dropped it: a dead session, a stalled subscription, a status
\* of an old client, a selection that changed while the reconnect waited.
OpenEpicsServed ==
    \A e \in Epics :
        (phase = "running" /\ e \in open /\ candle[e] = "stale")
            ~> (candle[e] = "fresh" \/ e \notin open \/ phase = "stopped")

=============================================================================
