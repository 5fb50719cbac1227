------------------------------ MODULE Selection ------------------------------
(***************************************************************************)
(* Who opens positions, and how many.  Four kinds of tasks reach           *)
(* open_epic_guarded:                                                      *)
(*                                                                         *)
(*   selectors   _select_and_open, from the analysis tick and from the     *)
(*               hourly backstop: keep the portfolio at its target         *)
(*   reverters   _revert_after_stop_loss, from the sync and the monitoring *)
(*               pass: take the other side of a stopped-out position       *)
(*   users       the dashboard's Buy and Sell buttons                      *)
(*                                                                         *)
(* A step is what a task does between two awaits.  How a single open, its  *)
(* row and its deal go together is the matter of PositionBook; here a row  *)
(* is written, confirmed or taken back, and an order whose reply was lost  *)
(* is a hidden deal until the sync adopts it.                              *)
(*                                                                         *)
(* Abstractions: what the strategy ranks is arbitrary; a margin is one     *)
(* unit of funds, whether the scanner knows it or not; all of it happens   *)
(* on one trading day.                                                     *)
(***************************************************************************)
EXTENDS Integers, FiniteSets

CONSTANTS
    Epics,
    Selectors, Reverters, Users,   \* tasks
    Strategies,     \* the entry strategies, one of which is selected
    Funds,          \* margins the account covers
    AllowReopen,    \* ALLOW_SAME_DAY_REOPEN
    NoEpic,
    Events          \* {"lost_reply"}: an order may be carried out and
                    \* nobody hear of it

ASSUME SelectionAssumption ==
    /\ Epics # {} /\ IsFiniteSet(Epics) /\ NoEpic \notin Epics
    /\ Selectors \cap Reverters = {} /\ Selectors \cap Users = {}
    /\ Reverters \cap Users = {}
    /\ Strategies \subseteq [target : Nat \ {0}, wallet : BOOLEAN,
                             flat : BOOLEAN]
    /\ Funds \in Nat /\ AllowReopen \in BOOLEAN
    /\ Events \subseteq {"lost_reply"}

Tasks == Selectors \cup Reverters \cup Users

VARIABLES
    strategy,   \* the selected strategy
    autoOpen,   \* the auto-open switch
    open,       \* the OPEN rows
    past,       \* epics with a closed row of today
    hidden,     \* deals at IG without a row: the rows the sync would write
    owed,       \* [Reverters -> epics of stopped-out positions a revert may
                \* follow, not yet considered]
    job,        \* [Tasks -> local state]
    late        \* history: [Tasks -> automatic orders sent since the switch
                \* was turned off]

vars == <<strategy, autoOpen, open, past, hidden, owed, job, late>>

\* by: the task that sent the order; reason: reason_open; counted (history):
\* its margin was known, so the pass that sent it took it off the wallet.
Position == [epic : Epics, by : Tasks,
             reason : {"own", "recovery_revert", "adopted"},
             counted : BOOLEAN]

OpenOn(e) == \E p \in open : p.epic = e
UsedToday(e) == OpenOn(e) \/ e \in past
Available == Funds - Cardinality(open) - Cardinality(hidden)
Larger(a, b) == IF a > b THEN a ELSE b

\* rest: candidates not tried yet; mine: the epics opened by this pass; spend:
\* what the wallet still covers; counted: the margin of epic is known.
IdleJob == [pc |-> "idle", epic |-> NoEpic, rest |-> {}, slots |-> 0,
            mine |-> {}, spend |-> 0, counted |-> FALSE]

Finish(t) == job' = [job EXCEPT ![t] = IdleJob]

\* The row of the order t sends, or the one the sync writes for it.
RowFor(t, reason) == [epic |-> job[t].epic, by |-> t, reason |-> reason,
                      counted |-> job[t].counted]
Row(t) == RowFor(t, "own")

\* Mutant: the callers of open_epic_guarded hold the lock, which is not
\* reentrant.
EpicLockedByCaller(e) ==
    \E t \in Tasks : job[t].pc \in {"waiting", "gated", "placed"}
                    /\ job[t].epic = e

\* The epic's open lock.
EpicLocked(e) ==
    \E t \in Tasks : job[t].pc \in {"gated", "placed"} /\ job[t].epic = e

\* Mutant: the open count is taken without the lock.
SelectLockedNever == FALSE

\* _select_lock: one selection at a time.
SelectLocked ==
    \E s \in Selectors : job[s].pc \notin {"idle", "selecting"}

-----------------------------------------------------------------------------
(* _select_and_open *)

BeginSelect(s) ==
    /\ job[s].pc = "idle"
    /\ autoOpen
    /\ job' = [job EXCEPT ![s].pc = "selecting"]
    /\ UNCHANGED <<strategy, autoOpen, open, past, hidden, owed, late>>

\* Mutant: a strategy that opens in series tops its series up.
TargetMetButFlat ==
    ~strategy.wallet /\ Cardinality(open) >= strategy.target

\* The flat-book brake, and the target of a count-bounded strategy.
TargetMet ==
    \/ strategy.flat /\ open # {}
    \/ ~strategy.wallet /\ Cardinality(open) >= strategy.target

CountOpen(s) ==
    /\ job[s].pc = "selecting"
    /\ ~SelectLocked
    /\ IF TargetMet THEN Finish(s)
       ELSE job' = [job EXCEPT ![s].pc = "counted",
                        ![s].slots = strategy.target - Cardinality(open)]
    /\ UNCHANGED <<strategy, autoOpen, open, past, hidden, owed, late>>

\* Another brake holds (a secured winner, the cooldown, too few warmed-up
\* epics), or no epic qualifies.
StandAside(s) ==
    /\ job[s].pc = "counted"
    /\ Finish(s)
    /\ UNCHANGED <<strategy, autoOpen, open, past, hidden, owed, late>>

Candidates == {e \in Epics : AllowReopen \/ ~UsedToday(e)}

Rank(s) ==
    /\ job[s].pc = "counted"
    /\ \E R \in SUBSET Candidates \ {{}} :
          job' = [job EXCEPT ![s].pc = "ranked", ![s].rest = R]
    /\ UNCHANGED <<strategy, autoOpen, open, past, hidden, owed, late>>

\* How many positions the pass may open: a wallet-bounded strategy falls back
\* on its target when the balance cannot be read.
Slots(me, known) ==
    IF strategy.wallet
    THEN IF known THEN Cardinality(me.rest) ELSE Larger(me.slots, 0)
    ELSE me.slots

\* GET /accounts.  Without a balance no wallet gate applies.  A strategy with a
\* cooldown opens one position per pass.
ReadFunds(s) ==
    /\ job[s].pc = "ranked"
    /\ \E known \in BOOLEAN :
         LET n == Slots(job[s], known) IN
         IF n <= 0 THEN Finish(s)
         ELSE \E slots \in {n, 1} :
                job' = [job EXCEPT
                    ![s].pc = "trying", ![s].slots = slots,
                    ![s].spend = IF known THEN Available
                                 ELSE Cardinality(Epics)]
    /\ UNCHANGED <<strategy, autoOpen, open, past, hidden, owed, late>>

Choosing(s, e) ==
    /\ job[s].pc = "trying"
    /\ e \in job[s].rest
    /\ Cardinality(job[s].mine) < job[s].slots

\* Mutant: the switch is checked once, at the start of the pass.
TryUnswitched(s, e) ==
    /\ Choosing(s, e)
    /\ ~OpenOn(e) /\ (AllowReopen \/ e \notin past)
    /\ \E known \in BOOLEAN :
         /\ known => job[s].spend >= 1
         /\ job' = [job EXCEPT ![s].pc = "waiting", ![s].epic = e,
                               ![s].rest = @ \ {e}, ![s].counted = known]
    /\ UNCHANGED <<strategy, autoOpen, open, past, hidden, owed, late>>

\* The gates, the wallet and the auto-open switch let e pass.  A market whose
\* margin the scanner does not know (it keeps such markets) is let pass whatever
\* the wallet: "Unknown margin -> allow".
Try(s, e) ==
    /\ Choosing(s, e)
    /\ ~OpenOn(e) /\ (AllowReopen \/ e \notin past)
    /\ autoOpen
    /\ \E known \in BOOLEAN :
         /\ known => job[s].spend >= 1
         /\ job' = [job EXCEPT ![s].pc = "waiting", ![s].epic = e,
                               ![s].rest = @ \ {e}, ![s].counted = known]
    /\ UNCHANGED <<strategy, autoOpen, open, past, hidden, owed, late>>

Skip(s, e) ==
    /\ Choosing(s, e)
    /\ job' = [job EXCEPT ![s].rest = @ \ {e}]
    /\ UNCHANGED <<strategy, autoOpen, open, past, hidden, owed, late>>

EndPass(s) ==
    /\ job[s].pc = "trying"
    /\ job[s].rest = {} \/ Cardinality(job[s].mine) >= job[s].slots
    /\ Finish(s)
    /\ UNCHANGED <<strategy, autoOpen, open, past, hidden, owed, late>>

-----------------------------------------------------------------------------
(* The dashboard's buttons and the recovery revert *)

\* manual=True: the switch does not apply.
UserOpen(u, e) ==
    /\ job[u].pc = "idle"
    /\ job' = [job EXCEPT ![u].pc = "waiting", ![u].epic = e]
    /\ UNCHANGED <<strategy, autoOpen, open, past, hidden, owed, late>>

Considered(r, e) == owed' = [owed EXCEPT ![r] = @ \ {e}]

BeginRevert(r, e) ==
    /\ job[r].pc = "idle"
    /\ e \in owed[r]
    /\ autoOpen
    /\ Considered(r, e)
    /\ job' = [job EXCEPT ![r].pc = "waiting", ![r].epic = e]
    /\ UNCHANGED <<strategy, autoOpen, open, past, hidden, late>>

\* No loss, a ratcheted stop, a curve that does not support it, the switch.
DropRevert(r, e) ==
    /\ job[r].pc = "idle"
    /\ e \in owed[r]
    /\ Considered(r, e)
    /\ UNCHANGED <<strategy, autoOpen, open, past, hidden, job, late>>

\* The reverter's own row is stamped after the open has returned; by then it may
\* be closed, and whoever closed it has read it without the stamp.
Mark(r) ==
    /\ job[r].pc = "marking"
    /\ open' = {IF p = Row(r) THEN [p EXCEPT !.reason = "recovery_revert"]
                ELSE p : p \in open}
    /\ Finish(r)
    /\ UNCHANGED <<strategy, autoOpen, past, hidden, owed, late>>

-----------------------------------------------------------------------------
(* open_epic_guarded: the gate and the order under the epic's lock *)

GateHolds(t) ==
    /\ ~OpenOn(job[t].epic)
    /\ t \in Selectors /\ ~AllowReopen => job[t].epic \notin past

\* How the caller of open_epic_guarded goes on.  A margin nobody knows is not
\* taken off the wallet.
After(t, opened) ==
    CASE t \in Selectors ->
           [job[t] EXCEPT !.pc = "trying", !.epic = NoEpic, !.counted = FALSE,
                          !.mine = IF opened THEN @ \cup {job[t].epic} ELSE @,
                          !.spend = IF opened /\ job[t].counted THEN @ - 1 ELSE @]
      [] t \in Reverters /\ opened -> [job[t] EXCEPT !.pc = "marking"]
      [] OTHER -> IdleJob

Back(t, opened) == job' = [job EXCEPT ![t] = After(t, opened)]

TakeLock(t) ==
    /\ job[t].pc = "waiting"
    /\ ~EpicLocked(job[t].epic)
    /\ IF GateHolds(t) THEN job' = [job EXCEPT ![t].pc = "gated"]
                       ELSE Back(t, FALSE)
    /\ UNCHANGED <<strategy, autoOpen, open, past, hidden, owed, late>>

\* An order leaves for IG.
Send(t) ==
    /\ job[t].pc = "gated"
    /\ late' = IF autoOpen \/ t \in Users THEN late
               ELSE [late EXCEPT ![t] = @ + 1]

\* IG refuses it, or the market turned out not to be tradeable.
OrderRefused(t) ==
    /\ Send(t)
    /\ Back(t, FALSE)
    /\ UNCHANGED <<strategy, autoOpen, open, past, hidden, owed>>

\* The deal is live, its reply is lost: open_position returns None.  The model
\* bounds the lost deals to one per epic at a time.
OrderLost(t) ==
    /\ "lost_reply" \in Events
    /\ \A p \in open \cup hidden :
          p.reason = "adopted" => p.epic # job[t].epic
    /\ Send(t)
    /\ hidden' = hidden \cup {RowFor(t, "adopted")}
    /\ Back(t, FALSE)
    /\ UNCHANGED <<strategy, autoOpen, open, past, owed>>

OrderRecorded(t) ==
    /\ Send(t)
    /\ open' = open \cup {Row(t)}
    /\ job' = [job EXCEPT ![t].pc = "placed"]
    /\ UNCHANGED <<strategy, autoOpen, past, hidden, owed>>

\* Confirmed, or kept for the sync because no confirmation could be read.
OpenDone(t) ==
    /\ job[t].pc = "placed"
    /\ Back(t, TRUE)
    /\ UNCHANGED <<strategy, autoOpen, open, past, hidden, owed, late>>

OpenRejected(t) ==
    /\ job[t].pc = "placed"
    /\ Row(t) \in open
    /\ open' = open \ {Row(t)}
    /\ Back(t, FALSE)
    /\ UNCHANGED <<strategy, autoOpen, past, hidden, owed, late>>

-----------------------------------------------------------------------------
(* The market, IG, the user *)

\* should_revert_after_stop_loss, of which the model keeps the single hop.
Revertable(p) == p.reason # "recovery_revert"

\* A position ends, on its stop or otherwise, its opener done with it or not;
\* the sync or the pass that records it will consider a revert.
Closed(r, p) ==
    /\ job[r].pc = "idle"
    /\ p \in open
    /\ open' = open \ {p} /\ past' = past \cup {p.epic}
    /\ owed' = IF Revertable(p) THEN [owed EXCEPT ![r] = @ \cup {p.epic}]
               ELSE owed
    /\ UNCHANGED <<strategy, autoOpen, hidden, job, late>>

\* sync_open_positions finds a deal without a row.
Adopt(p) ==
    /\ p \in hidden
    /\ hidden' = hidden \ {p}
    /\ open' = open \cup {p}
    /\ UNCHANGED <<strategy, autoOpen, past, owed, job, late>>

\* It ends at IG before the sync has seen it.
HiddenEnds(p) ==
    /\ p \in hidden
    /\ hidden' = hidden \ {p}
    /\ UNCHANGED <<strategy, autoOpen, open, past, owed, job, late>>

\* set_auto_open.
SwitchOff ==
    /\ autoOpen
    /\ autoOpen' = FALSE
    /\ UNCHANGED <<strategy, open, past, hidden, owed, job, late>>

SwitchOn ==
    /\ ~autoOpen
    /\ autoOpen' = TRUE
    /\ late' = [t \in Tasks |-> 0]
    /\ UNCHANGED <<strategy, open, past, hidden, owed, job>>

-----------------------------------------------------------------------------
Init ==
    /\ strategy \in Strategies
    /\ autoOpen = TRUE
    /\ open = {} /\ past = {} /\ hidden = {}
    /\ owed = [r \in Reverters |-> {}]
    /\ job = [t \in Tasks |-> IdleJob]
    /\ late = [t \in Tasks |-> 0]

SelectStep(s) ==
    \/ BeginSelect(s) \/ CountOpen(s) \/ StandAside(s) \/ Rank(s)
    \/ ReadFunds(s) \/ EndPass(s)
    \/ \E e \in Epics : Try(s, e) \/ Skip(s, e)

RevertStep(r) ==
    \/ \E e \in owed[r] : BeginRevert(r, e) \/ DropRevert(r, e)
    \/ Mark(r)

OpenStep(t) ==
    \/ TakeLock(t) \/ OrderRefused(t) \/ OrderLost(t) \/ OrderRecorded(t)
    \/ OpenDone(t) \/ OpenRejected(t)

WorldStep ==
    \/ \E p \in open, r \in Reverters : Closed(r, p)
    \/ \E p \in hidden : Adopt(p) \/ HiddenEnds(p)
    \/ \E e \in Epics, u \in Users : UserOpen(u, e)
    \/ SwitchOff \/ SwitchOn

Next ==
    \/ \E s \in Selectors : SelectStep(s)
    \/ \E r \in Reverters : RevertStep(r)
    \/ \E t \in Tasks : OpenStep(t)
    \/ WorldStep

Spec == Init /\ [][Next]_vars

\* A task that has begun goes on; asyncio's locks serve their waiters in turn.
Progress(t) ==
    \/ t \in Selectors /\ (StandAside(t) \/ Rank(t) \/ ReadFunds(t) \/ EndPass(t)
                            \/ \E e \in Epics : Try(t, e) \/ Skip(t, e))
    \/ t \in Reverters /\ Mark(t)
    \/ OrderRefused(t) \/ OrderRecorded(t) \/ OpenDone(t) \/ OpenRejected(t)

Fairness ==
    /\ \A t \in Tasks : WF_vars(Progress(t)) /\ SF_vars(TakeLock(t))
    /\ \A s \in Selectors : SF_vars(CountOpen(s))

FairSpec == Spec /\ Fairness

-----------------------------------------------------------------------------
(* Properties *)

\* The rows the selectors wrote, and those of them whose margin they counted.
Rolled == {p \in open : p.by \in Selectors /\ p.reason # "adopted"}
Counted == {p \in Rolled : p.counted}

\* The rows the selectors open never outnumber the target; those a
\* wallet-bounded strategy opens on a known margin never outnumber the margins
\* the account covers (nor the target, when no balance could be read), however
\* many passes are started and whatever users, reverts and lost replies do
\* meanwhile (_select_and_open's re-check under the lock, its wallet gate).
RolledWithinLimit ==
    IF strategy.wallet
    THEN Cardinality(Counted) <= Larger(strategy.target, Funds)
    ELSE Cardinality(Rolled) <= strategy.target

\* A strategy that opens in series never adds to an earlier series: what the
\* selectors hold while a pass is under way was opened by this pass.
SeriesIsWhole ==
    strategy.flat =>
        \A s \in Selectors : job[s].pc \notin {"idle", "selecting"} =>
            \A p \in Rolled : p.epic \in job[s].mine \cup {job[s].epic}

\* Once the user has closed the day, a task sends at most the one order it had
\* already been let through with (open_epic_guarded, "the single choke point
\* every automatic open path goes through").
OneLateOrder == \A t \in Tasks : late[t] <= 1

\* Nobody waits for ever: every selection, revert and manual open ends, the
\* selection lock and the epics' locks notwithstanding.
EveryTaskEnds == \A t \in Tasks : (job[t].pc # "idle") ~> (job[t].pc = "idle")

=============================================================================
