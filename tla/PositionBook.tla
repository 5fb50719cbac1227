---------------------------- MODULE PositionBook ----------------------------
(***************************************************************************)
(* The position book: the `position` table, the deals IG holds, and every  *)
(* task that moves a row or a deal.                                        *)
(*                                                                         *)
(*   openers   open_epic_guarded -> open_position (analysis tick, dashboard*)
(*             button, rolling selector, recovery revert)                  *)
(*   sync      the 20 s reconciliation, single-flight under _sync_lock     *)
(*   closers   the monitoring pass, the forced closes, the dashboard button*)
(*                                                                         *)
(* All tasks share one event loop: a step of the model is what a task does *)
(* between two awaits.  A call through the API queue is one step (IG's     *)
(* effect and the answer), the code that runs on the answer is the next    *)
(* one, so other tasks may run in between.  Each task has its own database *)
(* session: it keeps the column values it loaded (expire_on_commit=False)  *)
(* and a commit writes the columns it assigned, whatever others wrote.     *)
(*                                                                         *)
(* Abstractions: a deal is identified by one value that stands both for    *)
(* its dealReference and its dealId (a NULL deal_id is NoDeal); prices,    *)
(* P&L and stop levels are left out, so "nearest open level" is any        *)
(* unclaimed deal of the epic; all rows belong to the same trading day.    *)
(***************************************************************************)
EXTENDS Naturals, FiniteSets, Functions

CONSTANTS
    Epics,            \* tradable epics
    Deals,            \* every deal IG may create
    NoDeal,           \* a NULL deal_id
    Rows,             \* primary keys of the position table, in rowid order
    Openers,          \* tasks that may call open_epic_guarded
    Reopeners,        \* those that pass allow_reopen=True (button, revert)
    Sweepers,         \* closers that snapshot every OPEN row
    Buttons,          \* closers that act on one row (dashboard)
    SyncJob,          \* the sync job runs (it can be paused like any job)
    ConfirmAttempts,  \* CONFIRM_MAX_ATTEMPTS
    Events            \* what the environment may do in this instance

(***************************************************************************)
(* Environment behaviours an instance switches on:                         *)
(*   timeout        a call gets no usable answer (the effect may have      *)
(*                  happened), or a read fails                             *)
(*   late_confirm   GET /confirms of a close cannot be read: not resolvable*)
(*                  yet (404), or no answer                                *)
(*   omission       GET /positions may leave out a live deal               *)
(*   slow_fill      the grace window may run out before IG settles an order*)
(*                  and its opener is done                                 *)
(*   stop_out       IG closes a live deal on its own                       *)
(*   external       the user opens a position directly at IG               *)
(*   close_refused  IG answers 200 to a close and then refuses it          *)
(*   shared_epic    IG may create a deal on an epic that already had one   *)
(*   crash          the process dies: every task and lock is lost          *)
(***************************************************************************)
EventKinds == {"timeout", "late_confirm", "omission", "slow_fill",
               "stop_out", "external", "close_refused", "shared_epic", "crash"}

ASSUME BookAssumption ==
    /\ Epics # {}
    /\ NoDeal \notin Deals
    /\ Rows \subseteq Nat /\ Rows # {}
    /\ Reopeners \subseteq Openers
    /\ Sweepers \cap Buttons = {}
    /\ SyncJob \in BOOLEAN
    /\ ConfirmAttempts \in Nat \ {0}
    /\ Events \subseteq EventKinds

Closers == Sweepers \cup Buttons
DealIds == Deals \cup {NoDeal}

VARIABLES
    book,    \* [Rows -> row]: the position table
    ig,      \* [Deals -> deal]: what IG holds
    task,    \* [Openers -> opener's local state]
    sync,    \* the running sync_open_positions
    closer   \* [Closers -> closer's local state]

vars == <<book, ig, task, sync, closer>>

-----------------------------------------------------------------------------
(* Rows and deals *)

\* History: rebound, the row was handed another deal than the one it had;
\* unread, it was closed on a confirmation nobody could read.
\* reason_open other than "adopted": the row an opener wrote for its order.
Origins == {"own", "adopted"}
Reasons == {"", "bot", "manual", "closed_externally", "never_opened",
            "not_found_in_ig"}
\* The closes a closer carried out itself, with its real fill and P&L.
RealCloses == {"bot", "manual"}

RowType == [state : {"none", "OPEN", "CLOSE", "deleted"}, epic : Epics,
            ref : DealIds, deal : DealIds, origin : Origins,
            reason : Reasons, fresh : BOOLEAN, rebound : BOOLEAN,
            unread : BOOLEAN]
DealType == [state : {"unused", "working", "live", "closed", "rejected"},
             epic : Epics]

AnyEpic == CHOOSE e \in Epics : TRUE
NoRow == [state |-> "none", epic |-> AnyEpic, ref |-> NoDeal, deal |-> NoDeal,
          origin |-> "own", reason |-> "", fresh |-> FALSE,
          rebound |-> FALSE, unread |-> FALSE]

\* The row open_position commits before confirming.
ProvisionalRow(e, d) ==
    [NoRow EXCEPT !.state = "OPEN", !.epic = e, !.ref = d, !.fresh = TRUE]

\* The row _adopt_ig_position creates for a live deal nobody tracks.
AdoptedRow(d) ==
    [NoRow EXCEPT !.state = "OPEN", !.epic = ig[d].epic, !.ref = d,
                  !.deal = d, !.origin = "adopted"]

Rebound(row, d) ==
    [row EXCEPT !.deal = d, !.rebound = @ \/ row.deal \notin {NoDeal, d}]

ClosedRow(row, why) == [row EXCEPT !.state = "CLOSE", !.reason = why,
                                   !.fresh = FALSE]

OpenRows == {r \in Rows : book[r].state = "OPEN"}
RecordedRows == {r \in Rows : book[r].state \in {"OPEN", "CLOSE"}}
UnusedRows == {r \in Rows : book[r].state = "none"}
First(S) == CHOOSE r \in S : \A q \in S : r <= q

LiveDeals == {d \in Deals : ig[d].state = "live"}
May(event) == event \in Events

\* IG may create deal d on epic e.
CanCreate(d, e) ==
    /\ ig[d].state = "unused"
    /\ \/ May("shared_epic")
       \/ \A c \in Deals : ig[c].state # "unused" => ig[c].epic # e

\* GET /positions: the live deals, short of some while the bulk list lags.
BulkList(L) == IF May("omission") THEN L \subseteq LiveDeals
                                      ELSE L = LiveDeals

-----------------------------------------------------------------------------
(* Openers: one order per task at a time, under the epic's open lock. *)

IdleTask == [pc |-> "idle", epic |-> AnyEpic, deal |-> NoDeal,
             row |-> First(Rows), tries |-> 0]

TaskType == [pc : {"idle", "gated", "placed", "confirming", "accepted",
                   "rejected"},
             epic : Epics, deal : DealIds, row : Rows,
             tries : 0..(ConfirmAttempts - 1)]

\* Mutant: the lock is released once the order is sent, before its row exists.
EpicLockedUntilSent(e) ==
    \E p \in Openers : task[p].pc = "gated" /\ task[p].epic = e

\* The per-epic lock is held from the gate until open_epic_guarded returns.
EpicLocked(e) == \E p \in Openers : task[p].pc # "idle" /\ task[p].epic = e

EpicOpen(e) == \E r \in OpenRows : book[r].epic = e
TradedToday(e) == \E r \in RecordedRows : book[r].epic = e

\* o has written row r and its open is not over.
Confirming(o, r) == /\ task[o].pc \in {"confirming", "accepted", "rejected"}
                    /\ task[o].row = r

Finish(o) == task' = [task EXCEPT ![o] = IdleTask]

\* open_epic_guarded takes the lock and can_open_intent lets the open pass.
PassGate(o, e) ==
    /\ task[o].pc = "idle"
    /\ ~EpicLocked(e)
    /\ ~EpicOpen(e)
    /\ o \notin Reopeners => ~TradedToday(e)
    /\ task' = [task EXCEPT ![o] = [IdleTask EXCEPT !.pc = "gated",
                                                    !.epic = e]]
    /\ UNCHANGED <<book, ig, sync, closer>>

\* The market is not tradeable, the stop is out of the dealing rules, or IG
\* refuses the POST: open_position returns None and the lock is released.
AbandonOpen(o) ==
    /\ task[o].pc = "gated"
    /\ Finish(o)
    /\ UNCHANGED <<book, ig, sync, closer>>

AcceptOrder(d, e) ==
    /\ CanCreate(d, e)
    /\ ig' = [ig EXCEPT ![d] = [state |-> "working", epic |-> e]]

\* POST /positions/otc (MARKET, or the marketable LIMIT it falls back to).
PostOrder(o, d) ==
    /\ task[o].pc = "gated"
    /\ AcceptOrder(d, task[o].epic)
    /\ task' = [task EXCEPT ![o].pc = "placed", ![o].deal = d]
    /\ UNCHANGED <<book, sync, closer>>

\* The order reaches IG, its answer never comes back: _post_open_order
\* returns None and nothing is recorded.
PostOrderUnanswered(o, d) ==
    /\ May("timeout")
    /\ task[o].pc = "gated"
    /\ AcceptOrder(d, task[o].epic)
    /\ Finish(o)
    /\ UNCHANGED <<book, sync, closer>>

RecordRow(o) ==
    /\ task[o].pc = "placed"
    /\ UnusedRows # {}
    /\ LET r == First(UnusedRows) IN
       /\ book' = [book EXCEPT
                     ![r] = ProvisionalRow(task[o].epic, task[o].deal)]
       /\ task' = [task EXCEPT ![o].pc = "confirming", ![o].row = r]
    /\ UNCHANGED <<ig, sync, closer>>

\* Mutant: an order nobody could confirm is taken for a rejected one.
ConfirmMissedIsRejected(o) ==
    /\ task[o].pc = "confirming"
    /\ ig[task[o].deal].state = "working" \/ May("timeout")
    /\ task' = IF task[o].tries + 1 < ConfirmAttempts
               THEN [task EXCEPT ![o].tries = @ + 1]
               ELSE [task EXCEPT ![o].pc = "rejected"]
    /\ UNCHANGED <<book, ig, sync, closer>>

\* One failed poll of GET /confirms; the last one leaves the row to the sync.
ConfirmMissed(o) ==
    /\ task[o].pc = "confirming"
    /\ ig[task[o].deal].state = "working" \/ May("timeout")
    /\ IF task[o].tries + 1 < ConfirmAttempts
       THEN task' = [task EXCEPT ![o].tries = @ + 1]
       ELSE Finish(o)
    /\ UNCHANGED <<book, ig, sync, closer>>

ConfirmAnswered(o) ==
    /\ task[o].pc = "confirming"
    /\ \/ /\ ig[task[o].deal].state \in {"live", "closed"}
          /\ task' = [task EXCEPT ![o].pc = "accepted"]
       \/ /\ ig[task[o].deal].state = "rejected"
          /\ task' = [task EXCEPT ![o].pc = "rejected"]
    /\ UNCHANGED <<book, ig, sync, closer>>

BindDeal(o) ==
    /\ task[o].pc = "accepted"
    /\ book' = [book EXCEPT ![task[o].row] = Rebound(@, task[o].deal)]
    /\ Finish(o)
    /\ UNCHANGED <<ig, sync, closer>>

DropRejected(o) ==
    /\ task[o].pc = "rejected"
    /\ book' = [book EXCEPT ![task[o].row] = [NoRow EXCEPT
                    !.state = "deleted", !.epic = task[o].epic,
                    !.ref = task[o].deal]]
    /\ Finish(o)
    /\ UNCHANGED <<ig, sync, closer>>

-----------------------------------------------------------------------------
(* sync_open_positions: a snapshot, a walk over it, one commit at the end. *)

\* todo: the rows still to walk; seen: their dealId as loaded; known: every
\* dealId on record; free: the listed deals no row has claimed; touched, bound,
\* closed: the rows the session has dirtied, and the dealIds and close reasons
\* it has assigned to them and not committed.  It is "restarted" while it has not
\* run since the process has.
IdleSync == [pc |-> "idle", todo |-> {}, known |-> {}, free |-> {},
             seen |-> [r \in Rows |-> NoDeal], touched |-> {},
             bound |-> [r \in Rows |-> NoDeal],
             closed |-> [r \in Rows |-> ""]]
RestartedSync == [IdleSync EXCEPT !.pc = "restarted"]

SyncType == [pc : {"idle", "restarted", "opened", "known", "walk", "probe"},
             todo : SUBSET Rows, known : SUBSET Deals, free : SUBSET Deals,
             seen : [Rows -> DealIds], touched : SUBSET Rows,
             bound : [Rows -> DealIds], closed : [Rows -> Reasons]]

SyncReadOpen ==
    /\ SyncJob
    /\ sync.pc \in {"idle", "restarted"}
    /\ sync' = [sync EXCEPT !.pc = "opened", !.todo = OpenRows,
                    !.seen = [r \in Rows |-> IF r \in OpenRows
                                             THEN book[r].deal ELSE NoDeal]]
    /\ UNCHANGED <<book, ig, task, closer>>

\* Mutant: a dealReference on record counts as a known deal.
KnownDealsOrRefs ==
    {d \in Deals : \E r \in RecordedRows : d \in {book[r].deal, book[r].ref}}

\* Every dealId the table has ever recorded, in any state.
KnownDeals == {d \in Deals : \E r \in RecordedRows : book[r].deal = d}

SyncReadKnown ==
    /\ sync.pc = "opened"
    /\ sync' = [sync EXCEPT !.pc = "known", !.known = KnownDeals]
    /\ UNCHANGED <<book, ig, task, closer>>

SyncList ==
    /\ sync.pc = "known"
    /\ \E L \in SUBSET LiveDeals :
        /\ BulkList(L)
        /\ sync' = [sync EXCEPT !.pc = "walk", !.free = L]
    /\ UNCHANGED <<book, ig, task, closer>>

SyncListFails ==
    /\ May("timeout")
    /\ sync.pc = "known"
    /\ sync' = IdleSync
    /\ UNCHANGED <<book, ig, task, closer>>

\* The listed deals row r may bind to: its dealId, else its dealReference,
\* else any of its epic (the nearest level, which the model does not keep).
Candidates(r) ==
    IF sync.seen[r] \in sync.free THEN {sync.seen[r]}
    ELSE IF book[r].ref \in sync.free THEN {book[r].ref}
    ELSE {d \in sync.free : ig[d].epic = book[r].epic}

\* The sync with row r behind it.
Walked(r) == [sync EXCEPT !.pc = "walk", !.todo = @ \ {r}, !.seen[r] = NoDeal]
WrittenOff(r, why) == [Walked(r) EXCEPT !.touched = @ \cup {r},
                                        !.closed[r] = why]

SyncMatch(r) ==
    /\ sync.pc = "walk"
    /\ sync.todo # {} /\ r = First(sync.todo)
    /\ \E d \in Candidates(r) :
        sync' = [Walked(r) EXCEPT !.free = @ \ {d}, !.touched = @ \cup {r},
                    !.bound[r] = IF d = sync.seen[r] THEN NoDeal ELSE d]
    /\ UNCHANGED <<book, ig, task, closer>>

\* Mutant: a row that never bound a dealId is always left to a later sync.
SyncMissWaits(r) ==
    /\ sync.pc = "walk"
    /\ sync.todo # {} /\ r = First(sync.todo)
    /\ Candidates(r) = {}
    /\ \/ /\ book[r].state # "OPEN" \/ book[r].deal = NoDeal
          /\ sync' = Walked(r)
       \/ /\ book[r].state = "OPEN" /\ book[r].deal # NoDeal
          /\ sync' = [sync EXCEPT !.pc = "probe", !.seen[r] = book[r].deal]
    /\ UNCHANGED <<book, ig, task, closer>>

\* No listed deal for r: re-read it, then skip it, write it off, or go and
\* ask IG for that one deal.
SyncMiss(r) ==
    /\ sync.pc = "walk"
    /\ sync.todo # {} /\ r = First(sync.todo)
    /\ Candidates(r) = {}
    /\ \/ /\ book[r].state # "OPEN" \/ (book[r].deal = NoDeal /\ book[r].fresh)
          /\ sync' = Walked(r)
       \/ /\ book[r].state = "OPEN" /\ book[r].deal = NoDeal /\ ~book[r].fresh
          /\ sync' = WrittenOff(r, "never_opened")
       \/ /\ book[r].state = "OPEN" /\ book[r].deal # NoDeal
          /\ sync' = [sync EXCEPT !.pc = "probe", !.seen[r] = book[r].deal]
    /\ UNCHANGED <<book, ig, task, closer>>

\* Mutant: a single miss of the bulk list is trusted.
SyncProbeTrustsList(r) ==
    /\ sync.pc = "probe"
    /\ r = First(sync.todo)
    /\ sync' = WrittenOff(r, "closed_externally")
    /\ UNCHANGED <<book, ig, task, closer>>

\* Mutant: a 404 is taken for one more uncertain answer.
SyncProbeNeverSure(r) ==
    /\ sync.pc = "probe"
    /\ r = First(sync.todo)
    /\ sync' = Walked(r)
    /\ UNCHANGED <<book, ig, task, closer>>

\* _ig_position_gone: only a definitive 404 closes the row.
SyncProbe(r) ==
    /\ sync.pc = "probe"
    /\ r = First(sync.todo)
    /\ \/ /\ ig[sync.seen[r]].state # "live"
          /\ sync' = WrittenOff(r, "closed_externally")
       \/ /\ ig[sync.seen[r]].state = "live" \/ May("timeout")
          /\ sync' = Walked(r)
    /\ UNCHANGED <<book, ig, task, closer>>

ToAdopt == sync.free \ sync.known

SyncedRow(r) ==
    LET row == IF sync.bound[r] # NoDeal
               THEN Rebound(book[r], sync.bound[r]) ELSE book[r]
    IN IF sync.closed[r] # "" THEN ClosedRow(row, sync.closed[r]) ELSE row

\* The next |S| primary keys, handed to the deals of S in any list order.
NewKeys(S) ==
    {f \in Injection(S, UnusedRows) :
        \A q \in UnusedRows, d \in S : q < f[d] => \E c \in S : f[c] = q}

\* One commit for the whole run, adopted rows included.  An UPDATE of a row
\* its opener deleted fails it as a whole (StaleDataError).
SyncCommit ==
    /\ sync.pc = "walk" /\ sync.todo = {}
    /\ \/ /\ \A r \in sync.touched : book[r].state # "deleted"
          /\ \E f \in NewKeys(ToAdopt) :
              book' = [r \in Rows |->
                         IF \E d \in ToAdopt : f[d] = r
                         THEN AdoptedRow(CHOOSE d \in ToAdopt : f[d] = r)
                         ELSE SyncedRow(r)]
       \/ /\ \E r \in sync.touched : book[r].state = "deleted"
          /\ UNCHANGED book
    /\ sync' = IdleSync
    /\ UNCHANGED <<ig, task, closer>>

-----------------------------------------------------------------------------
(* Closers: a snapshot of rows, then _close_position for some of them. *)

IdleCloser == [pc |-> "idle", todo |-> {}, refused |-> FALSE,
               seen |-> [r \in Rows |-> NoDeal]]

CloserType == [pc : {"idle", "pass", "resolved", "verify", "confirm",
                     "commit", "unread", "phantom"},
               todo : SUBSET Rows, refused : BOOLEAN,
               seen : [Rows -> DealIds]]

Snapshot(S) == [IdleCloser EXCEPT !.pc = "pass", !.todo = S,
                    !.seen = [r \in Rows |-> IF r \in S THEN book[r].deal
                                             ELSE NoDeal]]

\* The monitoring pass and the forced closes read every OPEN row; the button
\* loads one row and checks that it is OPEN.
BeginPass(c) ==
    /\ closer[c].pc = "idle"
    /\ \/ c \in Sweepers /\ OpenRows # {}
          /\ closer' = [closer EXCEPT ![c] = Snapshot(OpenRows)]
       \/ c \in Buttons
          /\ \E r \in OpenRows : closer' = [closer EXCEPT ![c] = Snapshot({r})]
    /\ UNCHANGED <<book, ig, task, sync>>

At(c, where, r) ==
    /\ closer[c].pc = where
    /\ r = First(closer[c].todo)

\* Done with row r, whatever came of it.
PastRow(me, r) ==
    IF me.todo = {r} THEN IdleCloser
    ELSE [me EXCEPT !.pc = "pass", !.todo = @ \ {r}, !.seen[r] = NoDeal,
                    !.refused = FALSE]
MoveOn(c, r) == closer' = [closer EXCEPT ![c] = PastRow(closer[c], r)]

GoTo(c, where) == closer' = [closer EXCEPT ![c].pc = where]

\* The close profile holds, or the market price cannot be fetched.
HoldRow(c, r) ==
    /\ At(c, "pass", r)
    /\ MoveOn(c, r)
    /\ UNCHANGED <<book, ig, task, sync>>

\* _close_position on a row loaded without dealId: take the first listed deal
\* of its epic.  An empty answer, or none, makes the close a phantom.
ResolveDeal(c, r) ==
    /\ At(c, "pass", r)
    /\ closer[c].seen[r] = NoDeal
    /\ \/ /\ \E L \in SUBSET LiveDeals :
               BulkList(L) /\ \A d \in L : ig[d].epic # book[r].epic
          /\ GoTo(c, "phantom")
          /\ UNCHANGED book
       \/ /\ May("timeout")
          /\ GoTo(c, "phantom")
          /\ UNCHANGED book
       \/ \E d \in LiveDeals :
            /\ ig[d].epic = book[r].epic
            /\ book[r].state # "deleted"
            /\ closer' = [closer EXCEPT ![c].pc = "resolved",
                                        ![c].seen[r] = d]
            /\ book' = [book EXCEPT ![r] = Rebound(@, d)]
    /\ UNCHANGED <<ig, task, sync>>

\* DELETE /positions/otc.  IG may answer 200 and refuse the close afterwards:
\* only GET /confirms tells.
SendClose(c, r) ==
    /\ \/ At(c, "pass", r) /\ closer[c].seen[r] # NoDeal
       \/ At(c, "resolved", r)
    /\ LET d == closer[c].seen[r] IN
       \/ /\ ig[d].state = "live"
          /\ GoTo(c, "confirm")
          /\ ig' = [ig EXCEPT ![d].state = "closed"]
       \/ /\ ig[d].state = "live" /\ May("close_refused")
          /\ closer' = [closer EXCEPT ![c].pc = "confirm",
                                      ![c].refused = TRUE]
          /\ UNCHANGED ig
       \/ /\ ig[d].state # "live"
          /\ GoTo(c, "verify")
          /\ UNCHANGED ig
       \/ /\ May("timeout")
          /\ MoveOn(c, r)
          /\ ig' \in {ig, [ig EXCEPT ![d].state =
                             IF @ = "live" THEN "closed" ELSE @]}
    /\ UNCHANGED <<book, task, sync>>

\* _handle_phantom_close: the DELETE got a 404, is the epic still listed?
VerifyGone(c, r) ==
    /\ At(c, "verify", r)
    /\ \/ /\ \E L \in SUBSET LiveDeals :
               BulkList(L) /\ \A d \in L : ig[d].epic # book[r].epic
          /\ GoTo(c, "phantom")
       \/ /\ \/ \E d \in LiveDeals : ig[d].epic = book[r].epic
             \/ May("timeout")
          /\ MoveOn(c, r)
    /\ UNCHANGED <<book, ig, task, sync>>

\* Mutant: the verdict of the confirmation is not looked at.
ConfirmCloseUnread(c, r) ==
    /\ At(c, "confirm", r)
    /\ GoTo(c, "commit")
    /\ UNCHANGED <<book, ig, task, sync>>

\* _fetch_close_result: a confirmation nobody could read counts as an executed
\* close.
ConfirmClose(c, r) ==
    /\ At(c, "confirm", r)
    /\ \/ ~closer[c].refused /\ GoTo(c, "commit")
       \/ May("late_confirm") /\ GoTo(c, "unread")
       \/ closer[c].refused /\ MoveOn(c, r)
    /\ UNCHANGED <<book, ig, task, sync>>

CloseReason(c) == IF c \in Buttons THEN "manual" ELSE "bot"

\* The final commit, whatever the row has become since it was loaded.
CommitClose(c, r) ==
    /\ \E where \in {"commit", "unread", "phantom"} : At(c, where, r)
    /\ book[r].state # "deleted"
    /\ book' = [book EXCEPT ![r] = [ClosedRow(@,
                    IF closer[c].pc = "phantom" THEN "not_found_in_ig"
                    ELSE CloseReason(c)) EXCEPT !.unread = closer[c].pc = "unread"]]
    /\ MoveOn(c, r)
    /\ UNCHANGED <<ig, task, sync>>

\* Writing a row its opener deleted raises, and the session's rollback takes
\* the rest of the pass with it.
PassBreaks(c, r) ==
    /\ \/ \E where \in {"commit", "unread", "phantom"} : At(c, where, r)
       \/ /\ At(c, "pass", r) /\ closer[c].seen[r] = NoDeal
          /\ \E d \in LiveDeals : ig[d].epic = book[r].epic
    /\ book[r].state = "deleted"
    /\ closer' = [closer EXCEPT ![c] = IdleCloser]
    /\ UNCHANGED <<book, ig, task, sync>>

-----------------------------------------------------------------------------
(* IG, the user at IG, the clock, the process *)

SettleOrder(d) ==
    /\ ig[d].state = "working"
    /\ \E s \in {"live", "rejected"} : ig' = [ig EXCEPT ![d].state = s]
    /\ UNCHANGED <<book, task, sync, closer>>

StopOut(d) ==
    /\ May("stop_out")
    /\ ig[d].state = "live"
    /\ ig' = [ig EXCEPT ![d].state = "closed"]
    /\ UNCHANGED <<book, task, sync, closer>>

OpenAtBroker(d, e) ==
    /\ May("external")
    /\ CanCreate(d, e)
    /\ ig' = [ig EXCEPT ![d] = [state |-> "live", epic |-> e]]
    /\ UNCHANGED <<book, task, sync, closer>>

\* RECONCILE_GRACE_SECONDS have passed since the row was written.
GraceEnds(r) ==
    /\ r \in OpenRows /\ book[r].fresh
    /\ \/ May("slow_fill")
       \/ /\ ig[book[r].ref].state # "working"
          /\ \A o \in Openers : ~Confirming(o, r)
    /\ book' = [book EXCEPT ![r].fresh = FALSE]
    /\ UNCHANGED <<ig, task, sync, closer>>

Crash ==
    /\ May("crash")
    /\ task' = [o \in Openers |-> IdleTask]
    /\ sync' = RestartedSync
    /\ closer' = [c \in Closers |-> IdleCloser]
    /\ UNCHANGED <<book, ig>>

-----------------------------------------------------------------------------
Init ==
    /\ book = [r \in Rows |-> NoRow]
    /\ ig = [d \in Deals |-> [state |-> "unused", epic |-> AnyEpic]]
    /\ task = [o \in Openers |-> IdleTask]
    /\ sync = IdleSync
    /\ closer = [c \in Closers |-> IdleCloser]

OpenerStep(o) ==
    \/ \E e \in Epics : PassGate(o, e)
    \/ AbandonOpen(o)
    \/ \E d \in Deals : PostOrder(o, d) \/ PostOrderUnanswered(o, d)
    \/ RecordRow(o) \/ ConfirmMissed(o) \/ ConfirmAnswered(o)
    \/ BindDeal(o) \/ DropRejected(o)

SyncStep ==
    \/ SyncReadOpen \/ SyncReadKnown \/ SyncList \/ SyncListFails
    \/ \E r \in Rows : SyncMatch(r) \/ SyncMiss(r) \/ SyncProbe(r)
    \/ SyncCommit

CloserWork(c) ==
    \E r \in Rows : \/ HoldRow(c, r) \/ ResolveDeal(c, r) \/ SendClose(c, r)
                    \/ VerifyGone(c, r) \/ ConfirmClose(c, r)
                    \/ CommitClose(c, r) \/ PassBreaks(c, r)

CloserStep(c) == BeginPass(c) \/ CloserWork(c)

WorldStep ==
    \/ \E d \in Deals : SettleOrder(d) \/ StopOut(d)
    \/ \E d \in Deals, e \in Epics : OpenAtBroker(d, e)
    \/ \E r \in Rows : GraceEnds(r)
    \/ Crash

Next ==
    \/ \E o \in Openers : OpenerStep(o)
    \/ SyncStep
    \/ \E c \in Closers : CloserStep(c)
    \/ WorldStep

Spec == Init /\ [][Next]_vars

\* What the scheduling grants: a started open, close or sync goes on (the
\* queue answers every call), the sync is started every 20 s and is never
\* switched off for good; IG settles an order; time passes.  A read that may
\* fail or lag succeeds in the end when it is tried again and again.  The
\* process does not crash for ever.
OpenerWork(o) ==
    \/ AbandonOpen(o) \/ \E d \in Deals : PostOrder(o, d)
    \/ RecordRow(o) \/ ConfirmMissed(o) \/ ConfirmAnswered(o)
    \/ BindDeal(o) \/ DropRejected(o)
SyncListWhole == SyncList /\ sync'.free = LiveDeals
SyncProbeAnswered(r) ==
    SyncProbe(r) /\ (ig[sync.seen[r]].state # "live" <=> sync'.closed[r] # "")

Fairness ==
    /\ \A o \in Openers : WF_vars(OpenerWork(o))
    /\ WF_vars(SyncStep) /\ SF_vars(SyncListWhole)
    /\ \A r \in Rows : SF_vars(SyncProbeAnswered(r))
    /\ \A c \in Closers : WF_vars(CloserWork(c))
    /\ \A d \in Deals : WF_vars(SettleOrder(d))
    /\ \A r \in Rows : WF_vars(GraceEnds(r))
    /\ <>[][~Crash]_vars

FairSpec == Spec /\ Fairness

-----------------------------------------------------------------------------
(* Properties *)

\* Every variable stays in its type; in particular an opener polls the
\* confirmation of its order at most ConfirmAttempts times.
TypeOK ==
    /\ book \in [Rows -> RowType]
    /\ ig \in [Deals -> DealType]
    /\ task \in [Openers -> TaskType]
    /\ sync \in SyncType
    /\ closer \in [Closers -> CloserType]

\* The bot never holds two open positions of its own making on one epic: the
\* gate, the order and the row's commit are covered by one lock per epic
\* (open_epic_guarded), whatever the sync and the closers do meanwhile.
OneOwnRowPerEpic ==
    \A r, q \in OpenRows :
        /\ book[r].origin = "own" /\ book[q].origin = "own"
        /\ book[r].epic = book[q].epic
        => r = q

\* open_position deletes a row only for an order IG rejected: "never delete
\* here, that would orphan a real fill".
DropOnlyRejected ==
    \A r \in Rows : book[r].state = "deleted" =>
        ig[book[r].ref].state = "rejected"

Gone(d) == d # NoDeal /\ ig[d].state = "closed"

\* A row closed with a real exit reason is a deal IG really closed: a close IG
\* refuses leaves the row OPEN (_fetch_close_result), unless nobody could read
\* the refusal.  As in the next property, the deal is the one the row had
\* throughout.
RealCloseIsReal ==
    \A r \in Rows : book[r].state = "CLOSE" /\ book[r].reason \in RealCloses
                    => Gone(book[r].deal) \/ book[r].rebound \/ book[r].unread

\* A row reconciled as closed_externally is a deal that is over at IG:
\* uncertainty never closes a live position (_ig_position_gone).
ClosedExternallyIsGone ==
    \A r \in Rows :
        book[r].state = "CLOSE" /\ book[r].reason = "closed_externally"
        => Gone(book[r].deal) \/ book[r].rebound

Tracked(d) ==
    \E r \in OpenRows : \/ book[r].deal = d
                        \/ book[r].deal = NoDeal /\ book[r].ref = d

\* No live deal is lost for good: one whose dealId is on record is still on an
\* OPEN row, since the adoption of sync_open_positions skips it.
NoOrphan == \A d \in LiveDeals : d \in KnownDeals => Tracked(d)

\* Every live deal ends up on an OPEN row, the ones whose POST answer was lost
\* and the ones opened at IG included, unless it is closed first.
EventuallyTracked ==
    \A d \in Deals : (ig[d].state = "live")
                     ~> (Tracked(d) \/ ig[d].state # "live")

\* A broker-side close is recorded in the end.
StopOutRecorded ==
    \A r \in Rows :
        (r \in OpenRows /\ Gone(book[r].deal)) ~> (book[r].state = "CLOSE")

\* A provisional row is bound, closed or dropped in the end.
ProvisionalSettles ==
    \A r \in Rows : (r \in OpenRows /\ book[r].deal = NoDeal)
                    ~> (r \notin OpenRows \/ book[r].deal # NoDeal)

=============================================================================
