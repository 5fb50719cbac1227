# Formal models of the trading bot

TLA+ models of the parts of the bot that decide about money at IG: which
positions it holds, where their stops are, what it opens, how prices reach it
and how its calls reach IG. The models are checked with TLC on small instances, and the main safety properties
are proved with TLAPS for every value of the constants.

Source paths below are relative to the repository's root
(`src/execution/trading.py`); `PROJECT.json` maps every definition to its lines.

## 1. The system

The bot is one Python process and one asyncio event loop. Python code runs
undisturbed between two `await`s, and everything else is a matter of which task
comes next. Four kinds of parties act on the same state:

- **tasks of the bot**: scheduled jobs, tasks spawned by candles, requests of
  the dashboard, the worker of the API queue;
- **IG**, the broker, which fills or rejects orders, closes positions on their
  stops, and whose list of positions may lag;
- **the user**, on the dashboard, and directly at IG;
- **the operating system**, which may kill the process. The database (SQLite
  through SQLAlchemy) survives; tasks, locks, queue and buffers do not.

Every task opens its own database session with `expire_on_commit=False`: a row
keeps the column values it was loaded with, and a commit writes the columns the
task assigned, whatever others have written since. Nearly everything hard in
this system follows from that and from the awaits in between.

### Components

| Component | State | Operations | Correct when | Modelled |
|---|---|---|---|---|
| **Position book** (`execution/trading.py`, parts of `core/scheduler.py`) | the `position` table; the deals at IG; per-epic open locks; the sync lock | guarded open, confirmation, sync (match, probe, write-off, adopt), close, monitoring pass, manual close | one own position per epic; a recorded exit happened; no live deal is lost; every broker-side close is recorded | `PositionBook` |
| **Protective stop** (`trading.py` `manage_position` to `set_stop_manually`, `exit/close_zoneprofit.py`) | `stop_follower`, `level_stop`, `level_loose`, `stop_manual_zone`; the stop order at IG | evaluate and tighten, push to IG, manual move, pin and release, close on the follower | only tightened by the bot; the recorded broker level is the resting one; a pinned stop stays; the backstop fires | `StopRatchet` |
| **Exit zones, stop distances** (`exit/`, `stops/`, `core/indicators.py`) | none | choose the first stop; classify the gain; propose a level, for one position or the whole book | a level is never looser than another zone left it, nor in the market | `Indicators`, `InitialStop`, `ExitZones` |
| **Open gates, entry strategies** (`execution/gates.py`, `entry/`, `core/similarity.py`) | none (they read the table and the candles) | allow or veto an open; pick epics; filter duplicates | a vetoed epic is never opened; a basket holds no bet twice | rules and baskets in `EntryRules`; gates in `PositionBook` and `Selection` |
| **Backtester, simulator** (`backtest/`) | trades, series, cooldown of a replayed day | replay candles through entry and exit | a replayed trade loses no more than its first stop; opens keep their pace | `TradingDay` |
| **Scheduler** (`core/scheduler.py`) | job modes, last runs, the auto-open switch, debounce task, rolling target, tradable list | start, pause and resume jobs, catch-up, candle trigger, refresh of the lists, select and open, revert after a stop | a missed job is replayed; the target is not exceeded; modes and switch survive a restart; overlapping refreshes agree | `Bot`; selection and revert in `Selection`; guarded open, sync and pass in `PositionBook` |
| **Market scanner** (`markets/`) | the set of unresolvable epics | crawl, filter, batch details, diversify | what is selected can be traded and streamed | `MarketScanner`, driven by `Bot` |
| **Price feed** (`feed/`) | Lightstreamer session, subscriptions; buffers, candle table, archive | subscribe, reconnect, watchdogs; append, save, purge, export, reload | one session; every open epic streamed; candles in order, none twice, none lost | `Streaming`, `Candles` |
| **API queue** (`core/api_queue.py`) | priority queue, the worker, one future per call, attempts | submit, take, dispatch, retry, back off, resolve, stop | every call answered; no order sent twice; urgent calls first | `ApiQueue`, `CallOnce` |
| **API guard, IG client, session** (`core/api_guard.py`, `core/api/`) | sliding windows, cooldown, tokens | check, record, block; request, classify the answer; refresh the tokens | never above IG's allowance; a blocked worker resumes | the block and the classes of answers, in `ApiQueue` |
| **Start-up and shutdown** (`main.py`) | the connection loop | connect, set up, tear down | what was on before a stop is on after it | the order of the start in `Bot`; the shutdown's effect on calls in `ApiQueue` |
| **Dashboard** (`web/`) | none of its own | render; close, open, move a stop, switch jobs | its actions obey the same rules | its actions that reach the modelled components |
| **Models, migrations, configuration, logs, scripts** | tables, files | | | the columns that decisions read |

### How they interact

```
 candles --> scheduler --> monitoring pass --+
 cron jobs -----^  |                         |       +-------------+     +----+
                   +--> selection, revert ---+-----> | API queue   |---> | IG |
                   +--> sync (20 s) ---------+       | (1 worker)  | <---|    |
 dashboard --> open / close / move stop -----+       +-------------+     +----+
                          |                                                 |
                          v                                       fills, stop-outs,
                   position table <---- each task's own session   list that lags
```

- A call through the queue has three moments: the task awaits a future, IG has
  its effect and answers, the task continues. Other tasks run in between.
- The table is shared without row locks. Exclusion is by hand: one
  `asyncio.Lock` per epic around an open, one around the sync, one flag around
  the pass. The close button takes none of them.
- IG changes deals on its own, and the bot learns of it only by the sync.

### What is hard

- *Stale state*: rows loaded before an await and written after it (sync, pass,
  manual stop), dealIds read before the broker's list.
- *Unreliable delivery*: an order, a close or a stop move that IG carried out
  and whose reply was lost; a confirmation that cannot be read; a bulk list that
  omits a live position.
- *Partial failure*: a refused push after which only one of two levels may
  advance; one sync commit for all rows that fails as a whole.
- *Ordering*: the confirmation of an order against the grace period of the sync.
- *Restart*: between an accepted order, its row and its dealId; between a mode or
  the switch and its row; between the archive of a candle and its deletion.
- *Overlapping jobs*: refreshes of a list, saves of the modes and stamps of a
  run, cron runs and replayed ones.
- *Composed rules*: each zone, stop policy and strategy is tested alone; a price
  wanders from one zone to the next and hands the stop on.
- *Liveness*: every future answered, every position found, the last backstop
  never switched off.

`PROJECT.json` lists these hazards line by line, with the properties that guard
each and, where none does yet, why.

## 2. The modules

| Module | Contents | Role |
|---|---|---|
| `PositionBook` | rows, deals, openers, sync, closers, IG | specification |
| `MCPositionBook` | symmetry of deals | TLC instances `Book*.cfg` |
| `PositionBookProofs` | five theorems: rows and locks, then what a closed row says of its deal | TLAPS |
| `StopRatchet` | one position's stop, three copies of it, two tasks | specification |
| `MCStopRatchet` | bids 8, 10, 11 and 12, two proposals | TLC instance `StopManaged.cfg` |
| `StopRatchetProofs` | five theorems | TLAPS |
| `Selection` | who opens positions and how many: selections, reverts, users, the switch | specification |
| `MCSelection` | the three kinds of ranking strategies, symmetry | TLC instances `Select*.cfg` |
| `SelectionProofs` | three theorems | TLAPS |
| `CallOnce` | what a caller of the queue may count on | abstract specification |
| `ApiQueue` | the queue, its worker and IG's answers; `Contract == INSTANCE CallOnce WITH ...` | implements `CallOnce` |
| `MCApiQueue` | an order, a read, a probe | TLC instance `Queue.cfg` |
| `ApiQueueProofs` | three theorems, the refinement among them | TLAPS |
| `Streaming` | the stream's session, its reconnects, the subscribed epics, the watchdogs | specification |
| `MCStreaming` | no definitions of its own | TLC instance `Feed.cfg` |
| `StreamingProofs` | one theorem | TLAPS |
| `Candles` | one epic's candles: frames, polls, buffer, table, archive, restart | specification |
| `MCCandles` | no definitions of its own | TLC instance `Candles.cfg` |
| `CandlesProofs` | four theorems | TLAPS |
| `Indicators` | ATR, noise, regression, efficiency, ... over integer candles | operators |
| `InitialStop` | the six stop policies; extends `Indicators` | operators |
| `ExitZones` | the zones, every updater, the group plan; extends `InitialStop` | operators |
| `EntryRules` | the rule of every strategy, curves and duplicates; extends `Indicators` | operators |
| `TradingDay` | a day minute by minute: candles, exits, opens; extends `ExitZones`, `EntryRules` | specification |
| `MCTradingDay` | shapes of candles, close profiles, strategies | TLC instance `Replay.cfg` |
| `TradingDayProofs` | seven theorems, and the lemmas on indicators, updaters and sums they rest on | TLAPS |
| `MarketScanner` | which markets are tradable, batches, reasons | operators |
| `Bot` | the process: start, modes, switch, jobs, catch-up, candle trigger, lists; extends `MarketScanner` | specification |
| `MCBot` | a catalogue of eight markets, seven scenarios | TLC instance `Bot.cfg` |
| `BotProofs` | three theorems | TLAPS |

What is common to all: **a step is what one task does between two
awaits**, and IG's effect is separate from the code that runs on its answer.
`Events` is a constant that says what the environment may do in an instance; an
assumption under which a property holds is an event the instance leaves out, and
is therefore visible in the `.cfg`. Definitions commented *Mutant* are plausible
bugs in one definition of the code; each is tied to the property that
refutes it, to show that the property depends on that definition.

### PositionBook

| Model | Code |
|---|---|
| `book[r]`: `state`, `epic`, `ref`, `deal`, `origin`, `reason` | `Position.state`, `epic`, the deal reference, `deal_id`, `reason_open` (adopted or not), `reason_close` |
| `book[r].fresh` | the row is younger than `RECONCILE_GRACE_SECONDS` |
| `ig[d]` | the deals at IG: working, live, closed, rejected |
| `task[o]`, `PassGate` to `DropRejected` | `open_epic_guarded`, `open_position`, `_post_open_order`, `_confirm_with_retry` |
| `sync`, `SyncReadOpen` to `SyncCommit` | `sync_open_positions`, one action per await: OPEN rows, known dealIds, bulk list, the walk with its probes, the one commit |
| `closer[c]`, `BeginPass` to `PassBreaks` | `_monitor_positions_pass`, `_close_position`, `_handle_phantom_close`, `_fetch_close_result`, `close_manually` |
| `SettleOrder`, `StopOut`, `OpenAtBroker`, `GraceEnds`, `Crash` | IG, the user at IG, the clock, the end of the process |

The fields `seen`, `touched`, `bound` and `closed` of `sync` are the session's
loaded values and pending assignments. `SyncMiss` re-reads the row, as the code
does, and `SyncCommit` does not, as the code does not. `rebound` (the row was
handed another deal than it had) and `unread` (closed on a confirmation nobody
could read) are history.

*Abstracted*: a dealReference and its dealId are one value; prices and P&L are
left out, so the deal "nearest in level" is any unclaimed deal of the epic; all
rows are of one trading day; gates that only read (hours, margin, spread) appear
as the freedom not to open. A row whose writing raises leaves the pass
(`PassBreaks`).

### StopRatchet

The stop exists three times: the software follower the bot closes on
(`row.follower`), the last level IG accepted (`row.stop`), and the order at IG
(`igStop`). The pass and the user each hold a loaded copy (`mover[x]`), wait
for a PUT (`puts`) and commit. Prices are integers; **the zone updaters are
left arbitrary** (`RaiseFollower` and `RaiseStop` take any proposal), so what
is shown of the ratchet owes nothing to their formulas. `Init` has the row the
bot writes, and an adopted one with a stop or without. A pass and a user's move
may overlap at every await, since the dashboard takes no lock of the monitor.
`pinned`, `unsure` and `overtaken` (a move was committed while the pass under way
held its copy) are history: no action reads them.

| Model | Code |
|---|---|
| `BeginPass`, `Backstop`, `CloseHour`, `Unbuffered` | `_monitor_positions_pass`, `CloseZoneProfit.evaluate`, `check_and_close` |
| `KeepStop`, `ReleaseHold`, `RaiseFollower`, `RaiseStop` | `manage_position`, `_ratchet_stop` |
| `PickStop`, `CommitManual` | `set_stop_manually` |
| `PutAccepted`, `PutRefused`, `PutLost`, `PutFails` | `_push_stop_to_ig` and the exceptions it lets through |
| `BrokerLevel`, `BrokerTarget`, `Zone` | `_clamp_broker_stop_to_min_distance`, `_ratchet_stop`, `classify_zone` |

### Selection

`PositionBook` says what happens between an opener, its row and its deal;
`Selection` says who opens and how often, and reduces an open to: refused,
carried out with its reply lost, or recorded and then confirmed or taken back.
A deal whose reply was lost is `hidden` until the sync adopts it.

| Model | Code |
|---|---|
| `strategy` | `concurrent_positions`, `wallet_bounded`, `require_flat_book` of the selected strategy |
| `BeginSelect` to `EndPass` | `_select_and_open`, one action per await: lock and count, ranking, balance, each candidate |
| `TakeLock`, `GateHolds`, `Send` | `open_epic_guarded` with `can_open_intent` under the epic's lock |
| `BeginRevert`, `DropRevert`, `Mark` | `_revert_after_stop_loss`; the row is stamped after the open has returned |
| `owed[r]` | `reconciled_closed` of a sync, or the close a monitoring pass has just made |
| `autoOpen`, `SwitchOff`, `SwitchOn` | `auto_open_enabled`, `set_auto_open` |

*Abstracted*: the ranking is any set of candidates in any order; every margin is
one unit, known to the scanner or not (a market of unknown margin passes the wallet
gate and is not taken off the wallet); the brakes that only hold back (cooldown, secured winner,
participation) are the freedom of `StandAside`; which stop-outs qualify for a
revert is the freedom of `DropRevert`, its single hop excepted. An exception in
a pass is a pass that skips the rest. Per-epic strategies, which open through
`_evaluate_epic` without a target, are left out. `by`, `counted` and `late` are history.

### ApiQueue and CallOnce

`Submit`, `Take`, `Dispatch`, `IgAnswers`, then one of `Succeed`, `RateLimited`,
`Retry`, `Abandon`: the worker's loop with `_process` and `_handle_failure`.
`Take` and `Dispatch` are separate because the worker holds a call while the
guard blocks, and a more urgent one may arrive. `Cancel` is a caller that is
cancelled: the future is, the call is not. `Stop` cancels the worker. `doubt` is
the set of writes IG may still carry out although nobody has an answer.
`CallOnce` is the contract: one answer per call, `"ok"` only for what was done,
`"refused"` only for what never will be, and nothing done twice.

### Streaming

The library keeps its session on threads of its own, so what the session is
(`session`) and what the bot has been told of it (`news`, `closed`) differ.

| Model | Code |
|---|---|
| `Start`, `StartConnects`, `StartFails`, `Stop` | `start`, `_connect`, `stop` |
| `HandleStatus`, `HandleClosed`, `StartsReconnect` | `handle_status` on the loop, of the current client and of one torn down |
| `TearDown`, `Reconnected`, `ReconnectFails` | `_reconnect` up to and after its awaits; `reconnect.epics` is its copy |
| `SetEpics`, `EnsureConnected` | `set_epics` under the cap, `ensure_connected` |
| `WatchReads`, `InNeed`, `WatchRepairs` | `_streaming_health_check` and the analysis tick's watchdog: a read of the table, then `resubscribe` and `add_epic` |
| `SessionUp` to `Closed` | Lightstreamer, the market, the selection (external) |

*Abstracted*: tokens; the age of the last candle is fresh or stale; all that the
watchdogs do after the read of the table is one step, as in the code.

### Candles

A candle is its minute and whether the minute was over. `wire` are frames handed
over with `call_soon_threadsafe`; `saves` are `CandleStore.save` calls, each with
a read and a commit, or an end by an exception that is logged (`SaveFails`, at
most `MaxFailed` times; `failed` is history); `purge` and `export` have an await between their files and
their commit. While the process is down `buffer` keeps what it held, for the
comparison in `RestartResumes`. `source` is `streaming_enabled`: the frames, or
the legacy polls that may overlap.

### TradingDay with Indicators, InitialStop, ExitZones, EntryRules

One action is one minute: every epic prints a candle of one of a few shapes, then
open positions are stopped, closed or have their stop moved, then the strategy
opens. `mode` is `"replay"` (`backtest/simulator.py`: the broker's stop inside the
candle, the profile's level verbatim) or `"live"` (the pass of the scheduler with
the group plan and the ratchet of `manage_position`).

| Model | Code |
|---|---|
| `Atr`, `AdverseNoise`, `SlopeNum`, `Efficient`, ... | `core/indicators.py` |
| `FlatDistance` to the shape policy, `Bounded` | the policies of `stops/` and their floors and caps |
| `TrendCut`, `TimedLift`, `LimitLoose`, ...; `Zone`, `NewStop`, `Evaluate` | the updaters of `exit/zones/`, `close_zoneprofit.py` |
| `GroupPlan`, `Members` | `plan_group_tightening`, `group_member`, `plan_group` |
| `Intents`, `Rankings`, `Winners`, `Baskets` | the strategies' `evaluate` and `rank`, `_select_and_open` of the simulator |
| `Signature`, `Correlated`, `SameBet`, `Deduplicate` | `core/similarity.py` |

*Arithmetic.* Prices are integers on a grid and every division rounds to it, the
way the code would with a tick of one; a ratio is compared by cross-multiplication,
and a threshold in percent or ATR is kept in hundredths or tenths. The windows and
the thresholds that depend on the grid are constants (`Windows`, `Knobs`), small in
the instance so that every rule becomes warm within a few minutes. *Abstracted*:
the weights with which composite rankers order their picks: any order of those
the rule admits; sizes and money, except in the group plan, where a position's
worth per point matters.

### Bot and MarketScanner

| Model | Code |
|---|---|
| `Connect`, `Restore`, `StartScheduler`, `LoadPreferences`, `ReplayReads` | `main.py`: restored lists, `scheduler.start`, `load_job_preferences`, `run_catch_up`, in that order |
| `SetModes`, `SetAutoOpen`, `SaveReads`, `SaveCommits` | `set_job_mode`, `pause_bot`, `resume_bot`, `set_auto_open`, and the saves after them: a read of rows, then a commit |
| `AutoOpenEnabled`, `RestoredSwitch` | the property of that name and `_restore_auto_open` |
| `Run`, `Works`, `Fails`, `StampReads`, `StampCommits` | a job and `_record_job_run` |
| `LastFire`, `NeverRan`, `Missed`, `ReplayNext` | `_last_scheduled_fire`, `run_catch_up` |
| `OnCandle`, `DebounceEnds`, `PassBegins`, `PassEnds`, `Heartbeat` | `on_candle`, `_run_debounced_monitor`, `_monitor_positions` |
| `Crawl`, `PersistList`, `Fetch`, `Select`, `CloseStranded`, `CaptureFlags`, `PersistFlags`, `FlagsFail`, `Feed` | `_refresh_epic_list`, `_refresh_tradable_epics` and `_persist_tradable_flags`: what is read between two awaits is one action; the list whose flags are written is taken at the call, and committed several awaits later |
| `SelectTradable`, `Diversified`, reasons | `markets/market_scanner.py` |

`prefs`, `rows` and the table of runs survive `Down`; everything else is lost. A
scenario of the instance says which jobs there are and what may happen: modes
against stamps, the switch over two days, a slot missed while down, candles
during a pass, and three with refreshes. `blocked`, `barred`, `asked`, `owed`,
`ended`, `fresh`, `collided` and `stale` are history.

## 3. What the runs check

| Run | Instance | Question | Result |
|---|---|---|---|
| `book_locking` | 1 epic, 2 deals, 4 rows, 2 openers, sync | Do lock, gate and commit-before-confirm keep one own row per epic? Is a row ever dropped but for a rejection? | hold; about 1.5 M states |
| `book_tracking` | 2 epics, 2 deals, 4 rows, 1 opener that may reopen, sync | Is a live deal ever recorded and then lost? | holds; about 0.7 M |
| `book_closing` | 1 epic, 1 deal, 2 rows, opener, monitor, button, sync | Is every recorded exit one that happened? | hold; about 3 M |
| `book_liveness` | 1 epic, 1 deal, 2 rows, opener, sync | Is every live deal found, every stop-out recorded, every provisional row settled, crashes included? | hold; about 1500 |
| `stop_managed` | bids 8 to 12, long and short, own and adopted, pass and user overlapping | Ratchets, recorded level, pin, backstop | hold; about 0.3 M |
| `select_rolling` | 2 epics, 2 selections, a reverter, 3 strategies, margins known or not, lost replies, the switch | Do the selections keep to their limit and series? What does a closed day still send? | hold; about 2 M |
| `select_ends` | 1 epic, 2 selections, a reverter, a user | Does every task get its locks and end? | holds; about 9000 |
| `queue` | 3 calls of 3 kinds, 2 attempts, cancel and stop | Contract, overtaking, every call answered | hold; about 0.2 M |
| `feed` | 2 epics, a cap of 1, the health check, 2 faults | Is there one session at a time? Is an open position's epic served again whatever dropped it? | hold |
| `candles` | 5 minutes, midnight before the last, a buffer of 3, a reload of 2, 1 crash, 1 failed save, stream or polls | Is the buffer the tail of the finished candles? Is what it held on record, does it stay there, and what does a restart give back? | hold; about 2.9 M |
| `replay` | 23 kinds of day, 5 to 8 minutes, up to 3 epics, every policy, updater and rule | Does a stop ever give ground or reach the price, a trade lose more than its first stop, a series or a pace break, an armed plan bank no gain, a basket hold a bet twice? | hold |
| `jobs` | 7 scenarios, 2 days of 2 ticks, 1 crash | Do modes and switch outlive restarts and midnight? Is a missed slot replayed, a candle followed by a pass, and do overlapping refreshes agree? | hold |

**Bounds.** Two openers are enough for the lock, which is per epic and
pairwise; four rows let each of the two deals have an own and an adopted row.
Two deals on one epic give the sync a choice of which to bind, and two on two
epics a sync that walks several rows and adopts several deals. `book_closing`
needs one deal only: its conflicts are between tasks over one row.
`ConfirmAttempts = 2` (the code: `CONFIRM_MAX_ATTEMPTS`) has a first, a further
and a last poll. Four bids with `Risk = 2`, `Spread = 1`, `Cushion = 1`,
`Noise = 1` reach followers touched and not, both sides of IG's distance, and
two zones, underwater and the break-even band: a pin is only ever compared with
the bid's zone, so leaving one zone and coming back is the interesting case. Two
epics let a pass open a second position after a first; two selections are what
the code runs concurrently (analysis tick and hourly job), and a reverter is a
task that opens beside them; one unit of funds makes the wallet the limit at once. Three
calls give one held by the worker and two in either order behind it. Deals and
rows are finite and used up: a spec state in which every deal is spent is a
state in which nothing further is opened, not a deadlock (the sync goes on).
`CHECK_DEADLOCK FALSE` is set where the system stops: a closed position, a
stopped or idle queue, a clock at its bound. Deals are symmetric in the safety runs; liveness runs use
no symmetry.

`feed`: two epics under a cap of one are the smallest selection that has to leave
one out; two faults let a reconnect fail and a stall come on top of a dead
session. `candles`: a buffer of three and a retention of two minutes make the
purge, the full buffer and midnight all happen within five minutes; one crash
meets every await. A buffer of three and a reload of two are the case in which the
two sizes part: in the code the buffer is the setting `BUFFER_MAX_CANDLES`
(`config.py:139`), which the scheduler's warning tells the operator to raise
(`scheduler.py:641`), and the reload the constant 200 (`scheduler.py:1327`). `replay`: six to eight minutes are a warm-up, an open, two or
three zones and a close; the shapes (a rally, a rise, a dip, a crash that gaps
down) are the moves that change the zone. The windows are 2 to 6 candles, and
every rule opens and closes a trade in the instance. Two days of two ticks in
`jobs` are a slot, a midnight and a slot missed; a crash is allowed at every step.
`MaxMinute`, `LastTick`, `MaxFaults`, `MaxFailed`, `MaxCrashes` and `MaxWire` are the bounds of
what the code does not bound.

**Events left out, and why.**

- `book_tracking` has no closers and no `shared_epic`: with either, a live deal
  can be lost (section 5). Nor has it `slow_fill`: with it, a row written off and
  then confirmed is bound while closed (section 5). What the run shows is that the
  opener and the sync do not lose a deal between them.
- `book_liveness` has no `slow_fill`: a slow fill may be lost (section 5).
- `select_rolling` has no users: the opens of a user and of a revert take the
  same path and differ in the switch and the stamp only. `select_ends` has one.

**What the properties except, and why.** Where the code breaks a rule in one
known way, the event stays in the run and the property names the way, so that
it says that there is no other.

- `RealCloseIsReal`, `ClosedExternallyIsGone`: a row that was handed a second deal
  (`rebound`). The first also: a row closed on a confirmation nobody could read.
- `RatchetOnly`, `BrokerRatchetOnly`: a pass overtaken by a committed move of the
  user's. `PinnedStopStays`: a stop pinned while a pass was under way. The second
  also: a PUT in doubt after a lost reply.
- `RolledWithinLimit` counts the selections' own rows, those of users and reverts and
  adopted ones coming on top; and against the wallet only those of known margin,
  for the code lets a market of unknown margin pass ("Unknown margin -> allow",
  `scheduler.py:2467`) and does not take it off the wallet (`:2492`).
- `BufferedIsSaved`: a candle whose save failed.
- `RestartResumes`: candles of a save that failed or was cut off by the crash, and
  those beyond the reload. It says which come back: the newest that both the buffer
  and the table had, as many as the reload takes, however large the buffer.
- `RefreshesAgree`: the stored flags, when their write failed or a selection came
  between its list and its commit.

**Fairness.** `PositionBook`: a started open, close or sync goes on, since the
queue answers every call; the job starts a sync every 20 s; IG settles orders;
time passes; a list that may omit and a probe that may fail give a true answer
in the end if they are repeated (strong fairness of `SyncListWhole` and
`SyncProbeAnswered`); and the process does not crash for ever (`<>[][~Crash]_vars`,
which is why a sync that has not run since a restart is told from an idle one). No fairness for opening, for the start of a close, for crashes or
for IG's own moves. `ApiQueue`: the worker and IG go on (httpx gives up after
30 s), and IG is not over quota for ever. `StopRatchet`: passes recur, at every
candle and every 30 s, and are not always forestalled by the user; the queue
answers; a close asked for again and again is carried out in the end.
`Selection`: a task that has begun goes on, since the queue answers, and
`asyncio.Lock` wakes its waiters in turn (strong fairness of taking a lock); no
task need ever begin. `Streaming`: the health check runs every minute and is not
always forestalled, a reconnect goes on, statuses reach the loop, a session that
is not disturbed comes up, and an epic that is served sends a candle (strong
fairness: faults are bounded, and the selection changes hourly). `Bot`: the process is restarted, saves, runs and the replay go on since the
database is local, and the heartbeat, the debounce timer and a started pass end.
The user, candles, failures and crashes have none.

**Liveness is model-checked only.** `EventuallyTracked`, `StopOutRecorded`,
`ProvisionalSettles`, `EveryCallAnswered`, `EveryTaskEnds`, `BackstopFires`, `OpenEpicsServed`, `SlotCovered` and
`CandleMonitored` are beyond the prover, and so is anything that involves `ENABLED`.

## 4. What is proved

For all values of the constants that satisfy the named assumptions
(`BookAssumption`, `StopAssumption`, `QueueAssumption`, `StreamingAssumption`,
`CandlesAssumption`, `SelectionAssumption`, `BotAssumption`, `DayAssumption`,
`WindowsAssumption`, `KnobsAssumption`, `LockAssumption`: the sets' kinds and
that prices are integers, levels positive, targets at least one, a retention of at
least two minutes, the switch's row none of the jobs caught up, a finite catalogue,
windows of at least one candle, well-formed candles in the opening, one ATR period
for strategies and profiles, `open_five` ranking across epics; no bound on numbers
of tasks, deals, rows, calls, epics, positions, jobs, days, restarts, minutes, or on
prices).

| Theorem | Statement | Argument |
|---|---|---|
| `PositionBookProofs!TypeCorrect` | `Spec => []TypeOK` | inductive as it stands, with small type facts about each operator |
| `OneOwnRow` | `Spec => []OneOwnRowPerEpic` | `LockIInv`: two opens in progress are on two epics (`LockInv`); what the gate saw still holds when the row is written (`GateInv`), since only a task with the epic's lock writes an own row; and the property itself (`RowInv`) |
| `DropsOnlyRejected` | `Spec => []DropOnlyRejected` | `DropIInv`: an opener about to drop its row knows a deal IG rejected, and IG never takes a rejection back |
| `ExternalCloses` | `Spec => []ClosedExternallyIsGone` | `DealInv`: a dealId the sync or a closer loaded is still the row's unless its opener dropped the row or the row was rebound (`SyncInv`, `CloserInv`), so an answer about the one is an answer about the other |
| `OwnCloses` | `Spec => []RealCloseIsReal` | the same invariant: a close that goes on to its commit was carried out, or nobody could read what became of it (`CloserRec`) |
| `StopRatchetProofs!TypeCorrect` | `Spec => []TypeOK` | with the place of each task in the queue of PUTs |
| `RecordedStop` | `Spec => []RecordedIsResting` | `Settled`: one answer at a time is dealt with, and without doubt the order at IG is the recorded level or the one just accepted. Holds with any events |
| `FollowerRatchets`, `BrokerRatchets`, `PinnedStays` | the three action properties | `RatchetInv`: until a user's move has overtaken it, a pass works on the committed row and asks for nothing looser (`PassFresh`); a move IG has answered is about to be committed and overtakes the pass under way (`AnswerSeen`); while a stop is pinned, row and pass know the zone (`PinHeld`) |
| `ApiQueueProofs!TypeCorrect` | `Spec => []TypeOK` | `StrikeInv`: a call that may start an attempt has a strike left; that bounds `attempts` |
| `OvertakenBound` | `Spec => []OvertakenOnce` | `OvertakeInv`: a call ahead of the one the worker holds has not been overtaken yet |
| `KeepsContract` | `Spec => CallOnceSpec` | `ContractInv`: a call that is queued, held or answered without success is not done, one in doubt is a write that never returns to the queue; every step of the queue is a step of `CallOnce` or a stutter |
| `StreamingProofs!OneSessionHolds` | `Spec => []OneSession` | `SessionInv`: while a reconnect waits for its tokens there is no session, and before the first connection no status |
| `CandlesProofs!RecordsAreKept` | `Spec => RecordsKept` | `RecordInv`: nothing on its way to the table is past the retention, since the clock waits for it; and a purge that has written its files has every row it deletes in the archive |
| `BufferHoldsTail` | `Spec => []BufferIsTail` | `FinalInv`: what is received are final candles, one per minute. To append one candle to the tail of a set and cut is to take the tail of the larger set, wherever in the order it falls |
| `BufferIsSaved` | `Spec => []BufferedIsSaved` | `SourceInv` on top: a candle handed to the buffer is in the table, on its way to it, or behind a newer one on record, since one save is under way at a time where a job polls and each save is one candle where a feed streams |
| `ResumesAfterRestart` | `Spec => RestartResumes` | `OrderInv`: candles arrive in the order of their minutes, so the table has no candle the buffer lacks between two that it holds (`GapFree`); failed saves leave gaps in the table only. The last `Reloaded` rows then hold the last `Reloaded` candles the two had in common, and cutting a tail to the buffer's size leaves a tail |
| `SelectionProofs!WithinLimit` | `Spec => []RolledWithinLimit` | `SelectInv`: one selector is past the lock (`LockInv`); it leaves room, in the target or in what the account covers, for what it may still open and the row it is confirming (`RoomInv`). Everybody else takes selectors' rows away at most |
| `SeriesHolds` | `Spec => []SeriesIsWhole` | the same invariant, by `SeriesInv`: the pass began on an empty book, so each selector's row is its own |
| `OneLate` | `Spec => []OneLateOrder` | `LateInv`: who has sent an order late is neither waiting for a lock nor holding one, and cannot come back to it while the switch is off |
| `BotProofs!BlockHolds` | `Spec => []BlockLastsItsDay` | `BotInv`: a day that is blocked has begun, and while it lasts the memory of a live process and the record both say so, as does a save of the switch that is still on its way; a block in memory, on record or in a save is one the user asked for |
| `ModesHold` | `Spec => []ModesKept` | the same invariant, by `ModeInv`: until an insert is lost the record is what the user was told, and memory is ahead of it by the save on its way |
| `RefreshesHold` | `Spec => []RefreshesAgree` | `RunsInv`: a run holds the fields its step reads, and nothing runs before the process is live; `RefreshInv`: flags and subscriptions agree with the last selection, unless a run that selected is still to go through its flags or its feed |
| `TradingDayProofs!DayHolds` | `Spec => []DayTyped` | inductive: no buffer is empty, every candle is well formed, nothing was opened later than now. Needs the kind of every indicator |
| `FollowersTighten` | `Spec /\ []StopsSet => FollowerTightens` | `Fair`: what an updater returns, in any zone, is behind the price and, when a stop is set, in front of it; shown for each updater and for the group plan. `Settled` and `Played` carry it through a minute |
| `StopsStayBehind` | `Spec /\ []LiveStopsSet => []StopBehindPrice` | inductive: `Fair` again, and for the open a lower bound on the distance each of the six stop policies returns |
| `LossesStayWithinRisk` | `Spec /\ []StopsSet => []LossWithinRisk` | `Guarded`: a stop in a replay is never on the far side of the one the trade began with |
| `OpensStayPaced` | `Spec => []OpensPaced` | `PacedSoFar`: every opening, of trades open and closed, is at or before the one that is remembered |
| `GroupPromiseHolds` | `Spec /\ []PricesSet => GroupPromise` | each member's stop moves at least to the level the plan counted with, the haircut is monotonic, and a sum grows with its terms |
| `BasketsAreDistinct` | `Spec /\ []ClosesSet => BasketDistinct` | the filter compares a candidate with what is kept, in one order only, so likeness must go both ways: a curve is flat iff every return has the same letter (its scatter is the sum of the squared distances from the mean), and the sums of a correlation are re-indexed from one curve's minutes to the other's |

Few of these properties are inductive as they stand: e.g. a state
with two tasks past the gate of one epic satisfies `OneOwnRowPerEpic` and not
its successor.

`PositionBook`'s `TypeOK` is proved only: no run repeats it.

No theorem on the book, the stop, the selection, the queue, the candles or the lists
leaves an event out. The ways in which the code breaks a rule are in the properties
instead (section 3), each a history variable or field that the actions of the code
set and none reads.

The four hypotheses of `TradingDay` are about states. `StopsSet` (every stop is
above zero; `LiveStopsSet` asks for it in live mode only) is needed since the code
reads a stop at or below zero as "none yet" (`exit/zones/smartgroup.py:223`,
`exit/close_zoneprofit.py:386`); `PricesSet` (every open is above zero) since the
group plan leaves a position without an open out of its sums
(`exit/zones/smartgroup.py:322`); `ClosesSet` (every close is above zero) since a
return divides by the close before it, and `similarity.py:174` gives up a series
with one that is not. Prices at IG are positive. In the instance `Replay.cfg` every
state satisfies `PricesSet` and `ClosesSet`. `StopsSet` fails where the price, of
200, has collapsed by 30 a minute for several minutes and a position is opened with
a stop far below it, and holds elsewhere.

Sums and indicators are folds or recursive functions over a finite interval or
set. No induction theorem with an operator parameter is used: a fold is
unfolded once, and a statement about all its lengths is proved by taking the
smallest counterexample.

`NoOrphan` is model-checked only: proved, it would need the openers alone beside
the sync, without the monitoring pass that always runs. With that exception every
invariant and every action property a run checks is the property of a theorem, for
any events; liveness is model-checked (section 3).

## 5. Where code and comments part

Seen while modelling; no run is kept for them. An event or a history variable in
brackets says how to see one: add the event to the `.cfg`, or take the variable
out of the property, and TLC shows the steps.

- `trading.py:1646`: the sync re-reads a row before it awaits the targeted GET
  and not after, and overwrites a close committed meanwhile, which the comment
  (#6) above it excludes.
- `trading.py:1235`: a close whose confirmation cannot be read yet counts as
  done, and is not repaired when IG has refused it (`unread` in
  `RealCloseIsReal`).
- `trading.py:2096`: a pass that loaded the row before the user moved the stop
  commits a follower behind the user's, takes the hold of a stop just pinned away
  or moves past it (`overtaken` in `RatchetOnly`, the guard of `pinned`).
- `scheduler.py:2490`: an order whose reply was lost counts as no open, the pass
  takes the next candidate, and the target, "never overshot" (`:2198`), is
  exceeded once the sync has adopted the first.
- `scheduler.py:2467`, `:2492`: a market whose margin is unknown is opened whatever the
  wallet and not counted against it; `market_scanner.py:718-733` keeps such markets
  among the candidates (`counted` in `RolledWithinLimit`).
- `scheduler.py:1972-2099`: a revert is stamped after its open has returned. A position
  stopped out before that (by the sync or the other pass), an exception, a crash or a
  lost reply leaves it without the stamp, and it is reverted again, although
  `gates.py:41-44` and `docs/strategies/README.md:108` say that the chain is capped at
  one hop and a choppy market cannot ping-pong the account.
- `trading.py:1705`: the known dealIds are read before the broker's list, so a
  row committed and bound in between is adopted a second time; the comment at
  `:1532` excludes it.
- `trading.py:2351`: `_push_stop_to_ig` catches `IGAPIError` only; after another
  lost reply the recorded level lags the order at IG, and the next pass may
  loosen the order although the comment at `:2348` says never. It is the reason
  for the condition on `unsure` in `BrokerRatchetOnly`.
- `trading.py:2618`: a row without dealId whose position does not appear in the
  list, or whose list cannot be read, is closed as `not_found_in_ig` (the fill
  may follow). A row without dealId leaves the deal to adoption; one its opener
  binds before or after that close leaves it live and untracked (`NoOrphan` with
  a closer), even when IG answers every call.
- `trading.py:981`: a confirmation that arrives after the sync wrote the row off
  as `never_opened` binds the dealId to the closed row; adoption then skips
  the deal. It takes a settlement slower than the grace period (`slow_fill`).
- `trading.py:1608`, `:2458`: with several deals on one epic a row without
  dealId is bound to the nearest level, or to the first listed: it may be handed a
  deal that is not its own (`rebound`).
- `trading.py:216`: `_is_epic_open` raises when an epic has two open rows, which
  an adopted row next to an own one makes possible.
- `trading.py:2438`: `_push_stop_to_ig` says that failures are logged and not
  raised; exceptions other than `IGAPIError` are raised.
- `set_stop_manually`: its comment says that the software follower is persisted
  before the push; both are committed after it.
- `check_and_close`: its docstring names the follower; it decides on the win and
  loss levels and the end of the day.

Feed:

- `scheduler.py:1327`: a restart reloads at most 200 candles, the default size of the
  buffer, whatever `BUFFER_MAX_CANDLES` says; with the larger buffer the warning at
  `:641` asks for, it does not give back the same intra-day history "it had before
  the stop".
- `candle_store.py:159`: whatever a save raises is logged, and its candles are not
  saved again (`failed` in `BufferedIsSaved`).
- `streaming.py`: a late status of a client that was torn down starts another,
  needless reconnect; `stop` during a reconnect leaves the new client connected;
  epics beyond the cap are dropped from the end, whatever they were added for.
- `candle_store.py:214`: "archived exactly once" does not hold after an export,
  or after a crash between the file and the commit: the rows are written again.

Exits, replay, entries:

- A simulated trade has neither date nor opening time, so the updaters that ask
  for the candles since the open see older ones in the replay than live. The
  replay also knows neither IG's minimum distance nor an epic's own closing hour,
  and opens at and after the close of the day.
- `timedlift`: "moves at most once per period" holds only if the follower is left
  alone; within a period the proposal still follows the window. `trendcut`
  halves the risk again on every tick, since it counts from the follower.
- The group plan counts a member as moved that then holds (no ATR yet), is pinned,
  or whose price has gapped through its stop; `GroupPromise` says which are excepted.
- The comment in the simulator that the level is taken verbatim, and that of
  `zones/base.py` that updaters may loosen, part from `manage_position`, which
  ratchets. `FollowerTightens` shows that no updater makes use of it.
- `similarity.py`: `max_redundancy` of 1.0 is said to drop exact matches; the test
  is strict and drops nothing. Equal fingerprints count as like without a common time.
- A ranker may open an epic that has no candle in the current minute, at its last price.

Process and lists:

- `scheduler.py:898`: two toggles from two tabs may commit in reverse order; an
  insert that meets another one is logged and lost (the exception in `ModesKept`);
  a failed save or load of the switch forgets the block.
- `scheduler.py:164-170`: a daily or weekly summary replayed after midnight takes
  today's date. A replayed job may run at the same time as the cron's; a run begun
  before a slot and stamped after it covers the slot.
- `scheduler.py:1662`: the list whose flags are stored is taken at the call and
  committed several awaits later. A selection in between whose own write comes first
  leaves the older list's flags on record (`stale` in `RefreshesAgree`), as does a write
  that fails, which is logged (`:1309`). Two overlapping refreshes may also leave a row
  that is tradable and has a reason not to be.
- `market_scanner.py`, `_fetch_batch`: an outage answered with 500 marks every epic
  of the batch unresolvable for the life of the process.
- `main.py:62-169`: a set-up that fails half-way is not torn down: the worker of the
  queue and the stream go on while the connection loop starts others.

## 6. Not modelled

- Sizes, P&L (but for the group plan's), the daily and weekly summaries, the
  statistics and reports of the backtester, the generator of curves.
- The scores and the consensus of the composite rankers: real-valued weights; any
  order of the admitted candidates stands for them.
- Real-valued prices: the rules are checked on an integer grid, see above. A
  property of the form "off by one rounding" is out of reach.
- The guard's sliding windows and cooldowns; the session's tokens; the quota of the
  REST fallback. APScheduler's misfire grace and coalescing.
- A set-up that raises half-way; two processes on one account.
- HTML, JSON, logs, migrations, configuration, scripts.

## 7. Plan

1. **Abstract book**: a deal is unknown, tracked or over, which `PositionBook`
   implements.
2. **Guard**: sliding windows over a discrete clock, with the promise that
   `ApiQueue` assumes (a block ends) as its abstract specification.
3. **Composition**: the openers' and closers' calls through `CallOnce`, to
   discharge the assumption that a call has its effect at most once; `Streaming`
   with `Candles` (a reconnect that loses frames).
