--------------------------------- MODULE Bot ---------------------------------
(***************************************************************************)
(* The scheduler's life: the process and its restarts (main.py), the jobs  *)
(* with their automatic or manual mode, the mode's row and the last run's  *)
(* stamp in job_preference, the replay of missed slots, the auto-open      *)
(* switch, the monitoring passes that candles trigger, and the two jobs    *)
(* that keep the epic lists (core/scheduler.py).                           *)
(*                                                                         *)
(* Time is a count of ticks, DayLength to a day.  An await is the end of a *)
(* step.  The local database answers; a statement that breaks a unique key *)
(* fails, and the code logs it and goes on.                                *)
(***************************************************************************)
EXTENDS MarketScanner

CONSTANTS
    CatchUp,    \* the jobs with catch_up, in the order of JOB_DEFINITIONS
    SlotAt,     \* the tick of the day each of them fires at
    Seeds,      \* DEFAULT_EPICS
    Scenarios,  \* [jobs, asks, acts, pages, lost, statuses, held]: see below
    DayLength,
    LastTick,   \* bound on the clock
    MaxCrashes  \* bound on restarts, failed start-ups included

\* A scenario bounds a behaviour: jobs are those the user switches, asks how
\* often something is asked for, acts the groups of actions that happen, pages
\* the answers a crawl may get, lost the epics whose details a request may lose,
\* statuses the market statuses IG may report and held the epics with an open
\* position.
Monitor == "monitor"
EpicList == "epics"
Tradable == "tradable"
Switch == "auto_open"
CatchUpJobs == {CatchUp[i] : i \in DOMAIN CatchUp}
Jobs == CatchUpJobs \cup {Monitor, Tradable}

ASSUME BotAssumption ==
    /\ DayLength \in Nat \ {0} /\ {LastTick, MaxCrashes} \subseteq Nat
    /\ \A j \in CatchUpJobs : SlotAt[j] \in 0..(DayLength - 1)
    /\ CatchUp \in Seq(CatchUpJobs) /\ Switch \notin CatchUpJobs
    /\ \A s \in Scenarios : s.jobs \subseteq Jobs /\ IsFiniteSet(s.held)

VARIABLES
    scene, clock, asks, crashes,
    phase,    \* of the process: "down", "wired", "restored", "started", "live"
    auto,     \* the jobs that have a next_run_time
    switch,   \* [on, day]: _auto_open_enabled, _auto_open_day
    prefs,    \* job_preference: key -> [auto, last, stamp]
    write,    \* the user's save in flight: a set of at most one
    runs,     \* the job runs in flight
    startup,  \* the one-shot jobs that have not fired yet
    replay,   \* run_catch_up
    debounce, \* _monitor_debounce_task: "none", "waiting" or "passing"
    beat,     \* a pass started by the heartbeat holds _monitor_lock
    all, tradable, \* _all_epics, _tradable_epics
    poison,   \* the scanner's _poison_epics
    rows,     \* the epic table: epic -> [tradable, reason]
    streamed, \* the epics the feed subscribes
    held,     \* the epics with an open position
    stale,    \* history: the flags on record may be those of an older list, since a
              \* write of theirs failed or was under way when a list was selected
    asked,    \* history: the modes the user was told are set
    blocked,  \* history: the days the user was told are blocked
    barred,   \* history: the days the user ever asked to block
    collided, \* history: an insert was lost to another one
    owed,     \* history: the last slot of a job the user had made automatic
    ended,    \* history: when the last run of a job ended
    fresh     \* history: a candle arrived that no pass has read

machine == <<phase, auto, switch, write, runs, startup, replay, debounce, beat>>
lists == <<all, tradable, poison, rows, streamed, held, stale>>
history == <<asked, blocked, barred, collided, owed, ended, fresh>>
vars == <<scene, clock, asks, crashes, machine, prefs, lists, history>>

Today == clock \div DayLength
Acts(a) == a \in scene.acts
Idle == [pc |-> "idle", now |-> 0, last |-> <<>>, left |-> <<>>]

Init ==
    /\ scene \in Scenarios
    /\ clock = 1 /\ asks = 0 /\ crashes = 0
    /\ phase = "down" /\ auto = {} /\ switch = [on |-> TRUE, day |-> 0]
    /\ prefs = <<>> /\ write = {} /\ runs = {} /\ startup = {} /\ replay = Idle
    /\ debounce = "none" /\ beat = FALSE
    /\ all = Seeds /\ tradable = Seeds /\ poison = {} /\ rows = <<>>
    /\ streamed = {} /\ held = scene.held /\ stale = FALSE
    /\ asked = {} /\ blocked = {} /\ barred = {} /\ collided = FALSE
    /\ owed = [j \in CatchUpJobs |-> 0] /\ ended = owed /\ fresh = FALSE

(***************************************************************************)
(* main.py: run_bot connects until it is told to stop; _run_connected      *)
(* builds the stack step by step, and a failure of a step degrades the     *)
(* process until the next attempt.                                         *)
(***************************************************************************)
Connect ==
    /\ phase = "down" /\ phase' = "wired"
    /\ UNCHANGED <<scene, clock, asks, crashes, auto, switch, prefs, write, runs,
                   startup, replay, debounce, beat, lists, history>>

Flagged == {e \in DOMAIN rows : rows[e].tradable}

\* load_persisted_state
Restore ==
    /\ phase = "wired" /\ phase' = "restored"
    /\ all' = IF rows = <<>> THEN Seeds ELSE DOMAIN rows
    /\ tradable' = IF Flagged = {} THEN Seeds ELSE Flagged
    /\ streamed' = Flagged
    /\ UNCHANGED <<scene, clock, asks, crashes, auto, switch, prefs, write, runs,
                   startup, replay, debounce, beat, poison, rows, held, stale, history>>

\* start: every job is registered and paused, but for the two of the start-up.
StartScheduler ==
    /\ phase = "restored" /\ phase' = "started"
    /\ startup' = IF Acts("lists") THEN {EpicList, Tradable} ELSE {}
    /\ UNCHANGED <<scene, clock, asks, crashes, auto, switch, prefs, write, runs,
                   replay, debounce, beat, lists, history>>

\* Mutant: the day of the stored block is not looked at.
RestoredSwitchOfAnyDay ==
    IF Switch \in DOMAIN prefs /\ ~prefs[Switch].auto
    THEN [on |-> FALSE, day |-> Today]
    ELSE [on |-> TRUE, day |-> 0]

\* _restore_auto_open: only a block of the same day counts.
RestoredSwitch ==
    IF Switch \in DOMAIN prefs /\ ~prefs[Switch].auto /\ prefs[Switch].stamp = Today
    THEN [on |-> FALSE, day |-> Today]
    ELSE [on |-> TRUE, day |-> 0]

\* load_job_preferences, then the task of run_catch_up.
LoadPreferences ==
    /\ phase = "started" /\ phase' = "live"
    /\ auto' = {j \in Jobs \cap DOMAIN prefs : prefs[j].auto}
    /\ switch' = RestoredSwitch
    /\ replay' = [Idle EXCEPT !.pc = "ready"]
    /\ UNCHANGED <<scene, clock, asks, crashes, prefs, write, runs, startup,
                   debounce, beat, lists, history>>

\* A failed step of the start-up, a shutdown or a crash: the memory goes.
Down ==
    /\ phase # "down" /\ Acts("crash") /\ crashes < MaxCrashes
    /\ crashes' = crashes + 1
    /\ phase' = "down" /\ auto' = {} /\ switch' = [on |-> TRUE, day |-> 0]
    /\ write' = {} /\ runs' = {} /\ startup' = {} /\ replay' = Idle
    /\ debounce' = "none" /\ beat' = FALSE
    /\ all' = Seeds /\ tradable' = Seeds /\ poison' = {} /\ streamed' = {}
    /\ stale' = FALSE /\ fresh' = FALSE
    /\ UNCHANGED <<scene, clock, asks, prefs, rows, held,
                   asked, blocked, barred, collided, owed, ended>>

(***************************************************************************)
(* The user's switches.  A save reads the rows it is about to write, one   *)
(* session.get each, and commits later; an UPDATE holds the columns that   *)
(* differ from what was read, and an INSERT fails on a row that has come   *)
(* to exist.  The user waits for the reply before the next request.        *)
(***************************************************************************)
Save(keys, on) == [keys |-> keys, on |-> on, day |-> Today, pc |-> "read", found |-> <<>>]

Asks == phase = "live" /\ write = {} /\ asks < scene.asks /\ asks' = asks + 1

\* set_job_mode, pause_bot and resume_bot.
SetModes(jobs, on) ==
    /\ Asks /\ Acts("modes")
    /\ auto' = IF on THEN auto \cup jobs ELSE auto \ jobs
    /\ write' = {Save(jobs, on)}
    /\ UNCHANGED <<scene, clock, crashes, phase, switch, prefs, runs, startup, replay,
                   debounce, beat, lists, history>>

SetAutoOpen(on) ==
    /\ Asks /\ Acts("switch")
    /\ switch' = [on |-> on, day |-> IF on THEN 0 ELSE Today]
    /\ write' = {Save({Switch}, on)}
    /\ blocked' = IF on THEN blocked \ {Today} ELSE blocked
    /\ barred' = IF on THEN barred ELSE barred \cup {Today}
    /\ UNCHANGED <<scene, clock, crashes, phase, auto, prefs, runs, startup, replay,
                   debounce, beat, lists, asked, collided, owed, ended, fresh>>

\* The getter re-authorises once the day is over; the dashboard polls it.
AutoOpenEnabled == switch.on \/ switch.day # Today

ReadSwitch ==
    /\ phase = "live" /\ ~switch.on /\ AutoOpenEnabled
    /\ switch' = [on |-> TRUE, day |-> 0]
    /\ UNCHANGED <<scene, clock, asks, crashes, phase, auto, prefs, write, runs,
                   startup, replay, debounce, beat, lists, history>>

RowOf(key) == IF key \in DOMAIN prefs THEN {prefs[key].auto} ELSE {}

SaveReads(w) ==
    /\ w.pc = "read"
    /\ write' = {[w EXCEPT !.pc = "commit", !.found = [k \in w.keys |-> RowOf(k)]]}
    /\ UNCHANGED <<scene, clock, asks, crashes, phase, auto, switch, prefs, runs,
                   startup, replay, debounce, beat, lists, history>>

Collides(found) == \E k \in DOMAIN found : found[k] = {} /\ k \in DOMAIN prefs

Saved(w) ==
    [k \in DOMAIN prefs \cup w.keys |->
        IF k \notin w.keys THEN prefs[k]
        ELSE IF w.found[k] = {} THEN [auto |-> w.on, last |-> 0, stamp |-> w.day]
        ELSE [prefs[k] EXCEPT !.auto = IF w.found[k] = {w.on} THEN @ ELSE w.on,
                              !.stamp = w.day]]

\* The commit, and the reply to the user.
SaveCommits(w) ==
    /\ w.pc = "commit"
    /\ write' = {}
    /\ prefs' = IF Collides(w.found) THEN prefs ELSE Saved(w)
    /\ collided' = (collided \/ Collides(w.found))
    /\ asked' = IF w.on THEN asked \cup (w.keys \ {Switch}) ELSE asked \ w.keys
    /\ blocked' = IF w.keys = {Switch} /\ ~w.on THEN blocked \cup {w.day} ELSE blocked
    /\ UNCHANGED <<scene, clock, asks, crashes, phase, auto, switch, runs, startup,
                   replay, debounce, beat, lists, barred, owed, ended, fresh>>

(***************************************************************************)
(* Job runs: [job, by, pc, got, told, held, list, seen].  A run of a list job    *)
(* goes through its own steps; a catch-up job ends with _record_job_run.   *)
(***************************************************************************)
Run(j, by) ==
    [job |-> j, by |-> by, got |-> IF j = Tradable THEN all ELSE {},
     pc |-> CASE j = EpicList -> "crawl" [] j = Tradable -> "fetch" [] OTHER -> "work",
     told |-> <<>>, held |-> {}, list |-> {}, seen |-> {}]

Started(r) == runs' = runs \cup {r}
Goes(r, next) == runs' = (runs \ {r}) \cup {next}
At(r, pc) == [r EXCEPT !.pc = pc]

EndsRun(r) ==
    /\ runs' = runs \ {r}
    /\ ended' = IF r.job \in CatchUpJobs THEN [ended EXCEPT ![r.job] = clock] ELSE ended

\* The cron fires at its slot, unless its previous run is still going.
Due(j, tick) == j \in CatchUpJobs /\ tick % DayLength = SlotAt[j]

Fired(tick) ==
    {Run(j, "cron") : j \in {x \in auto : /\ Due(x, tick)
                                          /\ \A r \in runs : r.job # x \/ r.by # "cron"}}

Tick ==
    /\ clock < LastTick /\ Acts("time")
    /\ clock' = clock + 1
    /\ runs' = IF phase = "live" THEN runs \cup Fired(clock + 1) ELSE runs
    /\ owed' = [j \in CatchUpJobs |-> IF j \in asked /\ Due(j, clock') THEN clock' ELSE owed[j]]
    /\ UNCHANGED <<scene, asks, crashes, phase, auto, switch, write, startup, replay,
                   debounce, beat, prefs, lists, asked, blocked, barred, collided, ended,
                   fresh>>

\* trigger_<action>, and the one-shot jobs of the start-up.
UserRuns(j) ==
    /\ Asks /\ Acts("trigger") /\ \A r \in runs : r.job # j \/ r.by # "user"
    /\ Started(Run(j, "user"))
    /\ UNCHANGED <<scene, clock, crashes, phase, auto, switch, write, startup, replay,
                   debounce, beat, prefs, lists, history>>

StartupFires(j) ==
    /\ phase = "live" /\ j \in startup
    /\ startup' = startup \ {j}
    /\ Started(Run(j, "startup"))
    /\ UNCHANGED <<scene, clock, asks, crashes, phase, auto, switch, write, replay,
                   debounce, beat, prefs, lists, history>>

Works(r) ==
    /\ r.pc = "work" /\ Goes(r, At(r, "stamp"))
    /\ UNCHANGED <<scene, clock, asks, crashes, phase, auto, switch, write, startup,
                   replay, debounce, beat, prefs, lists, history>>

\* A run that fails, or finds nothing, ends without a stamp.
Fails(r) ==
    /\ r.pc \in {"work", "crawl", "fetch"} /\ Acts("failures")
    /\ EndsRun(r)
    /\ UNCHANGED <<scene, clock, asks, crashes, phase, auto, switch, write, startup,
                   replay, debounce, beat, prefs, lists, asked, blocked, barred,
                   collided, owed, fresh>>

\* _record_job_run
StampReads(r) ==
    /\ r.pc = "stamp" /\ Goes(r, [At(r, "commit") EXCEPT !.seen = RowOf(r.job)])
    /\ UNCHANGED <<scene, clock, asks, crashes, phase, auto, switch, write, startup,
                   replay, debounce, beat, prefs, lists, history>>

\* Mutant: the whole row is written back.
StampedRow(r) ==
    IF r.seen = {} THEN (r.job :> [auto |-> FALSE, last |-> clock, stamp |-> 0]) @@ prefs
    ELSE [prefs EXCEPT ![r.job] = [@ EXCEPT !.auto = TRUE \in r.seen, !.last = clock]]

Stamped(r) ==
    IF r.seen = {}
    THEN [k \in DOMAIN prefs \cup {r.job} |->
            IF k = r.job THEN [auto |-> FALSE, last |-> clock, stamp |-> 0] ELSE prefs[k]]
    ELSE [prefs EXCEPT ![r.job] = [@ EXCEPT !.last = clock]]

StampCommits(r) ==
    LET lost == r.seen = {} /\ r.job \in DOMAIN prefs
    IN /\ r.pc = "commit" /\ EndsRun(r)
       /\ prefs' = IF lost THEN prefs ELSE Stamped(r)
       /\ collided' = (collided \/ lost)
       /\ UNCHANGED <<scene, clock, asks, crashes, phase, auto, switch, write, startup,
                      replay, debounce, beat, lists, asked, blocked, barred, owed, fresh>>

(***************************************************************************)
(* run_catch_up: what was last run is read once, then one job after the    *)
(* other is compared with its last slot and run if it is automatic.        *)
(***************************************************************************)
LastFire(j, now) == {t \in 1..now : Due(j, t) /\ \A u \in (t + 1)..now : ~Due(j, u)}

ReplayReads ==
    /\ replay.pc = "ready"
    /\ replay' = [pc |-> "going", now |-> clock, left |-> CatchUp,
                  last |-> [j \in CatchUpJobs |-> IF j \in DOMAIN prefs THEN prefs[j].last
                                                  ELSE 0]]
    /\ UNCHANGED <<scene, clock, asks, crashes, phase, auto, switch, write, runs,
                   startup, debounce, beat, prefs, lists, history>>

\* Mutant: a job that has ever run is not replayed.
NeverRan(j) == j \in auto /\ LastFire(j, replay.now) # {} /\ replay.last[j] = 0

Missed(j) == j \in auto /\ \E t \in LastFire(j, replay.now) : replay.last[j] < t

\* The replay awaits each run before it looks at the next job.
ReplayNext ==
    /\ replay.pc = "going" /\ \A r \in runs : r.by # "replay"
    /\ IF replay.left = <<>>
       THEN replay' = Idle /\ UNCHANGED runs
       ELSE /\ replay' = [replay EXCEPT !.left = Tail(@)]
            /\ runs' = IF Missed(Head(replay.left))
                       THEN runs \cup {Run(Head(replay.left), "replay")} ELSE runs
    /\ UNCHANGED <<scene, clock, asks, crashes, phase, auto, switch, write, startup,
                   debounce, beat, prefs, lists, history>>

(***************************************************************************)
(* Monitoring passes: the first candle of a wave schedules one, the cron   *)
(* starts one now and then, and a trigger that finds one going is dropped. *)
(***************************************************************************)
Locked == beat \/ debounce = "passing"

OnCandle ==
    /\ phase \in {"started", "live"} /\ Acts("candles") /\ ~(fresh /\ debounce # "none")
    /\ fresh' = TRUE
    /\ debounce' = IF debounce = "none" /\ Monitor \in auto THEN "waiting" ELSE debounce
    /\ UNCHANGED <<scene, clock, asks, crashes, phase, auto, switch, write, runs,
                   startup, replay, beat, prefs, lists, asked, blocked, barred,
                   collided, owed, ended>>

DebounceEnds ==
    /\ debounce = "waiting"
    /\ IF Monitor \in auto /\ ~Locked
       THEN debounce' = "passing" /\ fresh' = FALSE
       ELSE debounce' = "none" /\ UNCHANGED fresh
    /\ UNCHANGED <<scene, clock, asks, crashes, phase, auto, switch, write, runs,
                   startup, replay, beat, prefs, lists, asked, blocked, barred,
                   collided, owed, ended>>

\* Mutant: no heartbeat where the feed triggers the passes.
HeartbeatDropped == FALSE

Heartbeat == Monitor \in auto /\ ~Locked

PassBegins ==
    /\ phase = "live" /\ Acts("candles") /\ Heartbeat
    /\ beat' = TRUE /\ fresh' = FALSE
    /\ UNCHANGED <<scene, clock, asks, crashes, phase, auto, switch, write, runs,
                   startup, replay, debounce, prefs, lists, asked, blocked, barred,
                   collided, owed, ended>>

PassEnds ==
    /\ \/ beat /\ beat' = FALSE /\ UNCHANGED debounce
       \/ debounce = "passing" /\ debounce' = "none" /\ UNCHANGED beat
    /\ UNCHANGED <<scene, clock, asks, crashes, phase, auto, switch, write, runs,
                   startup, replay, prefs, lists, history>>

(***************************************************************************)
(* The daily crawl rebuilds the epic list, in memory and then on record.   *)
(***************************************************************************)
ListUnchanged ==
    UNCHANGED <<scene, clock, asks, crashes, phase, auto, switch, write, startup, replay,
                debounce, beat, prefs, asked, blocked, barred, collided, owed, fresh>>

Crawl(r) ==
    /\ r.pc = "crawl"
    /\ \E pages \in scene.pages :
         IF Discovered(pages) = {}
         THEN EndsRun(r) /\ UNCHANGED all
         ELSE /\ all' = Discovered(pages)
              /\ Goes(r, [At(r, "list") EXCEPT !.got = Discovered(pages)])
              /\ UNCHANGED ended
    /\ ListUnchanged /\ UNCHANGED <<tradable, poison, rows, streamed, held, stale>>

\* _persist_epic_list: a row that stays keeps its flags.
PersistList(r) ==
    /\ r.pc = "list"
    /\ rows' = [e \in r.got |-> IF e \in DOMAIN rows THEN rows[e]
                                ELSE [tradable |-> FALSE, reason |-> ""]]
    /\ Goes(r, At(r, "stamp"))
    /\ ListUnchanged
    /\ UNCHANGED <<all, tradable, poison, streamed, held, stale, ended>>

(***************************************************************************)
(* The hourly refresh narrows it down to the tradable epics.               *)
(***************************************************************************)
Fetch(r) ==
    /\ r.pc = "fetch"
    /\ \E lost \in scene.lost, status \in scene.statuses :
         LET fetched == FetchDetails(r.got, poison, lost)
             infos   == InClass(fetched.got)
         IN /\ poison' = fetched.poison
            /\ Goes(r, [At(r, "select") EXCEPT !.got = infos,
                          !.told = [e \in infos |-> status[e]]])
    /\ ListUnchanged
    /\ UNCHANGED <<all, tradable, rows, streamed, held, stale, ended>>

Chosen(r) == Diversified(SelectTradable(r.got, r.told), Cap)

OtherWrites(r) == \E q \in runs \ {r} : q.pc = "persist"

Select(r) ==
    /\ r.pc = "select"
    /\ tradable' = Chosen(r)
    /\ stale' = (stale \/ OtherWrites(r))
    /\ Goes(r, At(r, "held"))
    /\ ListUnchanged
    /\ UNCHANGED <<all, poison, rows, streamed, held, ended>>

\* A position on a market seen closed is closed, if IG takes the order.
CloseStranded(r) ==
    LET stranded == {e \in held \cap r.got : r.told[e] \notin {"TRADEABLE", "NO_PRICE"}}
    IN /\ r.pc = "held"
       /\ \E gone \in SUBSET stranded :
            /\ held' = held \ gone
            /\ Goes(r, [At(r, "flags") EXCEPT !.held = held \ gone])
       /\ ListUnchanged
       /\ UNCHANGED <<all, tradable, poison, rows, streamed, stale, ended>>

ReasonsOf(r) ==
    LET selected == SelectTradable(r.got, r.told)
        capped   == selected \ (Chosen(r) \cup r.held)
    IN [e \in capped |-> "streaming_cap"] @@ NonTradableReasons(r.got, selected, r.told)

\* The call of _persist_tradable_flags takes the list as it is by now.
CaptureFlags(r) ==
    /\ r.pc = "flags"
    /\ Goes(r, [At(r, "persist") EXCEPT !.list = tradable])
    /\ ListUnchanged
    /\ UNCHANGED <<all, tradable, poison, rows, streamed, held, stale, ended>>

\* Its statements are awaited one by one before the commit.
PersistFlags(r) ==
    /\ r.pc = "persist"
    /\ rows' = [e \in DOMAIN rows |->
                  [tradable |-> e \in r.list,
                   reason |-> IF e \in DOMAIN ReasonsOf(r) THEN ReasonsOf(r)[e] ELSE ""]]
    /\ stale' = (stale /\ (r.list # tradable \/ OtherWrites(r)))
    /\ Goes(r, At(r, "feed"))
    /\ ListUnchanged
    /\ UNCHANGED <<all, tradable, poison, streamed, held, ended>>

\* A write that fails is logged, and the refresh goes on.
FlagsFail(r) ==
    /\ r.pc = "persist" /\ Acts("failures")
    /\ stale' = TRUE
    /\ Goes(r, At(r, "feed"))
    /\ ListUnchanged
    /\ UNCHANGED <<all, tradable, poison, rows, streamed, held, ended>>

\* Mutant: the run subscribes what it selected itself.
OwnFeed(r) == {r.held \cup S : S \in {T \in SUBSET (Chosen(r) \ r.held) :
                 Cardinality(T) = Min({Cardinality(Chosen(r) \ r.held),
                                       Max({0, Cap - Cardinality(r.held)})})}}

\* Open positions first, then the tradable epics that still fit.
FeedOf(r) == {r.held \cup S : S \in {T \in SUBSET (tradable \ r.held) :
                Cardinality(T) = Min({Cardinality(tradable \ r.held),
                                      Max({0, Cap - Cardinality(r.held)})})}}

Feed(r) ==
    /\ r.pc = "feed"
    /\ streamed' \in FeedOf(r)
    /\ EndsRun(r)
    /\ ListUnchanged
    /\ UNCHANGED <<all, tradable, poison, rows, held, stale>>

ListStep(r) ==
    Crawl(r) \/ PersistList(r) \/ Fetch(r) \/ Select(r) \/ CloseStranded(r)
      \/ CaptureFlags(r) \/ PersistFlags(r) \/ Feed(r)

StartUp == Connect \/ Restore \/ StartScheduler \/ LoadPreferences
SaveStep == \E w \in write : SaveReads(w) \/ SaveCommits(w)
RunStep(r) == Works(r) \/ StampReads(r) \/ StampCommits(r) \/ ListStep(r)
RunSteps == \E r \in runs : RunStep(r)
ReplayStep == ReplayReads \/ ReplayNext

UserStep ==
    \/ \E j \in scene.jobs, on \in BOOLEAN : SetModes({j}, on)
    \/ \E on \in BOOLEAN : Acts("bot") /\ SetModes(Jobs, on)
    \/ \E on \in BOOLEAN : SetAutoOpen(on)
    \/ \E j \in scene.jobs \ {Monitor} : UserRuns(j)

Next ==
    \/ StartUp \/ Down \/ Tick \/ UserStep \/ ReadSwitch \/ SaveStep
    \/ \E j \in startup : StartupFires(j)
    \/ RunSteps \/ (\E r \in runs : Fails(r) \/ FlagsFail(r)) \/ ReplayStep
    \/ OnCandle \/ DebounceEnds \/ PassBegins \/ PassEnds

\* The process is started again, every run gets on, and the timers fire.
Fairness ==
    /\ WF_vars(StartUp) /\ WF_vars(SaveStep) /\ WF_vars(ReplayStep)
    /\ WF_vars(RunSteps)
    /\ WF_vars(DebounceEnds) /\ WF_vars(PassBegins) /\ WF_vars(PassEnds)

Spec == Init /\ [][Next]_vars /\ Fairness
-----------------------------------------------------------------------------
\* The switch is off on a day the user was told is blocked, restarts included,
\* and on no other day than one the user asked to block.
BlockLastsItsDay ==
    phase = "live" =>
        /\ Today \in blocked => ~AutoOpenEnabled
        /\ ~AutoOpenEnabled => Today \in barred

\* A job is in the mode the user was last told it is in, whatever was recorded
\* of its runs meanwhile and however often the process was restarted; only two
\* inserts of the same row can lose one.
ModesKept ==
    phase = "live" /\ write = {} /\ ~collided => auto = asked

\* A slot of an automatic job is followed by the end of a run of it, be it the
\* cron's or, when the process was down, the replay's.
SlotCovered ==
    \A j \in CatchUpJobs :
        owed[j] > ended[j] ~> (ended[j] >= owed[j] \/ j \notin asked \/ collided)

\* A candle that arrives while a pass is going, and so triggers none, is read
\* by a later pass all the same.
CandleMonitored == fresh ~> (~fresh \/ Monitor \notin auto)

\* Once no refresh is going, what is analysed is what is streamed, as far as
\* the cap allows, whichever of two overlapping refreshes ended last; and a
\* restart brings back nothing else, unless the last write of the flags failed
\* or an older list was still being written when the last one was selected.
RefreshesAgree ==
    phase = "live" /\ streamed # {} /\ (\A r \in runs : r.job # Tradable) =>
        /\ tradable \subseteq streamed \/ Cardinality(streamed) >= Cap
        /\ streamed \subseteq tradable \cup scene.held
        /\ stale \/ Flagged \subseteq tradable
=============================================================================
