------------------------------ MODULE BotProofs ------------------------------
(***************************************************************************)
(* Theorems about Bot: what the user was told of the switch and of the     *)
(* modes is what is in force, restarts included; and the epics analysed,   *)
(* streamed and flagged agree once no refresh is going.                    *)
(***************************************************************************)
EXTENDS Bot, FiniteSetTheorems, TLAPS

PrefRow == [auto : BOOLEAN, last : Int, stamp : Int]

\* A save, by what it is of: the modes of some jobs, or the switch alone.
SaveOk(w) ==
    /\ DOMAIN w = {"keys", "on", "day", "pc", "found"}
    /\ w.keys \in SUBSET Jobs \/ w.keys = {Switch}
    /\ w.on \in BOOLEAN /\ w.day \in Int /\ w.day =< Today

\* What a save has read is what it would read now, but for the row of a job that
\* a run's stamp has inserted since.
ReadOk(w) ==
    w.pc = "commit" =>
        /\ DOMAIN w.found = w.keys
        /\ \A k \in w.keys :
             IF w.found[k] = {} THEN k = Switch => k \notin DOMAIN prefs
             ELSE k \in DOMAIN prefs /\ w.found[k] = {prefs[k].auto}

ShapeInv ==
    /\ scene \in Scenarios /\ clock \in Int
    /\ prefs \in [DOMAIN prefs -> PrefRow]
    /\ startup \subseteq {EpicList, Tradable}
    /\ "left" \in DOMAIN replay /\ replay.left \in Seq(CatchUpJobs)
    /\ \A r \in runs : "job" \in DOMAIN r /\ r.job # Switch

WriteInv ==
    /\ phase # "live" => write = {}
    /\ \A w \in write : SaveOk(w) /\ ReadOk(w)

\* The switch in memory, on record and in the save on its way.
MemoryInv ==
    /\ switch.on \in BOOLEAN
    /\ ~switch.on => switch.day \in barred
    /\ phase = "live" /\ Today \in blocked => ~switch.on /\ switch.day = Today

RecordInv ==
    /\ \A d \in blocked : d \in Int /\ d =< Today
    /\ Switch \in DOMAIN prefs /\ ~prefs[Switch].auto => prefs[Switch].stamp \in barred
    /\ Today \in blocked =>
         Switch \in DOMAIN prefs /\ ~prefs[Switch].auto /\ prefs[Switch].stamp = Today

PendingInv ==
    \A w \in write : w.keys = {Switch} =>
        /\ ~w.on => /\ w.day \in barred
                    /\ w.day = Today => ~switch.on /\ switch.day = Today
        /\ Today \in blocked => ~w.on /\ w.day = Today

\* The modes on record are those the user was told, and memory is one save ahead.
Recorded == {j \in Jobs \cap DOMAIN prefs : prefs[j].auto}

Ahead(w) == IF w.on THEN asked \cup (w.keys \ {Switch}) ELSE asked \ w.keys

ModeInv ==
    ~collided =>
        /\ asked = Recorded
        /\ phase = "live" => /\ write = {} => auto = asked
                             /\ \A w \in write : auto = Ahead(w)

BotInv == ShapeInv /\ WriteInv /\ MemoryInv /\ RecordInv /\ PendingInv /\ ModeInv

LEMMA NoSwitchJob == Switch \notin Jobs
BY BotAssumption DEF Jobs, Switch, Monitor, Tradable

LEMMA TodayIsInt == clock \in Int => Today \in Int
BY BotAssumption DEF Today

\* A tick ends the day or does not.
LEMMA TodayMoves ==
    ASSUME clock \in Int, clock' = clock + 1
    PROVE  Today =< Today'
<1> DEFINE q == clock \div DayLength
           p == (clock + 1) \div DayLength
<1>1. q \in Int /\ p \in Int /\ DayLength \in Int /\ DayLength > 0
  BY BotAssumption
<1>2. DayLength * q =< clock
  BY BotAssumption
<1>3. clock + 1 < DayLength * p + DayLength
  BY BotAssumption
<1>4. ASSUME p < q PROVE FALSE
  <2> HIDE DEF q, p
  <2>1. p + 1 =< q
    BY <1>1, <1>4
  <2>2. DayLength * (p + 1) =< DayLength * q
    BY <1>1, <2>1
  <2>3. DayLength * (p + 1) = DayLength * p + DayLength
    BY <1>1
  <2>4. DayLength * p \in Int /\ DayLength * q \in Int
    BY <1>1
  <2> QED
    BY <1>1, <1>2, <1>3, <2>2, <2>3, <2>4
<1>5. q =< p
  <2> HIDE DEF q, p
  <2> QED BY <1>1, <1>4
<1> QED
  BY <1>5 DEF Today

settings == <<clock, phase, auto, switch, prefs, write, asked, blocked, barred, collided>>

\* A step that touches neither the settings nor what was told of them.
LEMMA Settled ==
    ASSUME BotInv, ShapeInv', UNCHANGED settings
    PROVE  BotInv'
<1>1. Today' = Today
  BY DEF settings, Today
<1>2. WriteInv'
  BY <1>1 DEF BotInv, WriteInv, SaveOk, ReadOk, settings, Jobs
<1>3. MemoryInv' /\ RecordInv' /\ PendingInv'
  BY <1>1 DEF BotInv, MemoryInv, RecordInv, PendingInv, settings
<1>4. ModeInv'
  BY DEF BotInv, ModeInv, Recorded, Ahead, settings, Jobs
<1> QED
  BY <1>2, <1>3, <1>4 DEF BotInv

LEMMA BotInit == Init => BotInv
<1> SUFFICES ASSUME Init PROVE BotInv
  OBVIOUS
<1> USE DEF Init
<1>1. ShapeInv
  BY DEF ShapeInv, Idle
<1>2. WriteInv /\ MemoryInv /\ RecordInv /\ PendingInv
  BY DEF WriteInv, MemoryInv, RecordInv, PendingInv
<1>3. ModeInv
  BY DEF ModeInv, Recorded
<1> QED
  BY <1>1, <1>2, <1>3 DEF BotInv

\* A run keeps its job.
LEMMA RunKeepsJob ==
    ASSUME NEW r, "job" \in DOMAIN r
    PROVE  /\ \A pc : /\ "job" \in DOMAIN At(r, pc) /\ At(r, pc).job = r.job
                      /\ \A x : /\ "job" \in DOMAIN [At(r, pc) EXCEPT !.got = x]
                                /\ [At(r, pc) EXCEPT !.got = x].job = r.job
                                /\ "job" \in DOMAIN [At(r, pc) EXCEPT !.held = x]
                                /\ [At(r, pc) EXCEPT !.held = x].job = r.job
                                /\ "job" \in DOMAIN [At(r, pc) EXCEPT !.seen = x]
                                /\ [At(r, pc) EXCEPT !.seen = x].job = r.job
                                /\ "job" \in DOMAIN [At(r, pc) EXCEPT !.list = x]
                                /\ [At(r, pc) EXCEPT !.list = x].job = r.job
                      /\ \A x, y : /\ "job" \in DOMAIN [At(r, pc) EXCEPT !.got = x, !.told = y]
                                   /\ [At(r, pc) EXCEPT !.got = x, !.told = y].job = r.job
BY DEF At

LEMMA RunHasJob == \A j, by : "job" \in DOMAIN Run(j, by) /\ Run(j, by).job = j
BY DEF Run

RunsShape == \A r \in runs : "job" \in DOMAIN r /\ r.job # Switch

\* The steps of a run that are no commit of a stamp.
LEMMA RunQuiet ==
    ASSUME BotInv, NEW r \in runs,
           Works(r) \/ StampReads(r) \/ ListStep(r) \/ Fails(r) \/ FlagsFail(r)
    PROVE  BotInv'
<1>1. "job" \in DOMAIN r /\ r.job # Switch /\ RunsShape
  BY DEF BotInv, ShapeInv, RunsShape
<1>2. UNCHANGED <<scene, startup, replay>> /\ UNCHANGED settings
  BY DEF Works, StampReads, ListStep, Fails, Crawl, PersistList, Fetch, Select,
         CloseStranded, CaptureFlags, PersistFlags, FlagsFail, Feed, ListUnchanged,
         settings, lists, history
<1>3. RunsShape'
  <2>1. CASE Works(r)
    BY <1>1, <2>1, RunKeepsJob DEF Works, Goes, RunsShape
  <2>2. CASE StampReads(r)
    BY <1>1, <2>2, RunKeepsJob DEF StampReads, Goes, RunsShape
  <2>3. CASE Fails(r)
    BY <1>1, <2>3 DEF Fails, EndsRun, RunsShape
  <2>4. CASE Crawl(r)
    BY <1>1, <2>4, RunKeepsJob DEF Crawl, Goes, EndsRun, RunsShape
  <2>5. CASE PersistList(r)
    <3>1. runs' = (runs \ {r}) \cup {At(r, "stamp")}
      BY <2>5 DEF PersistList, Goes
    <3> QED
      BY <1>1, <3>1, RunKeepsJob DEF RunsShape
  <2>6. CASE Fetch(r)
    BY <1>1, <2>6, RunKeepsJob DEF Fetch, Goes, RunsShape
  <2>7. CASE Select(r)
    BY <1>1, <2>7, RunKeepsJob DEF Select, Goes, RunsShape
  <2>8. CASE CloseStranded(r)
    BY <1>1, <2>8, RunKeepsJob DEF CloseStranded, Goes, RunsShape
  <2>9. CASE PersistFlags(r) \/ FlagsFail(r)
    <3>1. runs' = (runs \ {r}) \cup {At(r, "feed")}
      BY <2>9 DEF PersistFlags, FlagsFail, Goes
    <3> QED
      BY <1>1, <3>1, RunKeepsJob DEF RunsShape
  <2>10. CASE Feed(r)
    BY <1>1, <2>10 DEF Feed, EndsRun, RunsShape
  <2>11. CASE CaptureFlags(r)
    BY <1>1, <2>11, RunKeepsJob DEF CaptureFlags, Goes, RunsShape
  <2> QED
    BY <2>1, <2>2, <2>3, <2>4, <2>5, <2>6, <2>7, <2>8, <2>9, <2>10, <2>11 DEF ListStep
<1>4. ShapeInv'
  BY <1>2, <1>3 DEF BotInv, ShapeInv, RunsShape, settings
<1> QED
  BY <1>2, <1>4, Settled

\* Runs that are added to those in flight.
LEMMA RunsAdded ==
    ASSUME BotInv, NEW new, \A r \in new : "job" \in DOMAIN r /\ r.job # Switch,
           runs' = runs \cup new, UNCHANGED <<scene, prefs>>, clock' \in Int,
           startup' \subseteq startup,
           "left" \in DOMAIN replay', replay'.left \in Seq(CatchUpJobs)
    PROVE  ShapeInv'
BY DEF BotInv, ShapeInv

\* The steps of the process, its lists of runs and its passes that touch none of
\* the settings.
LEMMA OtherQuiet ==
    ASSUME BotInv,
           \/ \E j \in startup : StartupFires(j)
           \/ \E j \in scene.jobs : UserRuns(j)
           \/ ReplayStep
           \/ OnCandle \/ DebounceEnds \/ PassBegins \/ PassEnds
    PROVE  BotInv'
<1> USE DEF lists, history
<1>1. ASSUME NEW j \in startup, StartupFires(j)
      PROVE  ShapeInv' /\ UNCHANGED settings
  <2>1. j # Switch
    BY <1>1 DEF BotInv, ShapeInv, EpicList, Tradable, Switch
  <2>2. runs' = runs \cup {Run(j, "startup")} /\ clock' \in Int
    BY <1>1 DEF StartupFires, Started, BotInv, ShapeInv
  <2>3. UNCHANGED <<scene, prefs, replay>> /\ startup' \subseteq startup /\ UNCHANGED settings
    BY <1>1 DEF StartupFires, settings
  <2> QED
    BY <2>1, <2>2, <2>3, RunHasJob, RunsAdded DEF BotInv, ShapeInv
<1>2. ASSUME NEW j \in scene.jobs, UserRuns(j)
      PROVE  ShapeInv' /\ UNCHANGED settings
  <2>1. j # Switch
    BY <1>2, BotAssumption, NoSwitchJob DEF BotInv, ShapeInv
  <2>2. runs' = runs \cup {Run(j, "user")} /\ clock' \in Int
    BY <1>2 DEF UserRuns, Started, BotInv, ShapeInv
  <2>3. UNCHANGED <<scene, prefs, replay, startup>> /\ UNCHANGED settings
    BY <1>2 DEF UserRuns, settings
  <2> QED
    BY <2>1, <2>2, <2>3, RunHasJob, RunsAdded DEF BotInv, ShapeInv
<1>3. ASSUME ReplayReads
      PROVE  ShapeInv' /\ UNCHANGED settings
  BY <1>3, BotAssumption DEF ReplayReads, BotInv, ShapeInv, settings
<1>4. ASSUME ReplayNext
      PROVE  ShapeInv' /\ UNCHANGED settings
  <2>1. UNCHANGED settings /\ UNCHANGED <<scene, startup, prefs, clock>>
    BY <1>4 DEF ReplayNext, settings
  <2>2. CASE replay.left = <<>>
    <3>1. replay' = Idle /\ UNCHANGED runs
      BY <1>4, <2>2 DEF ReplayNext
    <3> QED
      BY <2>1, <3>1 DEF BotInv, ShapeInv, Idle
  <2>3. CASE replay.left # <<>>
    <3>1. Head(replay.left) \in CatchUpJobs /\ Tail(replay.left) \in Seq(CatchUpJobs)
      BY <2>3 DEF BotInv, ShapeInv
    <3>2. "left" \in DOMAIN replay' /\ replay'.left \in Seq(CatchUpJobs)
      BY <1>4, <2>3, <3>1 DEF ReplayNext, BotInv, ShapeInv
    <3>3. PICK new \in {{}, {Run(Head(replay.left), "replay")}} : runs' = runs \cup new
      BY <1>4, <2>3 DEF ReplayNext
    <3>4. Head(replay.left) # Switch
      BY <3>1, BotAssumption
    <3> QED
      BY <2>1, <3>2, <3>3, <3>4, RunHasJob, RunsAdded DEF BotInv, ShapeInv
  <2> QED
    BY <2>1, <2>2, <2>3
<1>5. ASSUME OnCandle \/ DebounceEnds \/ PassBegins \/ PassEnds
      PROVE  ShapeInv' /\ UNCHANGED settings
  BY <1>5 DEF OnCandle, DebounceEnds, PassBegins, PassEnds, BotInv, ShapeInv, settings
<1> QED
  BY <1>1, <1>2, <1>3, <1>4, <1>5, Settled DEF ReplayStep

\* The steps of the start-up before the preferences are read.
LEMMA StartUpKeeps ==
    ASSUME BotInv, Connect \/ Restore \/ StartScheduler
    PROVE  BotInv'
<1>1. UNCHANGED <<clock, scene, prefs, replay, runs, auto, switch, write, asked, blocked,
                  barred, collided>> /\ phase # "live" /\ phase' # "live"
  BY DEF Connect, Restore, StartScheduler, lists, history
<1>2. startup' \subseteq {EpicList, Tradable}
  BY DEF Connect, Restore, StartScheduler, BotInv, ShapeInv
<1>3. ShapeInv'
  BY <1>1, <1>2 DEF BotInv, ShapeInv
<1>4. Today' = Today
  BY <1>1 DEF Today
<1>5. WriteInv' /\ PendingInv'
  BY <1>1 DEF BotInv, WriteInv, PendingInv
<1>6. MemoryInv' /\ RecordInv'
  BY <1>1, <1>4 DEF BotInv, MemoryInv, RecordInv
<1>7. ModeInv'
  BY <1>1 DEF BotInv, ModeInv, Recorded, Jobs
<1> QED
  BY <1>3, <1>5, <1>6, <1>7 DEF BotInv

LEMMA LoadKeeps == BotInv /\ LoadPreferences => BotInv'
<1> SUFFICES ASSUME BotInv, LoadPreferences PROVE BotInv'
  OBVIOUS
<1>1. UNCHANGED <<clock, scene, prefs, runs, startup, write, asked, blocked, barred,
                  collided>> /\ phase = "started" /\ phase' = "live"
  BY DEF LoadPreferences, history
<1>2. Today' = Today
  BY <1>1 DEF Today
<1>3. ShapeInv'
  BY <1>1 DEF LoadPreferences, Idle, BotInv, ShapeInv
<1>4. WriteInv' /\ PendingInv' /\ write = {}
  BY <1>1 DEF BotInv, WriteInv, PendingInv
<1>5. MemoryInv' /\ RecordInv'
  BY <1>1, <1>2 DEF LoadPreferences, RestoredSwitch, BotInv, MemoryInv, RecordInv
<1>6. ModeInv'
  BY <1>1, <1>4 DEF LoadPreferences, BotInv, ModeInv, Recorded
<1> QED
  BY <1>3, <1>4, <1>5, <1>6 DEF BotInv

LEMMA DownKeeps == BotInv /\ Down => BotInv'
<1> SUFFICES ASSUME BotInv, Down PROVE BotInv'
  OBVIOUS
<1>1. UNCHANGED <<clock, scene, prefs, asked, blocked, barred, collided>>
      /\ phase' = "down" /\ write' = {} /\ runs' = {} /\ startup' = {}
      /\ replay' = Idle /\ switch' = [on |-> TRUE, day |-> 0]
  BY DEF Down
<1>2. Today' = Today
  BY <1>1 DEF Today
<1>3. ShapeInv'
  BY <1>1 DEF Idle, BotInv, ShapeInv
<1>4. WriteInv' /\ PendingInv'
  BY <1>1 DEF WriteInv, PendingInv
<1>5. MemoryInv' /\ RecordInv'
  BY <1>1, <1>2 DEF BotInv, MemoryInv, RecordInv
<1>6. ModeInv'
  BY <1>1 DEF BotInv, ModeInv, Recorded, Jobs
<1> QED
  BY <1>3, <1>4, <1>5, <1>6 DEF BotInv

\* A new save, and what it has changed in memory already.
LEMMA ModesKeep ==
    ASSUME BotInv, NEW jobs \in SUBSET Jobs, NEW on \in BOOLEAN, SetModes(jobs, on)
    PROVE  BotInv'
<1> PICK w : w = Save(jobs, on)
  OBVIOUS
<1>1. UNCHANGED <<clock, scene, prefs, runs, startup, replay, switch, phase, asked, blocked,
                  barred, collided>>
      /\ phase = "live" /\ write = {} /\ write' = {w}
      /\ auto' = IF on THEN auto \cup jobs ELSE auto \ jobs
  BY DEF SetModes, Asks, history
<1>2. Today' = Today /\ Today \in Int
  BY <1>1, TodayIsInt DEF Today, BotInv, ShapeInv
<1>3. /\ DOMAIN w = {"keys", "on", "day", "pc", "found"}
      /\ w.keys = jobs /\ w.on = on /\ w.day = Today /\ w.pc = "read"
  BY DEF Save
<1>4. ShapeInv'
  BY <1>1 DEF BotInv, ShapeInv
<1>5. WriteInv'
  BY <1>1, <1>2, <1>3 DEF WriteInv, SaveOk, ReadOk, Jobs
<1>6. MemoryInv' /\ RecordInv'
  BY <1>1, <1>2 DEF BotInv, MemoryInv, RecordInv
<1>7. PendingInv'
  BY <1>1, <1>3, NoSwitchJob DEF PendingInv
<1>8. ModeInv'
  <2>1. jobs \ {Switch} = jobs
    BY NoSwitchJob
  <2>2. asked' = asked /\ w.keys = jobs /\ w.on = on
    BY <1>1, <1>3
  <2>3. ~collided => asked' = Recorded' /\ auto = asked
    BY <1>1 DEF BotInv, ModeInv, Recorded, Jobs
  <2>4. ~collided => auto' = Ahead(w)'
    BY <1>1, <2>1, <2>2, <2>3 DEF Ahead
  <2> QED
    BY <1>1, <2>3, <2>4 DEF ModeInv
<1> QED
  BY <1>4, <1>5, <1>6, <1>7, <1>8 DEF BotInv

LEMMA SwitchKeeps ==
    ASSUME BotInv, NEW on \in BOOLEAN, SetAutoOpen(on)
    PROVE  BotInv'
<1> PICK w : w = Save({Switch}, on)
  OBVIOUS
<1>1. UNCHANGED <<clock, scene, prefs, runs, startup, replay, auto, phase, asked, collided>>
      /\ phase = "live" /\ write = {} /\ write' = {w}
      /\ switch' = [on |-> on, day |-> IF on THEN 0 ELSE Today]
      /\ blocked' = (IF on THEN blocked \ {Today} ELSE blocked)
      /\ barred' = (IF on THEN barred ELSE barred \cup {Today})
  BY DEF SetAutoOpen, Asks
<1>2. Today' = Today /\ Today \in Int
  BY <1>1, TodayIsInt DEF Today, BotInv, ShapeInv
<1>3. /\ DOMAIN w = {"keys", "on", "day", "pc", "found"}
      /\ w.keys = {Switch} /\ w.on = on /\ w.day = Today /\ w.pc = "read"
  BY DEF Save
<1>4. ShapeInv'
  BY <1>1 DEF BotInv, ShapeInv
<1>5. WriteInv'
  BY <1>1, <1>2, <1>3 DEF WriteInv, SaveOk, ReadOk
<1>6. MemoryInv'
  BY <1>1, <1>2 DEF BotInv, MemoryInv
<1>7. RecordInv'
  BY <1>1, <1>2 DEF BotInv, RecordInv
<1>8. PendingInv'
  <2>1. ~on => Today \in barred' /\ ~switch'.on /\ switch'.day = Today
    BY <1>1
  <2>2. Today \in blocked' => ~on
    BY <1>1
  <2> QED
    BY <1>1, <1>2, <1>3, <2>1, <2>2 DEF PendingInv
<1>9. ModeInv'
  <2>1. asked' = asked /\ w.keys = {Switch} /\ w.on = on
    BY <1>1, <1>3
  <2>2. ~collided => /\ asked \ {Switch} = asked
                     /\ asked \cup ({Switch} \ {Switch}) = asked
    BY NoSwitchJob DEF BotInv, ModeInv, Recorded
  <2>3. ~collided => asked' = Recorded' /\ auto' = asked'
    BY <1>1 DEF BotInv, ModeInv, Recorded, Jobs
  <2>4. ~collided => auto' = Ahead(w)'
    BY <2>1, <2>2, <2>3 DEF Ahead
  <2> QED
    BY <1>1, <2>3, <2>4 DEF ModeInv
<1> QED
  BY <1>4, <1>5, <1>6, <1>7, <1>8, <1>9 DEF BotInv

LEMMA ReadSwitchKeeps == BotInv /\ ReadSwitch => BotInv'
<1> SUFFICES ASSUME BotInv, ReadSwitch PROVE BotInv'
  OBVIOUS
<1>1. UNCHANGED <<clock, scene, prefs, runs, startup, replay, write, auto, phase, asked,
                  blocked, barred, collided>>
      /\ phase = "live" /\ ~switch.on /\ switch.day # Today
      /\ switch' = [on |-> TRUE, day |-> 0]
  BY DEF ReadSwitch, AutoOpenEnabled, history
<1>2. Today' = Today
  BY <1>1 DEF Today
<1>3. ShapeInv'
  BY <1>1 DEF BotInv, ShapeInv
<1>4. WriteInv'
  BY <1>1, <1>2 DEF BotInv, WriteInv, SaveOk, ReadOk, Jobs
<1>5. MemoryInv' /\ RecordInv' /\ PendingInv'
  BY <1>1, <1>2 DEF BotInv, MemoryInv, RecordInv, PendingInv
<1>6. ModeInv'
  BY <1>1 DEF BotInv, ModeInv, Recorded, Ahead, Jobs
<1> QED
  BY <1>3, <1>4, <1>5, <1>6 DEF BotInv

LEMMA SaveReadsKeeps ==
    ASSUME BotInv, NEW w \in write, SaveReads(w)
    PROVE  BotInv'
<1> PICK found : found = [k \in w.keys |-> RowOf(k)]
  OBVIOUS
<1> PICK v : v = [w EXCEPT !.pc = "commit", !.found = found]
  OBVIOUS
<1>1. UNCHANGED <<clock, scene, prefs, runs, startup, replay, switch, auto, phase, asked,
                  blocked, barred, collided>>
      /\ write' = {v}
  BY DEF SaveReads, history
<1>2. Today' = Today
  BY <1>1 DEF Today
<1>3. SaveOk(w) /\ phase = "live"
  BY DEF BotInv, WriteInv
<1>4. /\ DOMAIN v = DOMAIN w /\ v.keys = w.keys /\ v.on = w.on /\ v.day = w.day
      /\ v.pc = "commit" /\ v.found = found
  BY <1>3 DEF SaveOk
<1>5. \A k \in w.keys : IF found[k] = {} THEN k \notin DOMAIN prefs
                        ELSE k \in DOMAIN prefs /\ found[k] = {prefs[k].auto}
  BY DEF RowOf
<1>6. DOMAIN found = w.keys
  OBVIOUS
<1>7. ShapeInv'
  BY <1>1 DEF BotInv, ShapeInv
<1>8. WriteInv'
  <2>1. SaveOk(v)'
    BY <1>1, <1>2, <1>3, <1>4 DEF SaveOk, Jobs
  <2>2. ReadOk(v)'
    BY <1>1, <1>4, <1>5, <1>6 DEF ReadOk
  <2> QED
    BY <1>1, <1>3, <2>1, <2>2 DEF WriteInv
<1>9. MemoryInv' /\ RecordInv' /\ PendingInv'
  BY <1>1, <1>2, <1>4 DEF BotInv, MemoryInv, RecordInv, PendingInv
<1>10. ModeInv'
  <2>1. asked' = asked /\ Ahead(v)' = Ahead(w)
    BY <1>1, <1>4 DEF Ahead
  <2>2. ~collided => asked' = Recorded' /\ auto' = Ahead(w)
    BY <1>1, <1>3 DEF BotInv, ModeInv, Recorded, Jobs
  <2> QED
    BY <1>1, <2>1, <2>2 DEF ModeInv
<1> QED
  BY <1>7, <1>8, <1>9, <1>10 DEF BotInv

\* No day that is blocked or asked for is yet to come, so a new day finds none.
LEMMA TickKeeps == BotInv /\ Tick => BotInv'
<1> SUFFICES ASSUME BotInv, Tick PROVE BotInv'
  OBVIOUS
<1>1. UNCHANGED <<scene, prefs, startup, replay, write, auto, switch, phase, asked,
                  blocked, barred, collided>>
      /\ clock' = clock + 1 /\ clock' \in Int
  BY DEF Tick, BotInv, ShapeInv
<1>2. Today =< Today' /\ Today \in Int /\ Today' \in Int
  <2>1. clock \in Int
    BY DEF BotInv, ShapeInv
  <2>2. Today =< Today'
    BY <1>1, <2>1, TodayMoves
  <2>3. Today' \in Int
    BY <1>1, BotAssumption DEF Today
  <2> QED
    BY <2>1, <2>2, <2>3, TodayIsInt
<1>3. ShapeInv'
  <2>1. PICK new \in {{}, Fired(clock + 1)} : runs' = runs \cup new
    BY DEF Tick
  <2>2. \A r \in Fired(clock + 1) : "job" \in DOMAIN r /\ r.job # Switch
    BY RunHasJob, BotAssumption DEF Fired, Due
  <2> QED
    BY <1>1, <2>1, <2>2, RunsAdded DEF BotInv, ShapeInv
<1>4. WriteInv'
  <2> SUFFICES ASSUME NEW w \in write PROVE SaveOk(w)' /\ ReadOk(w)'
    BY <1>1 DEF BotInv, WriteInv
  <2> QED
    BY <1>1, <1>2 DEF BotInv, WriteInv, SaveOk, ReadOk, Jobs
<1>5. Today' \in blocked => Today' = Today
  BY <1>2 DEF BotInv, RecordInv
<1>6. MemoryInv' /\ RecordInv'
  BY <1>1, <1>2, <1>5 DEF BotInv, MemoryInv, RecordInv
<1>7. PendingInv'
  <2> SUFFICES ASSUME NEW w \in write, w.keys = {Switch}
               PROVE  /\ ~w.on => /\ w.day \in barred
                                  /\ w.day = Today' => ~switch.on /\ switch.day = Today'
                      /\ Today' \in blocked => ~w.on /\ w.day = Today'
    BY <1>1 DEF PendingInv
  <2>1. w.day \in Int /\ w.day =< Today
    BY DEF BotInv, WriteInv, SaveOk
  <2>2. w.day = Today' => Today' = Today
    BY <1>2, <2>1
  <2> QED
    BY <1>5, <2>2 DEF BotInv, PendingInv
<1>8. ModeInv'
  BY <1>1 DEF BotInv, ModeInv, Recorded, Ahead, Jobs
<1> QED
  BY <1>3, <1>4, <1>6, <1>7, <1>8 DEF BotInv

\* A stamp writes its column only: no mode, and nothing of the switch, moves.
LEMMA StampedKeeps ==
    ASSUME ShapeInv, NEW r \in runs, r.seen = {} => r.job \notin DOMAIN prefs
    PROVE  /\ Stamped(r) \in [DOMAIN Stamped(r) -> PrefRow]
           /\ DOMAIN prefs \subseteq DOMAIN Stamped(r)
           /\ DOMAIN Stamped(r) \subseteq DOMAIN prefs \cup {r.job}
           /\ \A k \in DOMAIN prefs : Stamped(r)[k].auto = prefs[k].auto
           /\ \A k \in DOMAIN prefs \ {r.job} : Stamped(r)[k] = prefs[k]
           /\ \A k \in DOMAIN Stamped(r) \ DOMAIN prefs : ~Stamped(r)[k].auto
<1>1. prefs \in [DOMAIN prefs -> PrefRow] /\ clock \in Int
  BY DEF ShapeInv
<1>2. CASE r.seen = {}
  <2>1. DOMAIN Stamped(r) = DOMAIN prefs \cup {r.job} /\ r.job \notin DOMAIN prefs
    BY <1>2 DEF Stamped
  <2>2. Stamped(r)[r.job] = [auto |-> FALSE, last |-> clock, stamp |-> 0]
    BY <1>2 DEF Stamped
  <2>3. \A k \in DOMAIN prefs : Stamped(r)[k] = prefs[k]
    BY <1>2, <2>1 DEF Stamped
  <2>4. Stamped(r)[r.job] \in PrefRow /\ ~Stamped(r)[r.job].auto
    BY <1>1, <2>2 DEF PrefRow
  <2>5. Stamped(r) = [k \in DOMAIN Stamped(r) |-> Stamped(r)[k]]
    BY <1>2, <2>1 DEF Stamped
  <2>6. \A k \in DOMAIN Stamped(r) : Stamped(r)[k] \in PrefRow
    BY <1>1, <2>1, <2>3, <2>4
  <2>7. Stamped(r) \in [DOMAIN Stamped(r) -> PrefRow]
    BY <2>5, <2>6
  <2> QED
    BY <2>1, <2>3, <2>4, <2>7
<1>3. CASE r.seen # {}
  BY <1>1, <1>3 DEF Stamped, PrefRow
<1> QED
  BY <1>2, <1>3

LEMMA StampCommitsKeeps ==
    ASSUME BotInv, NEW r \in runs, StampCommits(r)
    PROVE  BotInv'
<1> DEFINE lost == r.seen = {} /\ r.job \in DOMAIN prefs
<1>1. UNCHANGED <<clock, scene, startup, replay, write, auto, switch, phase, asked,
                  blocked, barred>>
      /\ runs' = runs \ {r} /\ collided' = (collided \/ lost)
      /\ prefs' = IF lost THEN prefs ELSE Stamped(r)
  BY DEF StampCommits, EndsRun
<1>2. CASE lost
  <2>1. ShapeInv'
    BY <1>1, <1>2 DEF BotInv, ShapeInv
  <2>2. Today' = Today
    BY <1>1 DEF Today
  <2>3. WriteInv' /\ MemoryInv' /\ RecordInv' /\ PendingInv'
    BY <1>1, <1>2, <2>2
       DEF BotInv, WriteInv, SaveOk, ReadOk, MemoryInv, RecordInv, PendingInv, Jobs
  <2>4. ModeInv'
    BY <1>1, <1>2 DEF ModeInv
  <2> QED
    BY <2>1, <2>3, <2>4 DEF BotInv
<1>3. CASE ~lost
  <2>1. r.job # Switch
    BY DEF BotInv, ShapeInv
  <2>2. /\ prefs' \in [DOMAIN prefs' -> PrefRow]
        /\ DOMAIN prefs \subseteq DOMAIN prefs'
        /\ DOMAIN prefs' \subseteq DOMAIN prefs \cup {r.job}
        /\ \A k \in DOMAIN prefs : prefs'[k].auto = prefs[k].auto
        /\ \A k \in DOMAIN prefs \ {r.job} : prefs'[k] = prefs[k]
        /\ \A k \in DOMAIN prefs' \ DOMAIN prefs : ~prefs'[k].auto
    BY <1>1, <1>3, StampedKeeps DEF BotInv
  <2>3. Today' = Today
    BY <1>1 DEF Today
  <2>4. ShapeInv'
    BY <1>1, <2>2 DEF BotInv, ShapeInv
  <2>5. WriteInv'
    <3> SUFFICES ASSUME NEW w \in write PROVE SaveOk(w)' /\ ReadOk(w)'
      BY <1>1 DEF BotInv, WriteInv
    <3>1. SaveOk(w)'
      BY <1>1, <2>3 DEF BotInv, WriteInv, SaveOk, Jobs
    <3>2. ReadOk(w)'
      BY <2>1, <2>2 DEF BotInv, WriteInv, ReadOk
    <3> QED
      BY <3>1, <3>2
  <2>6. Switch \in DOMAIN prefs' <=> Switch \in DOMAIN prefs
    BY <2>1, <2>2
  <2>7. Switch \in DOMAIN prefs => prefs'[Switch] = prefs[Switch]
    BY <2>1, <2>2
  <2>8. MemoryInv' /\ PendingInv'
    BY <1>1, <2>3 DEF BotInv, MemoryInv, PendingInv
  <2>9. RecordInv'
    BY <1>1, <2>3, <2>6, <2>7 DEF BotInv, RecordInv
  <2>10. Recorded' = Recorded
    BY <2>2 DEF Recorded, Jobs
  <2>11. ModeInv'
    BY <1>1, <1>3, <2>10 DEF BotInv, ModeInv, Ahead
  <2> QED
    BY <2>4, <2>5, <2>8, <2>9, <2>11 DEF BotInv
<1> QED
  BY <1>2, <1>3

\* A save that loses no insert leaves what the user asked for.
LEMMA SavedAsAsked ==
    ASSUME ShapeInv, NEW w, SaveOk(w), ReadOk(w), w.pc = "commit", ~Collides(w.found)
    PROVE  /\ Saved(w) \in [DOMAIN prefs \cup w.keys -> PrefRow]
           /\ \A k \in DOMAIN prefs \ w.keys : Saved(w)[k] = prefs[k]
           /\ \A k \in w.keys : Saved(w)[k].auto = w.on /\ Saved(w)[k].stamp = w.day
<1>1. prefs \in [DOMAIN prefs -> PrefRow] /\ w.on \in BOOLEAN /\ w.day \in Int
  BY DEF ShapeInv, SaveOk
<1>2. \A k \in DOMAIN prefs \ w.keys : Saved(w)[k] = prefs[k] /\ prefs[k] \in PrefRow
  BY <1>1 DEF Saved
<1>3. ASSUME NEW k \in w.keys
      PROVE  Saved(w)[k] \in PrefRow /\ Saved(w)[k].auto = w.on /\ Saved(w)[k].stamp = w.day
  <2>1. CASE w.found[k] = {}
    <3>1. Saved(w)[k] = [auto |-> w.on, last |-> 0, stamp |-> w.day]
      BY <1>3, <2>1 DEF Saved
    <3> QED
      BY <1>1, <3>1 DEF PrefRow
  <2>2. CASE w.found[k] # {}
    <3>1. k \in DOMAIN prefs /\ w.found[k] = {prefs[k].auto} /\ prefs[k] \in PrefRow
      BY <1>1, <1>3, <2>2 DEF ReadOk
    <3>2. Saved(w)[k] = [prefs[k] EXCEPT !.auto = IF w.found[k] = {w.on} THEN @ ELSE w.on,
                                         !.stamp = w.day]
      BY <2>2, <3>1 DEF Saved
    <3>3. w.found[k] = {w.on} => prefs[k].auto = w.on
      BY <3>1
    <3> QED
      BY <1>1, <3>1, <3>2, <3>3 DEF PrefRow
  <2> QED
    BY <2>1, <2>2
<1>4. Saved(w) \in [DOMAIN prefs \cup w.keys -> PrefRow]
  <2>1. \A k \in DOMAIN prefs \cup w.keys : Saved(w)[k] \in PrefRow
    BY <1>2, <1>3
  <2>2. DOMAIN Saved(w) = DOMAIN prefs \cup w.keys
        /\ Saved(w) = [k \in DOMAIN prefs \cup w.keys |-> Saved(w)[k]]
    BY DEF Saved
  <2> QED
    BY <2>1, <2>2
<1> QED
  BY <1>2, <1>3, <1>4

LEMMA SaveCommitsKeeps ==
    ASSUME BotInv, NEW w \in write, SaveCommits(w)
    PROVE  BotInv'
<1>1. /\ UNCHANGED <<clock, scene, startup, replay, runs, auto, switch, phase, barred>>
      /\ write' = {} /\ w.pc = "commit"
      /\ collided' = (collided \/ Collides(w.found))
      /\ prefs' = IF Collides(w.found) THEN prefs ELSE Saved(w)
      /\ asked' = IF w.on THEN asked \cup (w.keys \ {Switch}) ELSE asked \ w.keys
      /\ blocked' = IF w.keys = {Switch} /\ ~w.on THEN blocked \cup {w.day} ELSE blocked
  BY DEF SaveCommits
<1>2. Today' = Today
  BY <1>1 DEF Today
<1>3. ShapeInv /\ SaveOk(w) /\ ReadOk(w) /\ phase = "live"
  BY DEF BotInv, WriteInv
<1>4. WriteInv' /\ PendingInv'
  BY <1>1, <1>3 DEF WriteInv, PendingInv
<1>5. CASE w.keys = {Switch}
  <2>1. ~Collides(w.found)
    BY <1>1, <1>3, <1>5 DEF Collides, ReadOk
  <2>2. /\ prefs' \in [DOMAIN prefs \cup {Switch} -> PrefRow]
        /\ \A k \in DOMAIN prefs \ {Switch} : prefs'[k] = prefs[k]
        /\ prefs'[Switch].auto = w.on /\ prefs'[Switch].stamp = w.day
    BY <1>1, <1>3, <1>5, <2>1, SavedAsAsked
  <2>3. ShapeInv'
    BY <1>1, <1>3, <2>2 DEF ShapeInv
  <2>4. MemoryInv'
    BY <1>1, <1>2, <1>3, <1>5 DEF BotInv, MemoryInv, PendingInv
  <2>5. RecordInv'
    <3>1. w.day \in Int /\ w.day =< Today
      BY <1>3 DEF SaveOk
    <3>2. \A d \in blocked' : d \in Int /\ d =< Today
      BY <1>1, <3>1 DEF BotInv, RecordInv
    <3>3. ~w.on => w.day \in barred
      BY <1>5 DEF BotInv, PendingInv
    <3>4. Today \in blocked' => ~w.on /\ w.day = Today
      BY <1>1, <1>3, <1>5 DEF BotInv, PendingInv
    <3> QED
      BY <1>1, <1>2, <2>2, <3>2, <3>3, <3>4 DEF RecordInv
  <2>6. ModeInv'
    <3>1. ~collided => asked \ {Switch} = asked
      BY NoSwitchJob DEF BotInv, ModeInv, Recorded
    <3>2. ~collided => asked' = asked /\ Ahead(w) = asked
      BY <1>1, <1>5, <3>1 DEF Ahead
    <3>3. Recorded' = Recorded
      BY <2>2, NoSwitchJob DEF Recorded, Jobs
    <3>4. ~collided => auto = Ahead(w) /\ asked = Recorded
      BY <1>3 DEF BotInv, ModeInv
    <3> QED
      BY <1>1, <3>2, <3>3, <3>4 DEF ModeInv
  <2> QED
    BY <1>4, <2>3, <2>4, <2>5, <2>6 DEF BotInv
<1>6. CASE w.keys \in SUBSET Jobs
  <2>1. Switch \notin w.keys
    BY <1>6, NoSwitchJob
  <2>2. blocked' = blocked
    BY <1>1, <2>1
  <2>3. MemoryInv'
    BY <1>1, <1>2, <2>2 DEF BotInv, MemoryInv
  <2>4. ShapeInv' /\ RecordInv'
    <3>1. CASE Collides(w.found)
      BY <1>1, <1>2, <2>2, <3>1 DEF BotInv, ShapeInv, RecordInv
    <3>2. CASE ~Collides(w.found)
      <4>1. /\ prefs' \in [DOMAIN prefs \cup w.keys -> PrefRow]
            /\ \A k \in DOMAIN prefs \ w.keys : prefs'[k] = prefs[k]
        BY <1>1, <1>3, <3>2, SavedAsAsked
      <4>2. ShapeInv'
        BY <1>1, <1>3, <4>1 DEF ShapeInv
      <4>3. /\ Switch \in DOMAIN prefs' <=> Switch \in DOMAIN prefs
            /\ Switch \in DOMAIN prefs => prefs'[Switch] = prefs[Switch]
        BY <2>1, <4>1
      <4> QED
        BY <1>1, <1>2, <2>2, <4>2, <4>3 DEF BotInv, RecordInv
    <3> QED
      BY <3>1, <3>2
  <2>5. ModeInv'
    <3> SUFFICES ASSUME ~collided, ~Collides(w.found)
                 PROVE  asked' = Recorded' /\ auto' = asked'
      BY <1>1 DEF ModeInv
    <3>1. asked = Recorded /\ auto = Ahead(w)
      BY <1>3 DEF BotInv, ModeInv
    <3>2. w.keys \ {Switch} = w.keys
      BY <2>1
    <3>3. asked' = Ahead(w)
      BY <1>1 DEF Ahead
    <3>4. /\ prefs' \in [DOMAIN prefs \cup w.keys -> PrefRow]
          /\ \A k \in DOMAIN prefs \ w.keys : prefs'[k] = prefs[k]
          /\ \A k \in w.keys : prefs'[k].auto = w.on
      BY <1>1, <1>3, SavedAsAsked
    <3>5. CASE w.on
      <4>1. asked' = Recorded \cup w.keys
        BY <1>1, <3>1, <3>2, <3>5
      <4>2. Recorded' = Recorded \cup w.keys
        BY <1>6, <3>4, <3>5 DEF Recorded, Jobs
      <4> QED
        BY <1>1, <3>1, <3>3, <4>1, <4>2
    <3>6. CASE ~w.on
      <4>1. asked' = Recorded \ w.keys
        BY <1>1, <3>1, <3>6
      <4>2. Recorded' = Recorded \ w.keys
        BY <1>6, <3>4, <3>6 DEF Recorded, Jobs
      <4> QED
        BY <1>1, <3>1, <3>3, <4>1, <4>2
    <3> QED
      BY <3>5, <3>6, <1>3 DEF SaveOk
  <2> QED
    BY <1>4, <2>3, <2>4, <2>5 DEF BotInv
<1> QED
  BY <1>3, <1>5, <1>6 DEF SaveOk

LEMMA BotNext == BotInv /\ [Next]_vars => BotInv'
<1> SUFFICES ASSUME BotInv, [Next]_vars PROVE BotInv'
  OBVIOUS
<1>1. CASE StartUp
  BY <1>1, StartUpKeeps, LoadKeeps DEF StartUp
<1>2. CASE Down
  BY <1>2, DownKeeps
<1>3. CASE Tick
  BY <1>3, TickKeeps
<1>4. CASE UserStep
  <2>1. ASSUME NEW j \in scene.jobs, NEW on \in BOOLEAN, SetModes({j}, on)
        PROVE  BotInv'
    <3>1. {j} \in SUBSET Jobs
      BY BotAssumption DEF BotInv, ShapeInv
    <3> QED
      BY <2>1, <3>1, ModesKeep
  <2>2. ASSUME NEW on \in BOOLEAN, SetModes(Jobs, on)
        PROVE  BotInv'
    BY <2>2, ModesKeep
  <2>3. ASSUME NEW on \in BOOLEAN, SetAutoOpen(on)
        PROVE  BotInv'
    BY <2>3, SwitchKeeps
  <2>4. ASSUME NEW j \in scene.jobs, UserRuns(j)
        PROVE  BotInv'
    BY <2>4, OtherQuiet
  <2> QED
    BY <1>4, <2>1, <2>2, <2>3, <2>4 DEF UserStep
<1>5. CASE ReadSwitch
  BY <1>5, ReadSwitchKeeps
<1>6. CASE SaveStep
  BY <1>6, SaveReadsKeeps, SaveCommitsKeeps DEF SaveStep
<1>7. CASE RunSteps \/ \E r \in runs : Fails(r) \/ FlagsFail(r)
  BY <1>7, RunQuiet, StampCommitsKeeps DEF RunSteps, RunStep
<1>8. CASE \/ (\E j \in startup : StartupFires(j)) \/ ReplayStep
           \/ OnCandle \/ DebounceEnds \/ PassBegins \/ PassEnds
  BY <1>8, OtherQuiet
<1>9. CASE UNCHANGED vars
  <2>1. ShapeInv' /\ UNCHANGED settings
    BY <1>9 DEF vars, machine, history, settings, BotInv, ShapeInv
  <2> QED
    BY <2>1, Settled
<1> QED
  BY <1>1, <1>2, <1>3, <1>4, <1>5, <1>6, <1>7, <1>8, <1>9 DEF Next

LEMMA BotSafe == Spec => []BotInv
<1> QED
  BY BotInit, BotNext, PTL DEF Spec

\* The switch is off on a day the user was told is blocked, and on no other day
\* than one asked for (set_auto_open, _restore_auto_open and the getter), through
\* any number of days, restarts, saves and runs.
THEOREM BlockHolds == Spec => []BlockLastsItsDay
<1>1. BotInv => BlockLastsItsDay
  BY DEF BotInv, MemoryInv, BlockLastsItsDay, AutoOpenEnabled
<1> QED
  BY <1>1, BotSafe, PTL

\* What the user was last told of a job's mode is what load_job_preferences and
\* set_job_mode have made it, whatever _record_job_run writes to the same rows.
THEOREM ModesHold == Spec => []ModesKept
<1>1. BotInv => ModesKept
  BY DEF BotInv, ModeInv, ModesKept
<1> QED
  BY <1>1, BotSafe, PTL

(***************************************************************************)
(* The refreshes of the tradable list, crawls and restarts interleaved.    *)
(***************************************************************************)
RunFields == {"job", "by", "pc", "got", "told", "held", "list", "seen"}

\* A run by its step: only the hourly refresh gets to the last five.
RunOk(r) ==
    /\ DOMAIN r = RunFields
    /\ r.pc \in {"fetch", "select", "held", "flags", "persist", "feed"} => r.job = Tradable
    /\ r.pc = "select" => r.got \subseteq AllEpics
    /\ r.pc \in {"flags", "persist", "feed"} => r.held \subseteq scene.held

RunsInv ==
    /\ scene \in Scenarios
    /\ phase # "live" => runs = {} /\ replay.pc = "idle"
    /\ "pc" \in DOMAIN replay
    /\ held \subseteq scene.held
    /\ \A r \in runs : RunOk(r)

\* A refresh that has selected its epics and has still to go through these steps.
Awaits(pcs) == \E r \in runs : r.pc \in pcs

Agree ==
    /\ tradable \subseteq streamed \/ Cardinality(streamed) >= Cap
    /\ streamed \subseteq tradable \cup scene.held

AfterSelect == {"held", "flags", "persist", "feed"}

\* The last selection is flagged and subscribed by the run that made it, whatever
\* others flagged and subscribed before.  Unless the flags may be stale, a write
\* of them under way is of the last list.
RefreshInv ==
    phase \in {"restored", "started", "live"} =>
        /\ Awaits(AfterSelect) => tradable \subseteq AllEpics
        /\ ~stale => /\ Awaits({"held", "flags", "persist"}) \/ Flagged \subseteq tradable
                     /\ \A r \in runs : r.pc = "persist" => r.list = tradable
        /\ Awaits(AfterSelect) \/ Agree \/ streamed = {}

\* A run that moves on keeps its other fields.
LEMMA RunGoesOn ==
    ASSUME NEW r, DOMAIN r = RunFields, NEW pc
    PROVE  /\ DOMAIN At(r, pc) = RunFields
           /\ At(r, pc).pc = pc /\ At(r, pc).job = r.job
           /\ At(r, pc).got = r.got /\ At(r, pc).held = r.held
           /\ \A x : LET n == [At(r, pc) EXCEPT !.got = x]
                     IN DOMAIN n = RunFields /\ n.pc = pc /\ n.job = r.job /\ n.got = x
           /\ \A x : LET n == [At(r, pc) EXCEPT !.seen = x]
                     IN DOMAIN n = RunFields /\ n.pc = pc /\ n.job = r.job
           /\ \A x : LET n == [At(r, pc) EXCEPT !.held = x]
                     IN DOMAIN n = RunFields /\ n.pc = pc /\ n.job = r.job /\ n.held = x
           /\ \A x : LET n == [At(r, pc) EXCEPT !.list = x]
                     IN /\ DOMAIN n = RunFields /\ n.pc = pc /\ n.job = r.job
                        /\ n.held = r.held /\ n.list = x
           /\ \A x, y : LET n == [At(r, pc) EXCEPT !.got = x, !.told = y]
                        IN DOMAIN n = RunFields /\ n.pc = pc /\ n.job = r.job /\ n.got = x
BY DEF At, RunFields

\* A step that selects, flags and subscribes nothing.
LEMMA RefreshSteady ==
    ASSUME RunsInv, RefreshInv,
           UNCHANGED <<scene, tradable, streamed, held, stale>>, Flagged' \subseteq Flagged,
           phase' \in {"restored", "started", "live"} => phase \in {"restored", "started", "live"},
           phase' # "live" => runs' = {} /\ replay'.pc = "idle",
           "pc" \in DOMAIN replay',
           \A r \in runs : r.pc \in AfterSelect => r \in runs',
           \A r \in runs' : r \in runs \/ (RunOk(r) /\ r.pc \notin AfterSelect)
    PROVE  RunsInv' /\ RefreshInv'
<1>1. \A r : RunOk(r) <=> RunOk(r)'
  BY DEF RunOk
<1>2. RunsInv'
  BY <1>1 DEF RunsInv
<1>3. /\ Awaits(AfterSelect)' <=> Awaits(AfterSelect)
      /\ Awaits({"held", "flags", "persist"})' <=> Awaits({"held", "flags", "persist"})
      /\ \A r \in runs' : r.pc = "persist" => r \in runs
  BY DEF Awaits, AfterSelect
<1>4. RefreshInv'
  BY <1>3 DEF RefreshInv, Agree
<1> QED
  BY <1>2, <1>4

LEMMA RefreshInit == Init => RunsInv /\ RefreshInv
BY DEF Init, RunsInv, RefreshInv, Idle

LEMMA NewRun ==
    ASSUME NEW j, NEW by
    PROVE  RunOk(Run(j, by)) /\ Run(j, by).pc \notin AfterSelect
<1>1. Run(j, by).pc \in {"fetch", "crawl", "work"} /\ Run(j, by).job = j
      /\ DOMAIN Run(j, by) = RunFields
  BY DEF Run, EpicList, Tradable, RunFields
<1>2. Run(j, by).pc = "fetch" => j = Tradable
  BY DEF Run, EpicList, Tradable
<1> QED
  BY <1>1, <1>2 DEF RunOk, AfterSelect

\* The steps of a run before it has selected, and those of the other jobs.
LEMMA EarlyRunKeeps ==
    ASSUME RunsInv, RefreshInv, NEW r \in runs,
           \/ Works(r) \/ Fails(r) \/ StampReads(r) \/ StampCommits(r)
           \/ Crawl(r) \/ PersistList(r) \/ Fetch(r)
    PROVE  RunsInv' /\ RefreshInv'
<1>1. phase = "live" /\ RunOk(r) /\ DOMAIN r = RunFields
  BY DEF RunsInv, RunOk
<1>2. UNCHANGED <<scene, tradable, streamed, held, stale, phase, replay>> /\ r.pc \notin AfterSelect
  BY DEF Works, Fails, StampReads, StampCommits, Crawl, PersistList, Fetch, ListUnchanged,
         lists, AfterSelect
<1>3. Flagged' \subseteq Flagged
  <2>1. CASE PersistList(r)
    BY <2>1 DEF PersistList, Flagged
  <2>2. CASE ~PersistList(r)
    <3>1. UNCHANGED rows
      BY <2>2 DEF Works, Fails, StampReads, StampCommits, Crawl, Fetch, lists
    <3> QED
      BY <3>1 DEF Flagged
  <2> QED
    BY <2>1, <2>2
<1>4. \/ runs' = runs \ {r}
      \/ \E n : runs' = (runs \ {r}) \cup {n} /\ RunOk(n) /\ n.pc \notin AfterSelect
  <2>1. CASE Works(r)
    BY <1>1, <2>1, RunGoesOn DEF Works, Goes, RunOk, AfterSelect
  <2>2. CASE Fails(r) \/ StampCommits(r)
    BY <2>2 DEF Fails, StampCommits, EndsRun
  <2>3. CASE StampReads(r)
    <3>1. PICK n : n = [At(r, "commit") EXCEPT !.seen = RowOf(r.job)]
      OBVIOUS
    <3>2. DOMAIN n = RunFields /\ n.pc = "commit"
      BY <1>1, <3>1, RunGoesOn
    <3>3. runs' = (runs \ {r}) \cup {n}
      BY <2>3, <3>1 DEF StampReads, Goes
    <3> QED
      BY <3>2, <3>3 DEF RunOk, AfterSelect
  <2>4. CASE Crawl(r)
    <3>1. PICK pages \in scene.pages :
            \/ runs' = runs \ {r}
            \/ runs' = (runs \ {r}) \cup {[At(r, "list") EXCEPT !.got = Discovered(pages)]}
      BY <2>4 DEF Crawl, Goes, EndsRun
    <3>2. PICK n : n = [At(r, "list") EXCEPT !.got = Discovered(pages)]
      OBVIOUS
    <3>3. DOMAIN n = RunFields /\ n.pc = "list"
      BY <1>1, <3>2, RunGoesOn
    <3> QED
      BY <3>1, <3>2, <3>3 DEF RunOk, AfterSelect
  <2>5. CASE PersistList(r)
    <3>1. runs' = (runs \ {r}) \cup {At(r, "stamp")}
      BY <2>5 DEF PersistList, Goes
    <3>2. DOMAIN At(r, "stamp") = RunFields /\ At(r, "stamp").pc = "stamp"
      BY <1>1, RunGoesOn
    <3> QED
      BY <3>1, <3>2 DEF RunOk, AfterSelect
  <2>6. CASE Fetch(r)
    <3>1. PICK infos \in SUBSET AllEpics :
            \E told : runs' = (runs \ {r}) \cup {[At(r, "select") EXCEPT !.got = infos, !.told = told]}
      <4>1. PICK lost \in scene.lost, status \in scene.statuses :
              Goes(r, [At(r, "select") EXCEPT
                         !.got = InClass(FetchDetails(r.got, poison, lost).got),
                         !.told = [e \in InClass(FetchDetails(r.got, poison, lost).got)
                                     |-> status[e]]])
        BY <2>6 DEF Fetch
      <4>2. \A s : InClass(s) \in SUBSET AllEpics
        BY DEF InClass
      <4> QED
        BY <4>1, <4>2 DEF Goes
    <3> PICK told : runs' = (runs \ {r}) \cup {[At(r, "select") EXCEPT !.got = infos, !.told = told]}
      BY <3>1
    <3>2. PICK n : n = [At(r, "select") EXCEPT !.got = infos, !.told = told]
      OBVIOUS
    <3>3. DOMAIN n = RunFields /\ n.pc = "select" /\ n.job = r.job /\ n.got = infos
      BY <1>1, <3>2, RunGoesOn
    <3>4. r.job = Tradable
      BY <1>1, <2>6 DEF RunOk, Fetch
    <3> QED
      BY <3>1, <3>2, <3>3, <3>4 DEF RunOk, AfterSelect
  <2> QED
    BY <2>1, <2>2, <2>3, <2>4, <2>5, <2>6
<1>5. "pc" \in DOMAIN replay'
  BY <1>2 DEF RunsInv
<1>6. /\ \A s \in runs : s.pc \in AfterSelect => s \in runs'
      /\ \A s \in runs' : s \in runs \/ (RunOk(s) /\ s.pc \notin AfterSelect)
  BY <1>2, <1>4
<1> QED
  BY <1>1, <1>2, <1>3, <1>5, <1>6, RefreshSteady

\* A refresh that has selected its epics goes on to the next step.
LEMMA RunsAfterSelect ==
    ASSUME RunsInv, NEW r \in runs, NEW n, UNCHANGED <<phase, replay, scene>>,
           runs' = (runs \ {r}) \cup {n}, RunOk(n), held' \subseteq held
    PROVE  RunsInv'
<1>1. \A s : RunOk(s) <=> RunOk(s)'
  BY DEF RunOk
<1> QED
  BY <1>1 DEF RunsInv

LEMMA SelectKeeps ==
    ASSUME RunsInv, RefreshInv, NEW r \in runs, Select(r)
    PROVE  RunsInv' /\ RefreshInv'
<1> PICK n : n = At(r, "held")
  OBVIOUS
<1>1. phase = "live" /\ RunOk(r) /\ DOMAIN r = RunFields /\ r.pc = "select"
  BY DEF RunsInv, RunOk, Select
<1>2. UNCHANGED <<phase, replay, scene, held, streamed, rows>> /\ tradable' = Chosen(r)
      /\ runs' = (runs \ {r}) \cup {n}
  BY DEF Select, Goes, ListUnchanged
<1>3. DOMAIN n = RunFields /\ n.pc = "held" /\ n.job = r.job
  BY <1>1, RunGoesOn
<1>4. RunsInv'
  BY <1>1, <1>2, <1>3, RunsAfterSelect DEF RunOk
<1>5. r.got \subseteq AllEpics
  BY <1>1 DEF RunOk
<1>6. Chosen(r) \subseteq r.got
  BY DEF Chosen, Diversified, SelectTradable, Tightest, OpenTradeable
<1>7. Awaits(AfterSelect)' /\ Awaits({"held", "flags", "persist"})'
  BY <1>2, <1>3 DEF Awaits, AfterSelect
<1>8. ~stale' => \A q \in runs' : q.pc # "persist"
  BY <1>2, <1>3 DEF Select, OtherWrites
<1> QED
  BY <1>2, <1>4, <1>5, <1>6, <1>7, <1>8 DEF RefreshInv

LEMMA CloseKeeps ==
    ASSUME RunsInv, RefreshInv, NEW r \in runs, CloseStranded(r)
    PROVE  RunsInv' /\ RefreshInv'
<1>1. phase = "live" /\ RunOk(r) /\ DOMAIN r = RunFields /\ r.pc = "held"
  BY DEF RunsInv, RunOk, CloseStranded
<1>2. PICK kept \in SUBSET held :
        held' = kept /\ runs' = (runs \ {r}) \cup {[At(r, "flags") EXCEPT !.held = kept]}
  BY DEF CloseStranded, Goes
<1>3. PICK n : n = [At(r, "flags") EXCEPT !.held = kept]
  OBVIOUS
<1>4. UNCHANGED <<phase, replay, scene, tradable, streamed, rows, stale>>
  BY DEF CloseStranded, ListUnchanged
<1>5. DOMAIN n = RunFields /\ n.pc = "flags" /\ n.job = r.job /\ n.held = kept
  BY <1>1, <1>3, RunGoesOn
<1>6. RunOk(n)
  BY <1>1, <1>5 DEF RunOk, RunsInv
<1>7. RunsInv'
  BY <1>2, <1>3, <1>4, <1>6, RunsAfterSelect
<1>8. /\ Awaits(AfterSelect)' /\ Awaits({"held", "flags", "persist"})'
      /\ Awaits(AfterSelect)
  BY <1>1, <1>2, <1>3, <1>5 DEF Awaits, AfterSelect
<1>9. \A q \in runs' : q.pc = "persist" => q \in runs
  BY <1>2, <1>3, <1>5
<1> QED
  BY <1>1, <1>4, <1>7, <1>8, <1>9 DEF RefreshInv

LEMMA CaptureKeeps ==
    ASSUME RunsInv, RefreshInv, NEW r \in runs, CaptureFlags(r)
    PROVE  RunsInv' /\ RefreshInv'
<1> PICK n : n = [At(r, "persist") EXCEPT !.list = tradable]
  OBVIOUS
<1>1. phase = "live" /\ RunOk(r) /\ DOMAIN r = RunFields /\ r.pc = "flags"
  BY DEF RunsInv, RunOk, CaptureFlags
<1>2. UNCHANGED <<phase, replay, scene, held, tradable, streamed, rows, stale>>
      /\ runs' = (runs \ {r}) \cup {n}
  BY DEF CaptureFlags, Goes, ListUnchanged
<1>3. /\ DOMAIN n = RunFields /\ n.pc = "persist" /\ n.job = r.job
      /\ n.held = r.held /\ n.list = tradable
  BY <1>1, RunGoesOn
<1>4. RunsInv'
  BY <1>1, <1>2, <1>3, RunsAfterSelect DEF RunOk
<1>5. /\ Awaits(AfterSelect)' /\ Awaits({"held", "flags", "persist"})'
      /\ Awaits(AfterSelect)
  BY <1>1, <1>2, <1>3 DEF Awaits, AfterSelect
<1> QED
  BY <1>1, <1>2, <1>3, <1>4, <1>5 DEF RefreshInv

LEMMA FlagsKeep ==
    ASSUME RunsInv, RefreshInv, NEW r \in runs, PersistFlags(r) \/ FlagsFail(r)
    PROVE  RunsInv' /\ RefreshInv'
<1> PICK n : n = At(r, "feed")
  OBVIOUS
<1>1. phase = "live" /\ RunOk(r) /\ DOMAIN r = RunFields /\ r.pc = "persist"
  BY DEF RunsInv, RunOk, PersistFlags, FlagsFail
<1>2. UNCHANGED <<phase, replay, scene, held, tradable, streamed>>
      /\ runs' = (runs \ {r}) \cup {n}
  BY DEF PersistFlags, FlagsFail, Goes, ListUnchanged
<1>3. DOMAIN n = RunFields /\ n.pc = "feed" /\ n.job = r.job /\ n.held = r.held
  BY <1>1, RunGoesOn
<1>4. RunsInv'
  BY <1>1, <1>2, <1>3, RunsAfterSelect DEF RunOk
<1>5. Awaits(AfterSelect)' /\ Awaits(AfterSelect)
  BY <1>1, <1>2, <1>3 DEF Awaits, AfterSelect
<1>6. ASSUME ~stale'
      PROVE  /\ Flagged' \subseteq tradable
             /\ \A q \in runs' : q.pc = "persist" => q.list = tradable
  <2>1. PersistFlags(r)
    BY <1>6 DEF FlagsFail
  <2>2. r.list = tradable
    BY <1>1, <1>6, <2>1 DEF PersistFlags, RefreshInv
  <2>3. \A e \in DOMAIN rows : rows'[e].tradable <=> e \in tradable
    BY <2>1, <2>2 DEF PersistFlags
  <2>4. DOMAIN rows' = DOMAIN rows
    BY <2>1 DEF PersistFlags
  <2>5. \A q \in runs \ {r} : q.pc = "persist" => q.list = tradable
    BY <1>1, <1>6, <2>1 DEF PersistFlags, OtherWrites, RefreshInv
  <2> QED
    BY <1>2, <1>3, <2>3, <2>4, <2>5 DEF Flagged
<1> QED
  BY <1>1, <1>2, <1>4, <1>5, <1>6 DEF RefreshInv

LEMMA EpicsFinite == IsFiniteSet(AllEpics)
<1> DEFINE f == [m \in Catalogue |-> m.epic]
<1>1. f \in Surjection(Catalogue, AllEpics)
  BY DEF AllEpics, Surjection
<1> QED
  BY <1>1, FS_Surjection, ScannerAssumption

\* The room that the open positions leave is filled, or everything fits.
LEMMA FeedFills ==
    ASSUME NEW H, NEW T, IsFiniteSet(H), IsFiniteSet(T), NEW S \in SUBSET (T \ H),
           Cardinality(S) = Min({Cardinality(T \ H), Max({0, Cap - Cardinality(H)})})
    PROVE  T \subseteq H \cup S \/ Cardinality(H \cup S) >= Cap
<1> DEFINE t == Cardinality(T \ H)
           h == Cardinality(H)
           room == Max({0, Cap - h})
<1>1. IsFiniteSet(T \ H) /\ t \in Nat /\ h \in Nat /\ Cap \in Nat
  BY FS_Difference, FS_CardinalityType, ScannerAssumption
<1>2. room \in Int /\ room >= Cap - h
  <2> HIDE DEF h
  <2>1. \E x \in {0, Cap - h} : \A y \in {0, Cap - h} : x >= y
    BY <1>1
  <2>2. room \in {0, Cap - h} /\ \A y \in {0, Cap - h} : room >= y
    BY <2>1 DEF Max
  <2> QED
    BY <1>1, <2>2
<1>3. Min({t, room}) \in {t, room}
  <2> HIDE DEF t, room
  <2>1. \E x \in {t, room} : \A y \in {t, room} : x =< y
    BY <1>1, <1>2
  <2> QED
    BY <2>1 DEF Min
<1>4. IsFiniteSet(S) /\ Cardinality(S) \in Nat /\ Cardinality(S) \in {t, room}
  BY <1>1, <1>3, FS_Subset, FS_CardinalityType
<1>5. CASE Cardinality(S) = t
  BY <1>1, <1>5, FS_Subset
<1>6. CASE Cardinality(S) = room
  <2>1. H \cap S = {}
    OBVIOUS
  <2>2. Cardinality(H \cup S) = h + Cardinality(S) - Cardinality(H \cap S)
    BY <1>4, FS_Union
  <2>3. Cardinality(H \cap S) = 0
    BY <2>1, FS_EmptySet
  <2>4. Cardinality(H \cup S) = h + room
    <3>1. Cardinality(H \cup S) = h + room - 0
      BY <1>6, <2>2, <2>3
    <3> HIDE DEF h, room
    <3> QED
      BY <1>1, <1>2, <3>1
  <2> HIDE DEF h, room
  <2> QED
    BY <1>1, <1>2, <2>4
<1> QED
  BY <1>4, <1>5, <1>6

LEMMA FeedKeeps ==
    ASSUME RunsInv, RefreshInv, NEW r \in runs, Feed(r)
    PROVE  RunsInv' /\ RefreshInv'
<1>1. phase = "live" /\ RunOk(r) /\ r.pc = "feed" /\ scene \in Scenarios
  BY DEF RunsInv, Feed
<1>2. UNCHANGED <<phase, replay, scene, held, tradable, rows, stale>> /\ runs' = runs \ {r}
  BY DEF Feed, EndsRun, ListUnchanged
<1>3. \A s : RunOk(s) <=> RunOk(s)'
  BY <1>2 DEF RunOk
<1>4. RunsInv'
  BY <1>1, <1>2, <1>3 DEF RunsInv
<1>5. Awaits(AfterSelect)
  BY <1>1 DEF Awaits, AfterSelect
<1>6. tradable \subseteq AllEpics
  BY <1>1, <1>5 DEF RefreshInv
<1>7. r.held \subseteq scene.held
  BY <1>1 DEF RunOk
<1>8. IsFiniteSet(tradable) /\ IsFiniteSet(r.held)
  BY <1>1, <1>6, <1>7, EpicsFinite, BotAssumption, FS_Subset
<1>9. PICK S \in SUBSET (tradable \ r.held) :
        /\ streamed' = r.held \cup S
        /\ Cardinality(S) = Min({Cardinality(tradable \ r.held),
                                 Max({0, Cap - Cardinality(r.held)})})
  BY DEF Feed, FeedOf
<1>10. tradable \subseteq r.held \cup S \/ Cardinality(r.held \cup S) >= Cap
  BY <1>8, <1>9, FeedFills
<1>11. Agree'
  BY <1>2, <1>7, <1>9, <1>10 DEF Agree
<1>12. Awaits({"held", "flags", "persist"})' <=> Awaits({"held", "flags", "persist"})
  BY <1>1, <1>2 DEF Awaits
<1>13. Flagged' = Flagged
  BY <1>2 DEF Flagged
<1> QED
  BY <1>1, <1>2, <1>4, <1>6, <1>11, <1>12, <1>13 DEF RefreshInv

\* The steps that start a run, and those of the process, its settings and passes.
LEMMA AroundRunsKeeps ==
    ASSUME RunsInv, RefreshInv,
           \/ Connect \/ StartScheduler \/ LoadPreferences
           \/ Tick \/ UserStep \/ ReadSwitch \/ SaveStep
           \/ \E j \in startup : StartupFires(j)
           \/ ReplayStep \/ OnCandle \/ DebounceEnds \/ PassBegins \/ PassEnds
    PROVE  RunsInv' /\ RefreshInv'
<1>1. UNCHANGED <<scene, tradable, streamed, held, rows, stale>>
  BY DEF Connect, StartScheduler, LoadPreferences, Tick, UserStep, SetModes, SetAutoOpen,
         UserRuns, ReadSwitch, SaveStep, SaveReads, SaveCommits, StartupFires, ReplayStep,
         ReplayReads, ReplayNext, OnCandle, DebounceEnds, PassBegins, PassEnds, lists
<1>2. Flagged' \subseteq Flagged
  BY <1>1 DEF Flagged
<1>3. /\ phase' \in {"restored", "started", "live"} => phase \in {"restored", "started", "live"}
      /\ phase' # "live" => phase # "live"
      /\ phase' # phase => UNCHANGED runs
  BY DEF Connect, StartScheduler, LoadPreferences, Tick, UserStep, SetModes, SetAutoOpen,
         UserRuns, ReadSwitch, SaveStep, SaveReads, SaveCommits, StartupFires, ReplayStep,
         ReplayReads, ReplayNext, OnCandle, DebounceEnds, PassBegins, PassEnds
<1>4. /\ runs \subseteq runs' /\ \A r \in runs' : r \in runs \/ \E j, by : r = Run(j, by)
      /\ phase # "live" => runs' = runs
  <2>1. CASE \/ Connect \/ StartScheduler \/ LoadPreferences
             \/ ReadSwitch \/ SaveStep \/ ReplayReads
             \/ OnCandle \/ DebounceEnds \/ PassBegins \/ PassEnds
    <3>1. runs' = runs
      BY <2>1 DEF Connect, StartScheduler, LoadPreferences, ReadSwitch, SaveStep, SaveReads,
                  SaveCommits, ReplayReads, OnCandle, DebounceEnds, PassBegins, PassEnds
    <3> QED
      BY <3>1
  <2>2. CASE Tick
    <3>1. runs' = IF phase = "live" THEN runs \cup Fired(clock + 1) ELSE runs
      BY <2>2 DEF Tick
    <3>2. \A r \in Fired(clock + 1) : \E j : r = Run(j, "cron")
      BY DEF Fired
    <3> QED
      BY <3>1, <3>2
  <2>3. CASE UserStep
    <3>1. phase = "live"
      BY <2>3 DEF UserStep, UserRuns, SetModes, SetAutoOpen, Asks
    <3>2. runs' = runs \/ \E j : runs' = runs \cup {Run(j, "user")}
      BY <2>3 DEF UserStep, UserRuns, SetModes, SetAutoOpen, Started
    <3> QED
      BY <3>1, <3>2
  <2>4. ASSUME NEW j \in startup, StartupFires(j)
        PROVE  phase = "live" /\ runs' = runs \cup {Run(j, "startup")}
    BY <2>4 DEF StartupFires, Started
  <2>5. CASE ReplayNext
    <3>1. phase = "live"
      BY <2>5 DEF ReplayNext, RunsInv
    <3>2. runs' = runs \/ runs' = runs \cup {Run(Head(replay.left), "replay")}
      BY <2>5 DEF ReplayNext
    <3> QED
      BY <3>1, <3>2
  <2> QED
    BY <2>1, <2>2, <2>3, <2>4, <2>5 DEF ReplayStep
<1>5. \A r \in runs' : r \in runs \/ (RunOk(r) /\ r.pc \notin AfterSelect)
  BY <1>4, NewRun
<1>6. "pc" \in DOMAIN replay' /\ (phase' # "live" => runs' = {} /\ replay'.pc = "idle")
  <2>1. CASE ReplayReads \/ LoadPreferences \/ ReplayNext
    <3>1. "pc" \in DOMAIN replay'
      BY <2>1 DEF ReplayReads, LoadPreferences, ReplayNext, RunsInv, Idle
    <3>2. phase' = "live"
      BY <2>1 DEF ReplayReads, LoadPreferences, ReplayNext, RunsInv
    <3> QED
      BY <3>1, <3>2
  <2>2. CASE ~(ReplayReads \/ LoadPreferences \/ ReplayNext)
    <3>1. UNCHANGED replay
      BY <2>2 DEF Connect, StartScheduler, Tick, UserStep, SetModes, SetAutoOpen,
         UserRuns, ReadSwitch, SaveStep, SaveReads, SaveCommits, StartupFires, ReplayStep,
         OnCandle, DebounceEnds, PassBegins, PassEnds
    <3> QED
      BY <1>3, <1>4, <3>1 DEF RunsInv
  <2> QED
    BY <2>1, <2>2
<1>7. \A r \in runs : r.pc \in AfterSelect => r \in runs'
  BY <1>4
<1> QED
  BY <1>1, <1>2, <1>3, <1>5, <1>6, <1>7, RefreshSteady

LEMMA RefreshNext == RunsInv /\ RefreshInv /\ [Next]_vars => RunsInv' /\ RefreshInv'
<1> SUFFICES ASSUME RunsInv, RefreshInv, [Next]_vars PROVE RunsInv' /\ RefreshInv'
  OBVIOUS
<1>1. CASE Restore
  <2>1. /\ phase # "live" /\ phase' = "restored"
        /\ UNCHANGED <<scene, rows, held, runs, replay>>
        /\ tradable' = IF Flagged = {} THEN Seeds ELSE Flagged
        /\ streamed' = Flagged
    BY <1>1 DEF Restore
  <2>2. runs = {} /\ replay.pc = "idle" /\ Flagged' = Flagged
    BY <2>1 DEF RunsInv, Flagged
  <2> QED
    BY <2>1, <2>2 DEF RunsInv, RefreshInv, Awaits, Agree
<1>2. CASE Down
  <2>1. /\ phase' = "down" /\ runs' = {} /\ replay' = Idle /\ UNCHANGED <<scene, held>>
    BY <1>2 DEF Down
  <2> QED
    BY <2>1 DEF RunsInv, RefreshInv, Idle
<1>3. CASE RunSteps \/ \E r \in runs : Fails(r) \/ FlagsFail(r)
  BY <1>3, EarlyRunKeeps, SelectKeeps, CloseKeeps, CaptureKeeps, FlagsKeep, FeedKeeps
     DEF RunSteps, RunStep, ListStep
<1>4. CASE UNCHANGED vars
  <2>1. UNCHANGED <<scene, phase, runs, replay, tradable, rows, streamed, held, stale>>
    BY <1>4 DEF vars, machine, lists
  <2> QED
    BY <2>1 DEF RunsInv, RefreshInv, RunOk, Awaits, Agree, Flagged
<1> QED
  BY <1>1, <1>2, <1>3, <1>4, AroundRunsKeeps DEF Next, StartUp

\* The list that is analysed and the feed's subscriptions agree once no
\* refresh_tradable_epics is going, however refreshes, crawls, closed positions and
\* restarts were interleaved, and so do the flags on record unless their last
\* write failed or was overtaken by a selection.
THEOREM RefreshesHold == Spec => []RefreshesAgree
<1>1. RunsInv /\ RefreshInv => RefreshesAgree
  <2> SUFFICES ASSUME RunsInv, RefreshInv, phase = "live", streamed # {},
                      \A r \in runs : r.job # Tradable
               PROVE  Agree /\ (stale \/ Flagged \subseteq tradable)
    BY DEF RefreshesAgree, Agree
  <2>1. \A r \in runs : r.pc \notin AfterSelect
    BY DEF RunsInv, RunOk, AfterSelect
  <2>2. ~Awaits(AfterSelect) /\ ~Awaits({"held", "flags", "persist"})
    BY <2>1 DEF Awaits, AfterSelect
  <2> QED
    BY <2>2 DEF RefreshInv
<1>2. Spec => [](RunsInv /\ RefreshInv)
  BY RefreshInit, RefreshNext, PTL DEF Spec
<1> QED
  BY <1>1, <1>2, PTL
=============================================================================
