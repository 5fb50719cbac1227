------------------------------- MODULE Candles -------------------------------
(***************************************************************************)
(* The candles of one epic on their way from IG to the price buffer, the   *)
(* candle table and the weekly archive: feed/streaming.py (the listener),  *)
(* feed/price_buffer.py, feed/candle_store.py, feed/market_data.py, and    *)
(* the scheduler's polling, rehydration, midnight reset and purge.  Epics  *)
(* do not meet: the buffer and the table keep them apart.                  *)
(*                                                                         *)
(* A candle is its minute and whether the minute was over when it was      *)
(* taken; prices are left out.  An action ends at an await.                *)
(***************************************************************************)
EXTENDS Naturals, Sequences, FiniteSets, FiniteSetsExt, SequencesExt

CONSTANTS
    MaxMinute,   \* bound: the clock stops there
    DayLength,   \* minutes in a day
    Retention,   \* candle_retention_days, in minutes
    MaxBuffer,   \* buffer_max_candles
    Reloaded,    \* DEFAULT_MAX_CANDLES, what a restart reloads
    MaxWire,     \* bound: frames waiting for the event loop
    MaxCrashes,  \* bound
    MaxFailed,   \* bound: saves fail while fewer minutes were lost by it
    Sources      \* streaming_enabled: "stream", or the legacy "poll"

ASSUME CandlesAssumption ==
    /\ {MaxMinute, DayLength, MaxBuffer, Reloaded} \subseteq Nat \ {0}
    /\ Retention \in Nat \ {0, 1}  \* a poll asks for the last two minutes
    /\ {MaxWire, MaxCrashes, MaxFailed} \subseteq Nat
    /\ Sources \subseteq {"stream", "poll"}

VARIABLES
    source,   \* one of Sources
    now,      \* the minute that is being formed
    up,       \* the process runs; while it is down, buffer is what it lost
    wire,     \* frames handed to the loop: Seq(Candle)
    reply,    \* finished candles of the poll under way
    buffer,   \* EpicBuffer.candles
    table,    \* the candle table
    saves,    \* CandleStore.save calls: [pc, batch]
    purge,    \* dump_and_purge: [pc, cutoff, old]
    export,   \* export_to_archive: [pc, rows]
    archive,  \* [Minutes -> rows of the week file]
    day,      \* the day whose midnight reset is done
    received, \* history: finished candles handed to the buffer since it was
              \* last emptied, those apart that came behind a newer one
    failed,   \* history: the minutes of the saves that raised
    crashes

vars == <<source, now, up, wire, reply, buffer, table, saves, purge, export,
          archive, day, received, failed, crashes>>

Minutes == 1..MaxMinute
Candle == [time : Minutes, final : BOOLEAN]
Times(candles) == {c.time : c \in candles}
Latest(candles) == Max(Times(candles) \cup {0})
Finished(m) == [time |-> m, final |-> TRUE]

IdlePurge == [pc |-> "idle", cutoff |-> 0, old |-> {}]
IdleExport == [pc |-> "idle", rows |-> {}]

DayOf(m) == m \div DayLength
Today(m) == DayOf(m) = DayOf(now)

\* collections.deque with a maxlen.
LastOf(s, n) == SubSeq(s, IF Len(s) > n THEN Len(s) - n + 1 ELSE 1, Len(s))

ByTime(candles) ==
    CHOOSE s \in [1..Cardinality(candles) -> candles] :
        \A i, j \in DOMAIN s : i < j => s[i].time < s[j].time

Init ==
    /\ source \in Sources
    /\ now = 1 /\ up = TRUE /\ wire = <<>> /\ reply = {} /\ buffer = <<>>
    /\ table = {} /\ saves = {} /\ purge = IdlePurge /\ export = IdleExport
    /\ archive = [m \in Minutes |-> 0]
    /\ day = 0 /\ received = {} /\ failed = {} /\ crashes = 0

store == <<table, purge, export, archive>>

-----------------------------------------------------------------------------
(* PriceBuffer and CandleStore.save *)

\* append_candles: only what is strictly newer than the newest one.
Appended(buf, candles) ==
    LastOf(buf \o ByTime({c \in candles : c.time > Latest(ToSet(buf))}),
          MaxBuffer)

Receive(candles) ==
    /\ buffer' = Appended(buffer, candles)
    /\ received' = received \cup
           {c \in candles : c.final /\ c.time > Latest(received)}
    /\ saves' = saves \cup {[pc |-> "called", batch |-> candles]}

\* Mutant: a save that comes right behind another one finds nothing to do.
FreshButNext(batch) == {c \in batch : c.time > Latest(table) + 1}

\* What a save finds newer than the table.
Fresh(batch) == {c \in batch : c.time > Latest(table)}

\* save reads the newest time on record ...
SaveReads(s) ==
    /\ s \in saves /\ s.pc = "called"
    /\ saves' = (saves \ {s}) \cup
                (IF Fresh(s.batch) = {} THEN {}
                 ELSE {[pc |-> "read", batch |-> Fresh(s.batch)]})
    /\ UNCHANGED <<source, now, up, wire, reply, buffer, store, day, received,
                   failed, crashes>>

\* ... and inserts; a minute that is on record by now fails the whole batch.
SaveCommits(s) ==
    /\ s \in saves /\ s.pc = "read"
    /\ saves' = saves \ {s}
    /\ table' = IF Times(s.batch) \cap Times(table) = {}
                THEN table \cup s.batch ELSE table
    /\ UNCHANGED <<source, now, up, wire, reply, buffer, purge, export, archive,
                   day, received, failed, crashes>>

\* Either step may raise (the database is locked, say): save logs it, and the
\* batch is lost for the table.
SaveFails(s) ==
    /\ s \in saves /\ Cardinality(failed) < MaxFailed
    /\ saves' = saves \ {s}
    /\ failed' = failed \cup Times(s.batch)
    /\ UNCHANGED <<source, now, up, wire, reply, buffer, store, day, received,
                   crashes>>

-----------------------------------------------------------------------------
(* Lightstreamer and /prices *)

Sent(c) == /\ source = "stream" /\ up /\ Len(wire) < MaxWire
           /\ wire' = Append(wire, c)

\* A frame of the minute that is being formed.
PartialFrame ==
    /\ Sent([time |-> now, final |-> FALSE])
    /\ UNCHANGED <<source, now, up, reply, buffer, store, saves, day, received,
                   failed, crashes>>

\* The consolidated frame of the last minute; a fresh subscription gets it
\* again, a dead one never.
FinalFrame ==
    /\ now > 1
    /\ Sent(Finished(now - 1))
    /\ UNCHANGED <<source, now, up, reply, buffer, store, saves, day, received,
                   failed, crashes>>

\* Mutant: every frame is taken (CONS_END is not looked at).
KeptAll(c) == TRUE

\* _CandleListener.onItemUpdate keeps the frames with CONS_END = "1".
Kept(c) == c.final

\* on_candle: the buffer first, then a task that persists the candle.
OnFrame ==
    /\ wire # <<>>
    /\ wire' = Tail(wire)
    /\ IF Kept(Head(wire)) THEN Receive({Head(wire)})
       ELSE UNCHANGED <<buffer, saves, received>>
    /\ UNCHANGED <<source, now, up, reply, store, day, failed, crashes>>

\* _collect_and_analyze_polling: the last two finished minutes are asked for;
\* the job runs one instance at a time and awaits its saves.
Poll ==
    /\ source = "poll" /\ up /\ reply = {} /\ saves = {}
    /\ now > 2
    /\ reply' = {Finished(now - 1), Finished(now - 2)}
    /\ UNCHANGED <<source, now, up, wire, buffer, store, saves, day, received,
                   failed, crashes>>

\* fetch_latest_candles and the save that follows it.
PollAnswered ==
    /\ reply # {}
    /\ Receive(reply)
    /\ reply' = {}
    /\ UNCHANGED <<source, now, up, wire, store, day, failed, crashes>>

PollFails ==
    /\ reply # {}
    /\ reply' = {}
    /\ UNCHANGED <<source, now, up, wire, buffer, store, saves, day, received,
                   failed, crashes>>

-----------------------------------------------------------------------------
(* Retention and the archive *)

\* dump_and_purge selects the rows past the retention ...
PurgeReads ==
    /\ up /\ purge.pc = "idle" /\ now > Retention
    /\ \E c \in table : c.time < now - Retention
    /\ purge' = [pc |-> "read", cutoff |-> now - Retention,
                 old |-> {c.time : c \in {d \in table :
                                          d.time < now - Retention}}]
    /\ UNCHANGED <<source, now, up, wire, reply, buffer, table, saves, export,
                   archive, day, received, failed, crashes>>

\* Mutant: the rows are deleted before they are written to the file.
PurgeDeletesFirst ==
    /\ purge.pc = "read"
    /\ table' = {c \in table : c.time >= purge.cutoff}
    /\ purge' = [purge EXCEPT !.pc = "written"]
    /\ UNCHANGED <<source, now, up, wire, reply, buffer, saves, export, archive,
                   day, received, failed, crashes>>

\* ... appends them to the week file without looking what it holds ...
PurgeArchives ==
    /\ purge.pc = "read"
    /\ archive' = [m \in Minutes |->
                     IF m \in purge.old THEN archive[m] + 1 ELSE archive[m]]
    /\ purge' = [purge EXCEPT !.pc = "written"]
    /\ UNCHANGED <<source, now, up, wire, reply, buffer, table, saves, export,
                   day, received, failed, crashes>>

\* ... and deletes by the cutoff it computed at its start.
PurgeCommits ==
    /\ purge.pc = "written"
    /\ table' = {c \in table : c.time >= purge.cutoff}
    /\ purge' = IdlePurge
    /\ UNCHANGED <<source, now, up, wire, reply, buffer, saves, export, archive,
                   day, received, failed, crashes>>

\* export_to_archive, from the backtest page.
ExportReads ==
    /\ up /\ export.pc = "idle"
    /\ \E c \in table : archive[c.time] = 0
    /\ export' = [pc |-> "read", rows |-> Times(table)]
    /\ UNCHANGED <<source, now, up, wire, reply, buffer, table, saves, purge,
                   archive, day, received, failed, crashes>>

ExportWrites ==
    /\ export.pc = "read"
    /\ archive' = [m \in Minutes |->
                     IF m \in export.rows /\ archive[m] = 0
                     THEN 1 ELSE archive[m]]
    /\ export' = IdleExport
    /\ UNCHANGED <<source, now, up, wire, reply, buffer, table, saves, purge,
                   day, received, failed, crashes>>

-----------------------------------------------------------------------------
(* Time, the midnight reset, restarts *)

\* No frame, reply, save or purge takes as long as the retention.
InTime(m) == m + Retention > now

Tick ==
    /\ now < MaxMinute
    /\ \A i \in DOMAIN wire : InTime(wire[i].time)
    /\ \A m \in Times(reply) \cup Times(UNION {s.batch : s \in saves}) : InTime(m)
    /\ purge.pc = "idle"
    /\ now' = now + 1
    /\ UNCHANGED <<source, up, wire, reply, buffer, store, saves, day, received,
                   failed, crashes>>

\* _daily_reset, in UTC here.
DailyReset ==
    /\ up /\ day < DayOf(now)
    /\ day' = DayOf(now)
    /\ buffer' = <<>> /\ received' = {}
    /\ UNCHANGED <<source, now, up, wire, reply, store, saves, failed, crashes>>

Crash ==
    /\ up /\ crashes < MaxCrashes
    /\ crashes' = crashes + 1
    /\ up' = FALSE
    /\ wire' = <<>> /\ reply' = {} /\ saves' = {}
    /\ purge' = IdlePurge /\ export' = IdleExport
    /\ UNCHANGED <<source, now, buffer, table, archive, day, received, failed>>

\* Mutant: the day's first candles are reloaded instead of its last.
RehydratedHead(rows) ==
    IF rows = {} THEN <<>>
    ELSE SubSeq(ByTime(rows), 1,
                IF Cardinality(rows) < Reloaded THEN Cardinality(rows)
                ELSE Reloaded)

\* _rehydrate_buffer: today's rows, before anything is subscribed.
Rehydrated(rows) == LastOf(ByTime(rows), Reloaded)

Restart ==
    /\ ~up
    /\ up' = TRUE
    /\ LET rows == {c \in table : Today(c.time)}
       IN /\ buffer' = LastOf(Rehydrated(rows), MaxBuffer)
          /\ received' = ToSet(buffer')
    /\ day' = DayOf(now)
    /\ UNCHANGED <<source, now, wire, reply, store, saves, failed, crashes>>

-----------------------------------------------------------------------------
SaveStep(s) == SaveReads(s) \/ SaveCommits(s) \/ SaveFails(s)
PurgeStep == PurgeArchives \/ PurgeCommits

Next ==
    \/ \E s \in saves : SaveStep(s)
    \/ PartialFrame \/ FinalFrame \/ OnFrame
    \/ Poll \/ PollAnswered \/ PollFails
    \/ PurgeReads \/ PurgeStep \/ ExportReads \/ ExportWrites
    \/ Tick \/ DailyReset \/ Crash \/ Restart

Spec == Init /\ [][Next]_vars

-----------------------------------------------------------------------------
(* Properties *)

\* The buffer is the tail of the finished minutes it was handed since it was
\* last emptied, in order and each once, whatever frames of a forming minute,
\* repeated frames and overlapping replies came in between: no partial candle
\* hides the finished one (docs/DATAFLOW.md section 6, first invariant).
BufferIsTail ==
    buffer = LastOf(ByTime(received), MaxBuffer)

Recorded == Times(table) \cup {m \in Minutes : archive[m] > 0}

\* A candle the decisions were taken on is on record, or being saved, or a
\* newer one was recorded first, or its own save raised: the saves of one epic,
\* which overlap, lose nothing to each other (CandleStore.save).
BufferedIsSaved ==
    up => \A c \in ToSet(buffer) :
             \/ c.time \in Recorded
             \/ \E s \in saves : c \in s.batch
             \/ \E m \in Recorded : m > c.time
             \/ c.time \in failed

\* What was recorded stays readable in the table or the archive, through
\* purges, exports and a crash at any await of either.
RecordsKept == [][Recorded \subseteq Recorded']_vars

\* What the buffer held and the table has of the day.
Resumable == {c \in ToSet(buffer) \cap table : Today(c.time)}

\* A restart gives the indicators back the last Reloaded candles of the day that
\* the buffer held and the table has, and all of them where the buffer holds no
\* more than that (load_persisted_state, "the same intra-day history it had
\* before the stop"): no candle the buffer never had pushes one out.
RestartResumes ==
    [][~up /\ up' =>
       \A c \in Resumable :
          Cardinality({d \in Resumable : d.time > c.time}) < Reloaded
          => c \in ToSet(buffer')]_vars

=============================================================================
