----------------------------- MODULE StopRatchet -----------------------------
(***************************************************************************)
(* The protective stop of one open position.  It exists three times: as the*)
(* software follower the bot closes on and as the last accepted broker     *)
(* level, both columns of the position's row, and as the order resting at  *)
(* IG, one spread and a noise cushion beyond the follower.  Two tasks move *)
(* it: the monitoring pass (manage_position, tighten only) and the         *)
(* dashboard's chart button (set_stop_manually, either way).               *)
(*                                                                         *)
(* Each task works on the row as its own session loaded it, awaits one PUT *)
(* through the API queue and then commits the columns it assigned.  Prices *)
(* are integers; the updaters' formulas are left out: a pass may propose   *)
(* any level, and "manage_position" has to cope.                           *)
(***************************************************************************)
EXTENDS Integers, Sequences

CONSTANTS
    Bids,          \* prices the market may show
    Proposals,     \* levels an updater may propose or the user may pick
    Entry,         \* the bid at open
    Risk,          \* distance of the initial follower
    Spread,
    Cushion,       \* broker_stop_noise_atr x ATR
    MinDistance,   \* min_stop_distance captured at open
    IgDistance,    \* the floor IG enforces
    Noise,         \* width of the break-even and secure bands
    Events         \* what may happen in this instance

(***************************************************************************)
(* Events: "refusal" (IG refuses a PUT or a close for a reason of its own),*)
(* "lost_reply" (a PUT gets no answer: only IGAPIError is caught),         *)
(* "no_buffer" (no candle of the epic is buffered), "close_hour" (the      *)
(* market's last hour has begun).  The user may act while a pass is under  *)
(* way, and a pass may begin while the user's PUT is: no lock is shared.   *)
(***************************************************************************)
ASSUME StopAssumption ==
    /\ Bids \subseteq Int /\ Proposals \subseteq {n \in Int : n > 0}
    /\ Entry \in Bids
    /\ {Risk, Spread, Cushion, MinDistance, IgDistance, Noise} \subseteq Nat
    /\ Events \subseteq {"refusal", "lost_reply", "no_buffer", "close_hour"}

Movers == {"monitor", "user"}

VARIABLES
    direction,     \* "BUY" or "SELL"
    minDistance,   \* MinDistance, or 0 on an adopted row
    bid,           \* the live bid
    open,          \* the position is open
    row,           \* [follower, loose, stop, zone] as committed
    igStop,        \* the stop order resting at IG
    mover,         \* [Movers -> what the task does and what it has loaded]
    puts,          \* the movers whose PUT is in the API queue, first come
                   \* first served: all are URGENT
    overtaken,     \* history: the user's PUT was answered, or its commit was
                   \* pending, since the pass under way loaded the row
    pinned,        \* history: the zone of the last stop pinned while no pass
                   \* was under way, until the bid leaves it
    unsure         \* history: a reply was lost, and no PUT accepted since

vars == <<direction, minDistance, bid, open, row, igStop, mover, puts,
          overtaken, pinned, unsure>>
fixed == <<direction, minDistance>>
history == <<pinned, unsure>>

-----------------------------------------------------------------------------
(* Levels.  A level of 0 means there is none. *)

Known(level) == level > 0

\* The price a close is filled at: the bid for a long, the offer for a short.
CloseOut(b) == IF direction = "SELL" THEN b + Spread ELSE b

\* Moving the stop from y to x tightens the protection.
Tighter(x, y) == IF direction = "SELL" THEN x < y ELSE x > y

\* distance further from the market than level.
Away(level, distance) ==
    IF direction = "SELL" THEN level + distance ELSE level - distance

Touched(b, level) == Known(level) /\ ~Tighter(CloseOut(b), level)

BreakEven == IF direction = "SELL" THEN Entry ELSE Entry + Spread

Zones == {"underwater", "breakeven_band", "secure", "profit"}
Zone(b) ==
    LET gain == IF direction = "SELL" THEN BreakEven - CloseOut(b)
                ELSE CloseOut(b) - BreakEven IN
    IF gain > 2 * Noise THEN "profit"
    ELSE IF gain > Noise THEN "secure"
    ELSE IF gain > 0 THEN "breakeven_band" ELSE "underwater"

\* The broker level of a follower, moved out to IG's minimum distance.
BrokerLevel(level, price) ==
    LET wanted == Away(level, Spread + Cushion)
        floor == Away(price, minDistance)
    IN IF minDistance > 0 /\ Tighter(wanted, floor) THEN floor ELSE wanted

\* Mutant: the broker stop follows the follower and the floor wherever they go.
BrokerTargetUnguarded(me, level) == BrokerLevel(level, CloseOut(me.bid))

\* What a pass pushes: never looser than the level it knows to be resting.
BrokerTarget(me, level) ==
    LET wanted == BrokerLevel(level, CloseOut(me.bid)) IN
    IF Known(me.stop) /\ ~Tighter(wanted, me.stop) THEN me.stop ELSE wanted

-----------------------------------------------------------------------------
(* The tasks *)

IdleMover == [pc |-> "idle", bid |-> 0, follower |-> 0, stop |-> 0,
              zone |-> "", level |-> 0, target |-> 0]

MoverType == [pc : {"idle", "loaded", "put", "accepted", "refused", "lost"},
              bid : Int, follower : Int, stop : Int, zone : Zones \cup {""},
              level : Int, target : Int]

Pass == mover["monitor"]
Done(x) ==
    /\ mover' = [mover EXCEPT ![x] = IdleMover]
    /\ overtaken' = (x = "user" /\ overtaken)
Answered(x) == mover[x].pc \in {"accepted", "refused", "lost"}

\* _monitor_positions_pass loads the row and, in its first phase, the bid.
BeginPass ==
    /\ open /\ Pass.pc = "idle"
    /\ mover' = [mover EXCEPT !["monitor"] = [IdleMover EXCEPT
                    !.pc = "loaded", !.bid = bid, !.follower = row.follower,
                    !.stop = row.stop, !.zone = row.zone]]
    /\ overtaken' = Answered("user")
    /\ UNCHANGED <<fixed, bid, open, row, igStop, puts, pinned, unsure>>

\* _close_position: on a refusal the position stays open.
Close ==
    /\ open' = FALSE \/ ("refusal" \in Events /\ open' = TRUE)
    /\ Done("monitor")
    /\ UNCHANGED <<fixed, bid, row, igStop, puts, history>>

\* Mutant: the user's hold comes before the backstop.
BackstopUnlessHeld ==
    /\ open /\ Pass.pc = "loaded"
    /\ Touched(Pass.bid, Pass.follower)
    /\ Pass.zone = ""
    /\ Close

\* evaluate: the follower is touched.  A user's hold does not stop it.
Backstop ==
    /\ open /\ Pass.pc = "loaded"
    /\ Touched(Pass.bid, Pass.follower)
    /\ Close

\* The market's last hour; a long without candles also closes on its target.
CloseHour ==
    /\ "close_hour" \in Events
    /\ open /\ Pass.pc = "loaded"
    /\ Close

\* The epic has no candle: a short is left alone, a long falls back on
\* check_and_close, which knows the initial stop only (level_loose).
Unbuffered ==
    /\ "no_buffer" \in Events
    /\ open /\ Pass.pc = "loaded"
    /\ IF direction = "BUY" /\ Known(row.loose) /\ Pass.bid <= row.loose
       THEN Close
       ELSE /\ Done("monitor")
            /\ UNCHANGED <<fixed, bid, open, row, igStop, puts, history>>

Managed ==
    open /\ Pass.pc = "loaded" /\ ~Touched(Pass.bid, Pass.follower)

\* Mutant: a hold is forgotten.
HeldNever(me) == FALSE

\* The bid is in the zone the user pinned the stop in.
Held(me) == me.zone # "" /\ me.zone = Zone(me.bid)

\* Mutant: any proposal of an updater is applied.
AcceptableAny(me, level) == TRUE

\* The ratchet invariant: an update that does not tighten is dropped.
Acceptable(me, level) == Known(me.follower) => Tighter(level, me.follower)

\* The profile holds, the user's hold is on, or the update does not tighten.
KeepStop ==
    /\ Managed
    /\ Held(Pass) \/ Pass.zone = ""
    /\ Done("monitor")
    /\ UNCHANGED <<fixed, bid, open, row, igStop, puts, history>>

\* The bid has left the user's zone: the hold is committed away, then the
\* decision made before is applied.
ReleaseHold ==
    /\ Managed
    /\ Pass.zone # "" /\ ~Held(Pass)
    /\ row' = [row EXCEPT !.zone = ""]
    /\ mover' = [mover EXCEPT !["monitor"].zone = ""]
    /\ UNCHANGED <<fixed, bid, open, igStop, puts, overtaken, history>>

\* _ratchet_stop: the broker level does not change, so nothing is pushed.
RaiseFollower(level) ==
    /\ Managed /\ Pass.zone = ""
    /\ Acceptable(Pass, level)
    /\ Known(Pass.stop) /\ BrokerTarget(Pass, level) = Pass.stop
    /\ row' = [row EXCEPT !.follower = level]
    /\ Done("monitor")
    /\ UNCHANGED <<fixed, bid, open, igStop, puts, history>>

RaiseStop(level) ==
    /\ Managed /\ Pass.zone = ""
    /\ Acceptable(Pass, level)
    /\ ~(Known(Pass.stop) /\ BrokerTarget(Pass, level) = Pass.stop)
    /\ mover' = [mover EXCEPT !["monitor"].pc = "put",
                    !["monitor"].level = level,
                    !["monitor"].target = BrokerTarget(Pass, level)]
    /\ puts' = Append(puts, "monitor")
    /\ UNCHANGED <<fixed, bid, open, row, igStop, overtaken, history>>

\* set_stop_manually: any level the close-out price has not reached.  The
\* minimum distance is counted from the bid on both sides.
PickStop(level) ==
    /\ open /\ mover["user"].pc = "idle"
    /\ level # row.follower /\ ~Touched(bid, level)
    /\ mover' = [mover EXCEPT !["user"] = [IdleMover EXCEPT
                    !.pc = "put", !.level = level,
                    !.zone = Zone(bid), !.target = BrokerLevel(level, bid)]]
    /\ puts' = Append(puts, "user")
    /\ UNCHANGED <<fixed, bid, open, row, igStop, overtaken, history>>

-----------------------------------------------------------------------------
(* PUT /positions/otc/{dealId} *)

\* Mutant: an answered call stays in the queue.
AnswerPutKept(x, answer) ==
    /\ open
    /\ puts # <<>> /\ x = Head(puts) /\ puts' = puts
    /\ mover' = [mover EXCEPT ![x].pc = answer]
    /\ overtaken' = (Pass.pc # "idle" /\ (overtaken \/ x = "user"))
    /\ UNCHANGED <<fixed, bid, open, row, pinned>>

\* The queue sends one call at a time, and the task that gets an answer commits
\* before the next call is answered.
AnswerPut(x, answer) ==
    /\ open
    /\ puts # <<>> /\ x = Head(puts) /\ puts' = Tail(puts)
    /\ \A y \in Movers : mover[y].pc \in {"idle", "loaded", "put"}
    /\ mover' = [mover EXCEPT ![x].pc = answer]
    /\ overtaken' = (Pass.pc # "idle" /\ (overtaken \/ x = "user"))
    /\ UNCHANGED <<fixed, bid, open, row, pinned>>

TooClose(target) == Tighter(target, Away(CloseOut(bid), IgDistance))

PutAccepted(x) ==
    /\ AnswerPut(x, "accepted")
    /\ ~TooClose(mover[x].target)
    /\ igStop' = mover[x].target /\ unsure' = FALSE

PutRefused(x) ==
    /\ AnswerPut(x, "refused")
    /\ TooClose(mover[x].target) \/ "refusal" \in Events
    /\ UNCHANGED <<igStop, unsure>>

PutLost(x) ==
    /\ "lost_reply" \in Events
    /\ AnswerPut(x, "lost")
    /\ igStop' = igStop \/ (~TooClose(mover[x].target)
                            /\ igStop' = mover[x].target)
    /\ unsure' = TRUE

\* Mutant: the level IG refused is recorded all the same.
CommittedEither(me) ==
    [row EXCEPT !.follower = me.level, !.stop = me.target]

\* level_stop advances only when IG took the level.
Committed(me) ==
    [row EXCEPT !.follower = me.level,
                !.stop = IF me.pc = "accepted" THEN me.target ELSE @]

CommitRatchet ==
    /\ open /\ Pass.pc \in {"accepted", "refused"}
    /\ row' = Committed(Pass)
    /\ Done("monitor")
    /\ UNCHANGED <<fixed, bid, open, igStop, puts, history>>

CommitManual ==
    /\ open /\ mover["user"].pc \in {"accepted", "refused"}
    /\ row' = [Committed(mover["user"]) EXCEPT !.zone = mover["user"].zone]
    /\ pinned' = IF Pass.pc = "idle" /\ mover["user"].zone = Zone(bid)
                 THEN Zone(bid) ELSE ""
    /\ Done("user")
    /\ UNCHANGED <<fixed, bid, open, igStop, puts, unsure>>

\* The exception leaves the task.  The pass goes on with its next position,
\* whose commit may still write this row's follower.
PutFails(x) ==
    /\ open /\ mover[x].pc = "lost"
    /\ \/ UNCHANGED row
       \/ x = "monitor" /\ row' = [row EXCEPT !.follower = Pass.level]
    /\ Done(x)
    /\ UNCHANGED <<fixed, bid, open, igStop, puts, history>>

-----------------------------------------------------------------------------
(* The market *)

Move(b) ==
    /\ open
    /\ bid' = b
    /\ pinned' = IF pinned = Zone(b) THEN pinned ELSE ""
    /\ UNCHANGED <<fixed, open, row, igStop, mover, puts, overtaken, unsure>>

StopOut ==
    /\ open /\ Touched(bid, igStop)
    /\ open' = FALSE
    /\ UNCHANGED <<fixed, bid, row, igStop, mover, puts, overtaken, history>>

-----------------------------------------------------------------------------
\* A position the bot opened, or one it adopted, with a stop at IG or without.
Init ==
    /\ direction \in {"BUY", "SELL"}
    /\ bid = Entry
    /\ open = TRUE
    /\ \/ /\ minDistance = MinDistance
          /\ row = [follower |-> Away(CloseOut(Entry), Risk),
                    loose |-> Away(CloseOut(Entry), Risk),
                    stop |-> Away(CloseOut(Entry), Risk + Spread + Cushion),
                    zone |-> ""]
       \/ /\ minDistance = 0
          /\ \E level \in {0, Away(CloseOut(Entry), Risk)} :
                row = [follower |-> level, loose |-> level, stop |-> level,
                       zone |-> ""]
    /\ igStop = row.stop
    /\ mover = [x \in Movers |-> IdleMover]
    /\ puts = <<>>
    /\ overtaken = FALSE /\ pinned = "" /\ unsure = FALSE

PassStep ==
    \/ Backstop \/ CloseHour \/ Unbuffered \/ KeepStop \/ ReleaseHold
    \/ \E level \in Proposals : RaiseFollower(level) \/ RaiseStop(level)

PutStep(x) == PutAccepted(x) \/ PutRefused(x) \/ PutLost(x) \/ PutFails(x)

Next ==
    \/ BeginPass \/ PassStep \/ CommitRatchet
    \/ CommitManual \/ \E level \in Proposals : PickStop(level)
    \/ \E x \in Movers : PutStep(x)
    \/ \E b \in Bids : Move(b)
    \/ StopOut

Spec == Init /\ [][Next]_vars

\* Passes recur (each candle, and every 30 s), the queue answers, the user is
\* not always faster than a pass, and a close that is asked for again and
\* again is carried out in the end.
Fairness ==
    /\ SF_vars(BeginPass) /\ WF_vars(PassStep)
    /\ WF_vars(CommitRatchet) /\ WF_vars(CommitManual)
    /\ \A x \in Movers : WF_vars(PutStep(x))
    /\ SF_vars(Backstop /\ ~open')

FairSpec == Spec /\ Fairness

-----------------------------------------------------------------------------
(* Properties *)

PutQueues ==
    {<<>>} \cup {<<x>> : x \in Movers}
           \cup {<<x, y>> : x \in Movers, y \in Movers}

\* A task has a call in the queue exactly while it awaits the answer.
OneCallEach ==
    /\ \A i, j \in DOMAIN puts : puts[i] = puts[j] => i = j
    /\ \A x \in Movers :
          mover[x].pc = "put" <=> \E i \in DOMAIN puts : puts[i] = x

\* The type of the variables, of the loaded copies and of the waiting PUTs.
TypeOK ==
    /\ direction \in {"BUY", "SELL"} /\ minDistance \in {0, MinDistance}
    /\ bid \in Bids /\ open \in BOOLEAN
    /\ row \in [follower : Int, loose : Int, stop : Int,
                zone : Zones \cup {""}]
    /\ igStop \in Int
    /\ mover \in [Movers -> MoverType]
    /\ puts \in PutQueues /\ OneCallEach
    /\ pinned \in Zones \cup {""} /\ {overtaken, unsure} \subseteq BOOLEAN

\* The step is no step of the user's.
Automatic == UNCHANGED mover["user"]

\* The bot alone never loosens the committed follower, whatever its updaters
\* propose (manage_position, "ratchet invariant") and however its passes and the
\* user's moves interleave: only a pass the user's move has overtaken may, since
\* it writes what it made of the row it had loaded.
RatchetOnly ==
    [][/\ Automatic /\ ~overtaken
       /\ Known(row.follower) /\ row'.follower # row.follower
       => Tighter(row'.follower, row.follower)]_vars

\* The bot alone never loosens the order resting at IG, however the minimum
\* distance and the refusals shape what it pushes (_ratchet_stop, "never
\* loosen a level already resting at IG"), while no PUT is in doubt and the
\* user's move has not overtaken the pass: a lost reply and such a pass are the
\* only ways to loosen it, and the next accepted PUT ends the doubt.
BrokerRatchetOnly ==
    [][Automatic /\ ~unsure /\ ~overtaken /\ Known(igStop) /\ igStop' # igStop
       => Tighter(igStop', igStop)]_vars

\* Until the bid leaves the zone the user pinned the stop in, no pass moves
\* the stop, here or at IG, unless one was under way when the move was
\* committed (its own commits may take the hold away, or go past it).
PinnedStopStays ==
    [][Automatic /\ pinned # ""
       => row'.follower = row.follower /\ igStop' = igStop]_vars

\* Between two moves the recorded broker level is the order resting at IG,
\* whatever IG refused (_ratchet_stop, set_stop_manually).
RecordedIsResting ==
    ~unsure /\ (\A x \in Movers : mover[x].pc = "idle") => row.stop = igStop

\* A follower the market stays beyond closes the position, a user's hold,
\* refused closes and refused pushes notwithstanding.
BackstopFires == ~<>[](open /\ Touched(bid, row.follower))

=============================================================================
