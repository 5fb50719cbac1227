--------------------------- MODULE SelectionProofs ---------------------------
(***************************************************************************)
(* Theorems about Selection: how many positions the selectors hold, what a *)
(* series consists of, and what a task may still do after the switch.      *)
(***************************************************************************)
EXTENDS Selection, FiniteSetTheorems, TLAPS

PcOf == {"idle", "selecting", "counted", "ranked", "trying", "waiting", "gated",
         "placed", "marking"}

JobRecord ==
    [pc : PcOf, epic : Epics \cup {NoEpic}, rest : SUBSET Epics, slots : Int,
     mine : SUBSET Epics, spend : Int, counted : BOOLEAN]

TypeInv ==
    /\ strategy \in Strategies /\ autoOpen \in BOOLEAN
    /\ open \in SUBSET Position /\ IsFiniteSet(open)
    /\ hidden \in SUBSET Position /\ IsFiniteSet(hidden)
    /\ \A p \in hidden : p.reason = "adopted"
    /\ owed \in [Reverters -> SUBSET Epics]
    /\ job \in [Tasks -> JobRecord]
    /\ late \in [Tasks -> Nat]
    /\ \A t \in Tasks : job[t].pc \in {"waiting", "gated", "placed"} => job[t].epic \in Epics
    /\ \A t \in Tasks : job[t].pc = "marking" => t \in Reverters /\ job[t].epic \in Epics

LEMMA IdleType == IdleJob \in JobRecord
BY SelectionAssumption DEF IdleJob, JobRecord, PcOf

LEMMA Finite ==
    /\ \A S \in SUBSET Epics : IsFiniteSet(S) /\ Cardinality(S) \in Nat
    /\ TypeInv => Cardinality(open) \in Nat /\ Available \in Int
<1>1. \A S \in SUBSET Epics : IsFiniteSet(S) /\ Cardinality(S) \in Nat
  BY SelectionAssumption, FS_Subset, FS_CardinalityType
<1>2. TypeInv => Cardinality(open) \in Nat /\ Cardinality(hidden) \in Nat
  BY <1>1, FS_CardinalityType DEF TypeInv
<1> QED
  BY <1>1, <1>2, SelectionAssumption DEF Available

LEMMA AfterType ==
    ASSUME TypeInv, NEW t \in Tasks, NEW opened \in BOOLEAN,
           job[t].pc \in {"waiting", "gated", "placed"}
    PROVE  /\ After(t, opened) \in JobRecord
           /\ t \in Selectors =>
                /\ After(t, opened).pc = "trying"
                /\ After(t, opened).rest = job[t].rest
                /\ After(t, opened).slots = job[t].slots
                /\ After(t, opened).mine = IF opened THEN job[t].mine \cup {job[t].epic}
                                           ELSE job[t].mine
                /\ After(t, opened).spend = IF opened /\ job[t].counted
                                            THEN job[t].spend - 1 ELSE job[t].spend
           /\ t \in Reverters /\ opened => After(t, opened) = [job[t] EXCEPT !.pc = "marking"]
           /\ t \notin Selectors /\ (t \notin Reverters \/ ~opened) =>
                After(t, opened) = IdleJob
<1>1. job[t] \in JobRecord /\ job[t].epic \in Epics
  BY DEF TypeInv
<1>2. CASE t \in Selectors
  <2>1. t \notin Reverters
    BY <1>2, SelectionAssumption
  <2>2. PICK mine \in SUBSET Epics : mine = IF opened THEN job[t].mine \cup {job[t].epic}
                                                     ELSE job[t].mine
    BY <1>1 DEF JobRecord
  <2>3. PICK spend \in Int : spend = IF opened /\ job[t].counted THEN job[t].spend - 1
                                    ELSE job[t].spend
    BY <1>1 DEF JobRecord
  <2>4. After(t, opened) =
           [job[t] EXCEPT !.pc = "trying", !.epic = NoEpic, !.counted = FALSE,
                          !.mine = mine, !.spend = spend]
    <3>1. After(t, opened) =
             [job[t] EXCEPT !.pc = "trying", !.epic = NoEpic, !.counted = FALSE,
                            !.mine = IF opened THEN @ \cup {job[t].epic} ELSE @,
                            !.spend = IF opened /\ job[t].counted THEN @ - 1 ELSE @]
      BY <1>2, <2>1 DEF After
    <3>2. job[t].mine \in SUBSET Epics /\ job[t].spend \in Int /\ job[t].counted \in BOOLEAN
      BY <1>1 DEF JobRecord
    <3>3. CASE opened /\ job[t].counted
      BY <1>1, <2>2, <2>3, <3>1, <3>3 DEF JobRecord
    <3>4. CASE opened /\ ~job[t].counted
      BY <1>1, <2>2, <2>3, <3>1, <3>4 DEF JobRecord
    <3>5. CASE ~opened
      BY <1>1, <2>2, <2>3, <3>1, <3>5 DEF JobRecord
    <3> QED
      BY <3>3, <3>4, <3>5
  <2>5. /\ After(t, opened) \in JobRecord
        /\ After(t, opened).pc = "trying"
        /\ After(t, opened).rest = job[t].rest
        /\ After(t, opened).slots = job[t].slots
        /\ After(t, opened).mine = mine /\ After(t, opened).spend = spend
    BY <1>1, <2>4 DEF JobRecord, PcOf
  <2> QED
    BY <1>2, <2>1, <2>2, <2>3, <2>5
<1>3. CASE t \in Reverters
  <2>1. t \notin Selectors
    BY <1>3, SelectionAssumption
  <2> QED
    BY <1>1, <1>3, <2>1, IdleType DEF After, JobRecord, PcOf
<1>4. CASE t \notin Selectors \cup Reverters
  BY <1>4, IdleType DEF After
<1> QED
  BY <1>2, <1>3, <1>4

\* A task that is back is past the order.
LEMMA AfterPc ==
    ASSUME TypeInv, NEW t \in Tasks, NEW opened \in BOOLEAN,
           job[t].pc \in {"waiting", "gated", "placed"}
    PROVE  /\ After(t, opened).pc \notin {"waiting", "gated", "placed"}
           /\ After(t, opened).pc = "marking" =>
                t \in Reverters /\ After(t, opened).epic \in Epics
<1>1. CASE t \in Selectors
  BY <1>1, AfterType
<1>2. CASE t \in Reverters /\ opened
  <2>1. After(t, opened) = [job[t] EXCEPT !.pc = "marking"]
    BY <1>2, AfterType
  <2>2. job[t] \in JobRecord /\ job[t].epic \in Epics
    BY DEF TypeInv
  <2> QED
    BY <1>2, <2>1, <2>2 DEF JobRecord
<1>3. CASE t \notin Selectors /\ (t \notin Reverters \/ ~opened)
  <2>1. After(t, opened) = IdleJob
    BY <1>3, AfterType
  <2> QED
    BY <2>1 DEF IdleJob
<1> QED
  BY <1>1, <1>2, <1>3

LEMMA TypeInit == Init => TypeInv
<1> SUFFICES ASSUME Init PROVE TypeInv
  OBVIOUS
<1>1. \A t \in Tasks : job[t] = IdleJob
  BY DEF Init
<1>2. job \in [Tasks -> JobRecord]
  BY IdleType DEF Init
<1>3. IsFiniteSet({})
  BY FS_EmptySet
<1> QED
  BY <1>1, <1>2, <1>3 DEF Init, TypeInv, IdleJob

\* A task that moves, the others staying where they are.
Moved(t) ==
    /\ job' \in [Tasks -> JobRecord]
    /\ \A u \in Tasks \ {t} : job'[u] = job[u]

LEMMA MovedType ==
    ASSUME TypeInv, NEW t \in Tasks, Moved(t),
           job'[t].pc \in {"waiting", "gated", "placed"} => job'[t].epic \in Epics,
           job'[t].pc = "marking" => t \in Reverters /\ job'[t].epic \in Epics
    PROVE  /\ \A u \in Tasks : job'[u].pc \in {"waiting", "gated", "placed"}
                               => job'[u].epic \in Epics
           /\ \A u \in Tasks : job'[u].pc = "marking"
                               => u \in Reverters /\ job'[u].epic \in Epics
BY DEF TypeInv, Moved

LEMMA FinishIs ==
    ASSUME TypeInv, NEW t \in Tasks, Finish(t)
    PROVE  Moved(t) /\ job'[t] = IdleJob
BY IdleType DEF Finish, TypeInv, Moved

LEMMA BackIs ==
    ASSUME TypeInv, NEW t \in Tasks, NEW opened \in BOOLEAN, Back(t, opened),
           job[t].pc \in {"waiting", "gated", "placed"}
    PROVE  Moved(t) /\ job'[t] = After(t, opened)
BY AfterType DEF Back, TypeInv, Moved

LEMMA SelectorType ==
    ASSUME TypeInv, NEW s \in Selectors
    PROVE  job \in [Tasks -> JobRecord] /\ s \in Tasks /\ job[s] \in JobRecord
BY DEF TypeInv, Tasks

\* What the steps of a selection do to the selector.
LEMMA BeginIs ==
    ASSUME TypeInv, NEW s \in Selectors, BeginSelect(s)
    PROVE  Moved(s) /\ job[s].pc = "idle" /\ job'[s].pc = "selecting"
BY SelectorType DEF BeginSelect, Moved, JobRecord, PcOf

LEMMA CountIs ==
    ASSUME TypeInv, NEW s \in Selectors, CountOpen(s)
    PROVE  /\ Moved(s) /\ ~SelectLocked
           /\ \/ job'[s] = IdleJob
              \/ /\ ~TargetMet
                 /\ job'[s].pc = "counted" /\ job'[s].mine = job[s].mine
                 /\ job'[s].slots = strategy.target - Cardinality(open)
<1>1. strategy.target - Cardinality(open) \in Int
  BY Finite, SelectionAssumption DEF TypeInv
<1>2. CASE TargetMet
  BY SelectorType, <1>2, FinishIs DEF CountOpen
<1>3. CASE ~TargetMet
  <2>1. PICK n \in Int : n = strategy.target - Cardinality(open)
    BY <1>1
  <2>2. job' = [job EXCEPT ![s].pc = "counted", ![s].slots = n]
    BY <1>3, <2>1 DEF CountOpen
  <2>3. Moved(s) /\ job'[s].pc = "counted" /\ job'[s].slots = n
        /\ job'[s].mine = job[s].mine
    BY SelectorType, <2>2 DEF Moved, JobRecord, PcOf
  <2> QED
    BY <1>3, <2>1, <2>3 DEF CountOpen
<1> QED
  BY <1>2, <1>3

LEMMA LeaveIs ==
    ASSUME TypeInv, NEW s \in Selectors, StandAside(s) \/ EndPass(s)
    PROVE  Moved(s) /\ job'[s] = IdleJob
BY SelectorType, FinishIs DEF StandAside, EndPass

LEMMA RankIs ==
    ASSUME TypeInv, NEW s \in Selectors, Rank(s)
    PROVE  /\ Moved(s) /\ job[s].pc = "counted" /\ job'[s].pc = "ranked"
           /\ job'[s].slots = job[s].slots /\ job'[s].mine = job[s].mine
<1>1. PICK R \in SUBSET Epics :
        job' = [job EXCEPT ![s].pc = "ranked", ![s].rest = R]
  BY DEF Rank, Candidates
<1> QED
  BY SelectorType, <1>1 DEF Rank, Moved, JobRecord, PcOf

FundsRead(s) ==
    \E known \in BOOLEAN : \E slots \in {Slots(job[s], known), 1} :
        /\ Slots(job[s], known) > 0
        /\ job'[s].pc = "trying" /\ job'[s].mine = job[s].mine
        /\ job'[s].epic = job[s].epic /\ job'[s].rest = job[s].rest
        /\ job'[s].slots = slots
        /\ job'[s].spend = IF known THEN Available ELSE Cardinality(Epics)

LEMMA FundsIs ==
    ASSUME TypeInv, NEW s \in Selectors, ReadFunds(s)
    PROVE  Moved(s) /\ job[s].pc = "ranked" /\ (job'[s] = IdleJob \/ FundsRead(s))
<1>1. CASE Finish(s)
  BY SelectorType, <1>1, FinishIs DEF ReadFunds
<1>2. CASE ~Finish(s)
  <2>1. PICK known \in BOOLEAN : \E slots \in {Slots(job[s], known), 1} :
          /\ ~(Slots(job[s], known) <= 0)
          /\ job' = [job EXCEPT ![s].pc = "trying", ![s].slots = slots,
                       ![s].spend = IF known THEN Available ELSE Cardinality(Epics)]
    BY <1>2 DEF ReadFunds
  <2>2. PICK funds \in Int : funds = IF known THEN Available ELSE Cardinality(Epics)
    BY Finite
  <2>3. PICK slots \in {Slots(job[s], known), 1} :
          job' = [job EXCEPT ![s].pc = "trying", ![s].slots = slots, ![s].spend = funds]
    BY <2>1, <2>2
  <2>4. Slots(job[s], known) \in Int
    BY SelectorType, Finite DEF Slots, Larger, JobRecord
  <2>5. slots \in Int /\ Slots(job[s], known) > 0
    BY <2>1, <2>3, <2>4
  <2>6. /\ Moved(s) /\ job'[s].pc = "trying" /\ job'[s].mine = job[s].mine
        /\ job'[s].epic = job[s].epic /\ job'[s].rest = job[s].rest
        /\ job'[s].slots = slots /\ job'[s].spend = funds
    <3>1. job'[s] = [job[s] EXCEPT !.pc = "trying", !.slots = slots, !.spend = funds]
          /\ \A u \in Tasks \ {s} : job'[u] = job[u]
      BY SelectorType, <2>3
    <3>2. DOMAIN job' = Tasks /\ job' = [u \in Tasks |-> job'[u]]
      BY SelectorType, <2>3
    <3>3. job'[s] \in JobRecord
      BY SelectorType, <2>5, <3>1 DEF JobRecord, PcOf
    <3>4. Moved(s)
      BY SelectorType, <3>1, <3>2, <3>3 DEF Moved
    <3> QED
      BY SelectorType, <3>1, <3>4 DEF JobRecord
  <2> QED
    BY <2>2, <2>3, <2>5, <2>6 DEF FundsRead, ReadFunds
<1> QED
  BY <1>1, <1>2

LEMMA TryIs ==
    ASSUME TypeInv, NEW s \in Selectors, NEW e \in Epics, Try(s, e)
    PROVE  /\ Moved(s) /\ Choosing(s, e) /\ autoOpen
           /\ job'[s].counted => job[s].spend >= 1
           /\ job'[s].pc = "waiting" /\ job'[s].epic = e
           /\ job'[s].rest = job[s].rest \ {e} /\ job'[s].mine = job[s].mine
           /\ job'[s].slots = job[s].slots /\ job'[s].spend = job[s].spend
<1>1. PICK R \in SUBSET Epics : R = job[s].rest \ {e}
  BY SelectorType DEF JobRecord
<1>2. PICK known \in BOOLEAN :
        /\ known => job[s].spend >= 1
        /\ job' = [job EXCEPT ![s].pc = "waiting", ![s].epic = e, ![s].rest = R,
                             ![s].counted = known]
  BY <1>1, SelectorType DEF Try, JobRecord
<1>3. /\ Moved(s) /\ job'[s].counted = known /\ job'[s].pc = "waiting" /\ job'[s].epic = e
      /\ job'[s].rest = R /\ job'[s].mine = job[s].mine
      /\ job'[s].slots = job[s].slots /\ job'[s].spend = job[s].spend
  BY SelectorType, <1>2 DEF Moved, JobRecord, PcOf
<1> QED
  BY <1>1, <1>2, <1>3 DEF Try

LEMMA SkipIs ==
    ASSUME TypeInv, NEW s \in Selectors, NEW e \in Epics, Skip(s, e)
    PROVE  /\ Moved(s) /\ job[s].pc = "trying" /\ job'[s].pc = "trying"
           /\ job'[s].epic = job[s].epic
           /\ job'[s].rest = job[s].rest \ {e} /\ job'[s].mine = job[s].mine
           /\ job'[s].slots = job[s].slots /\ job'[s].spend = job[s].spend
BY SelectorType DEF Skip, Choosing, Moved, JobRecord, PcOf

LEMMA SelectType ==
    ASSUME TypeInv, NEW s \in Selectors, SelectStep(s)
    PROVE  /\ TypeInv' /\ Moved(s)
           /\ UNCHANGED <<strategy, autoOpen, open, past, hidden, owed, late>>
<1>1. job[s] \in JobRecord /\ s \in Tasks /\ job[s].pc # "marking"
  BY SelectionAssumption DEF TypeInv, Tasks
<1>2. UNCHANGED <<strategy, autoOpen, open, past, hidden, owed, late>>
  BY DEF SelectStep, BeginSelect, CountOpen, StandAside, Rank, ReadFunds, EndPass, Try, Skip
<1>3. /\ Moved(s) /\ job'[s].pc # "marking"
      /\ job'[s].pc \in {"waiting", "gated", "placed"} => job'[s].epic \in Epics
  <2>1. CASE BeginSelect(s)
    BY <1>1, <2>1, BeginIs DEF JobRecord
  <2>2. CASE CountOpen(s)
    BY <1>1, <2>2, CountIs DEF JobRecord, IdleJob
  <2>3. CASE StandAside(s) \/ EndPass(s)
    BY <1>1, <2>3, LeaveIs DEF IdleJob
  <2>4. CASE Rank(s)
    BY <1>1, <2>4, RankIs DEF JobRecord
  <2>5. CASE ReadFunds(s)
    BY <1>1, <2>5, FundsIs DEF FundsRead, IdleJob
  <2>6. ASSUME NEW e \in Epics, Try(s, e)
        PROVE  <1>3
    BY <1>1, <2>6, TryIs DEF JobRecord
  <2>7. ASSUME NEW e \in Epics, Skip(s, e)
        PROVE  <1>3
    BY <1>1, <2>7, SkipIs DEF JobRecord, Skip, Choosing
  <2> QED
    BY <2>1, <2>2, <2>3, <2>4, <2>5, <2>6, <2>7 DEF SelectStep
<1> QED
  BY <1>1, <1>2, <1>3, MovedType DEF TypeInv, Moved

\* What the steps of open_epic_guarded do to its caller.
LEMMA OpenIs ==
    ASSUME TypeInv, NEW t \in Tasks
    PROVE  /\ TakeLock(t) =>
                /\ Moved(t) /\ UNCHANGED <<open, late>>
                /\ \/ ~OpenOn(job[t].epic) /\ job'[t] = [job[t] EXCEPT !.pc = "gated"]
                   \/ job'[t] = After(t, FALSE)
           /\ OrderRefused(t) \/ OrderLost(t) =>
                Moved(t) /\ job'[t] = After(t, FALSE) /\ open' = open
           /\ OrderRecorded(t) =>
                /\ Moved(t) /\ open' = open \cup {Row(t)}
                /\ job'[t] = [job[t] EXCEPT !.pc = "placed"]
           /\ OpenDone(t) =>
                Moved(t) /\ job'[t] = After(t, TRUE) /\ UNCHANGED <<open, late>>
           /\ OpenRejected(t) =>
                /\ Moved(t) /\ job'[t] = After(t, FALSE) /\ UNCHANGED late
                /\ Row(t) \in open /\ open' = open \ {Row(t)}
<1>1. job \in [Tasks -> JobRecord] /\ job[t] \in JobRecord
  BY DEF TypeInv
<1>2. ASSUME TakeLock(t)
      PROVE  /\ Moved(t) /\ UNCHANGED <<open, late>>
             /\ \/ ~OpenOn(job[t].epic) /\ job'[t] = [job[t] EXCEPT !.pc = "gated"]
                \/ job'[t] = After(t, FALSE)
  <2>1. CASE GateHolds(t)
    <3>1. job' = [job EXCEPT ![t].pc = "gated"] /\ UNCHANGED <<open, late>>
      BY <1>2, <2>1 DEF TakeLock
    <3>2. ~OpenOn(job[t].epic)
      BY <2>1 DEF GateHolds
    <3> QED
      BY <1>1, <3>1, <3>2 DEF Moved, JobRecord, PcOf
  <2>2. CASE ~GateHolds(t)
    BY <1>2, <2>2, BackIs DEF TakeLock
  <2> QED
    BY <2>1, <2>2
<1>3. ASSUME OrderRefused(t) \/ OrderLost(t)
      PROVE  Moved(t) /\ job'[t] = After(t, FALSE) /\ open' = open
  BY <1>3, BackIs DEF OrderRefused, OrderLost, Send
<1>4. ASSUME OrderRecorded(t)
      PROVE  /\ Moved(t) /\ open' = open \cup {Row(t)}
             /\ job'[t] = [job[t] EXCEPT !.pc = "placed"]
  BY <1>1, <1>4 DEF OrderRecorded, Moved, JobRecord, PcOf
<1>5. ASSUME OpenDone(t)
      PROVE  Moved(t) /\ job'[t] = After(t, TRUE) /\ UNCHANGED <<open, late>>
  BY <1>5, BackIs DEF OpenDone
<1>6. ASSUME OpenRejected(t)
      PROVE  /\ Moved(t) /\ job'[t] = After(t, FALSE) /\ UNCHANGED late
             /\ Row(t) \in open /\ open' = open \ {Row(t)}
  BY <1>6, BackIs DEF OpenRejected
<1> QED
  BY <1>2, <1>3, <1>4, <1>5, <1>6

LEMMA OpenType ==
    ASSUME TypeInv, NEW t \in Tasks, OpenStep(t)
    PROVE  /\ TypeInv' /\ Moved(t) /\ UNCHANGED <<strategy, autoOpen, past, owed>>
           /\ job[t].pc \in {"waiting", "gated", "placed"}
<1>1. job[t] \in JobRecord
  BY DEF TypeInv
<1>2. /\ UNCHANGED <<strategy, autoOpen, past, owed>>
      /\ job[t].pc \in {"waiting", "gated", "placed"}
  BY DEF OpenStep, TakeLock, OrderRefused, OrderLost, OrderRecorded, OpenDone, OpenRejected,
         Send
<1>3. job[t].epic \in Epics
  BY <1>2 DEF TypeInv
<1>4. /\ hidden' \in SUBSET Position /\ IsFiniteSet(hidden')
      /\ \A p \in hidden' : p.reason = "adopted"
      /\ late' \in [Tasks -> Nat]
  <2>1. /\ hidden' \in SUBSET Position /\ IsFiniteSet(hidden')
        /\ \A p \in hidden' : p.reason = "adopted"
    <3>1. RowFor(t, "adopted") \in Position /\ RowFor(t, "adopted").reason = "adopted"
      BY <1>1, <1>3 DEF RowFor, Position, JobRecord
    <3>2. hidden' = hidden \/ hidden' = hidden \cup {RowFor(t, "adopted")}
      BY DEF OpenStep, TakeLock, OrderRefused, OrderLost, OrderRecorded, OpenDone,
             OpenRejected
    <3> QED
      BY <3>1, <3>2, FS_AddElement DEF TypeInv
  <2>2. late' = late \/ late' = [late EXCEPT ![t] = @ + 1]
    BY DEF OpenStep, TakeLock, OrderRefused, OrderLost, OrderRecorded, OpenDone,
           OpenRejected, Send
  <2> QED
    BY <2>1, <2>2 DEF TypeInv
<1>5. Row(t) \in Position
  BY <1>1, <1>3 DEF Row, RowFor, Position, JobRecord
<1>6. open' \in SUBSET Position /\ IsFiniteSet(open')
  <2>1. \/ open' = open \/ open' = open \cup {Row(t)} \/ open' = open \ {Row(t)}
    BY OpenIs DEF OpenStep
  <2> QED
    BY <1>5, <2>1, FS_AddElement, FS_RemoveElement DEF TypeInv
<1>7. /\ Moved(t)
      /\ job'[t].pc \in {"waiting", "gated", "placed"} => job'[t].epic \in Epics
      /\ job'[t].pc = "marking" => t \in Reverters /\ job'[t].epic \in Epics
  <2>1. Moved(t) /\ \/ job'[t] = After(t, FALSE) \/ job'[t] = After(t, TRUE)
                    \/ job'[t] = [job[t] EXCEPT !.pc = "gated"]
                    \/ job'[t] = [job[t] EXCEPT !.pc = "placed"]
    BY OpenIs DEF OpenStep
  <2>2. ASSUME NEW opened \in BOOLEAN, job'[t] = After(t, opened)
        PROVE  /\ job'[t].pc \notin {"waiting", "gated", "placed"}
               /\ job'[t].pc = "marking" => t \in Reverters /\ job'[t].epic \in Epics
    BY <1>2, <2>2, AfterPc
  <2> QED
    BY <1>1, <1>3, <2>1, <2>2 DEF JobRecord
<1> QED
  BY <1>2, <1>4, <1>6, <1>7, MovedType DEF TypeInv, Moved

LEMMA BeginRevertIs ==
    ASSUME TypeInv, NEW r \in Reverters, NEW e \in owed[r], BeginRevert(r, e)
    PROVE  /\ Moved(r) /\ e \in Epics /\ autoOpen
           /\ job'[r].pc = "waiting" /\ job'[r].epic = e
<1>1. r \in Tasks /\ job \in [Tasks -> JobRecord] /\ job[r] \in JobRecord /\ e \in Epics
  BY DEF TypeInv, Tasks
<1>2. job' = [job EXCEPT ![r].pc = "waiting", ![r].epic = e]
  BY DEF BeginRevert
<1>3. Moved(r) /\ job'[r].pc = "waiting" /\ job'[r].epic = e
  BY <1>1, <1>2 DEF Moved, JobRecord, PcOf
<1> QED
  BY <1>1, <1>3 DEF BeginRevert

\* Marking stamps the reverter's own row and leaves the others alone.
MarkOf(r, p) == IF p = Row(r) THEN [p EXCEPT !.reason = "recovery_revert"] ELSE p

LEMMA MarkIs ==
    ASSUME TypeInv, NEW r \in Reverters, Mark(r)
    PROVE  /\ Moved(r) /\ job[r].pc = "marking" /\ job'[r] = IdleJob
           /\ open' = {MarkOf(r, p) : p \in open}
           /\ open' \in SUBSET Position /\ IsFiniteSet(open')
           /\ \A p \in open : /\ MarkOf(r, p).by = p.by
                              /\ p.by # r => MarkOf(r, p) = p
<1>1. r \in Tasks
  BY DEF Tasks
<1>2. open' = {MarkOf(r, p) : p \in open}
  BY DEF Mark, MarkOf
<1>3. \A p \in open : MarkOf(r, p) \in Position
  BY DEF TypeInv, MarkOf, Position
<1>4. IsFiniteSet(open')
  <2>1. PICK f : f = [p \in open |-> MarkOf(r, p)]
    OBVIOUS
  <2>2. f \in Surjection(open, open')
    BY <1>2, <2>1 DEF Surjection
  <2> QED
    BY <2>2, FS_Surjection DEF TypeInv
<1>5. \A p \in open : MarkOf(r, p).by = p.by /\ (p.by # r => MarkOf(r, p) = p)
  BY DEF TypeInv, MarkOf, Position, Row, RowFor
<1> QED
  BY <1>1, <1>2, <1>3, <1>4, <1>5, FinishIs DEF Mark

LEMMA RevertType ==
    ASSUME TypeInv, NEW r \in Reverters, RevertStep(r)
    PROVE  TypeInv' /\ Moved(r) /\ UNCHANGED <<strategy, autoOpen, late>>
<1>1. r \in Tasks
  BY DEF Tasks
<1>2. ASSUME NEW e \in owed[r], BeginRevert(r, e)
      PROVE  TypeInv' /\ Moved(r) /\ UNCHANGED <<strategy, autoOpen, late>>
  <2>1. Moved(r) /\ job'[r].pc = "waiting" /\ job'[r].epic \in Epics
    BY <1>2, BeginRevertIs
  <2>2. UNCHANGED <<strategy, autoOpen, open, past, hidden, late>>
        /\ owed' \in [Reverters -> SUBSET Epics]
    BY <1>2 DEF BeginRevert, Considered, TypeInv
  <2> QED
    BY <1>1, <2>1, <2>2, MovedType DEF TypeInv, Moved
<1>3. ASSUME NEW e \in owed[r], DropRevert(r, e)
      PROVE  TypeInv' /\ Moved(r) /\ UNCHANGED <<strategy, autoOpen, late>>
  BY <1>3 DEF DropRevert, Considered, TypeInv, Moved
<1>4. CASE Mark(r)
  <2>1. Moved(r) /\ job'[r].pc = "idle" /\ open' \in SUBSET Position /\ IsFiniteSet(open')
    BY <1>4, MarkIs DEF IdleJob
  <2>2. UNCHANGED <<strategy, autoOpen, past, hidden, owed, late>>
    BY <1>4 DEF Mark
  <2> QED
    BY <1>1, <2>1, <2>2, MovedType DEF TypeInv, Moved
<1> QED
  BY <1>2, <1>3, <1>4 DEF RevertStep

LEMMA UserIs ==
    ASSUME TypeInv, NEW u \in Users, NEW e \in Epics, UserOpen(u, e)
    PROVE  /\ Moved(u) /\ job'[u].pc = "waiting" /\ job'[u].epic = e
           /\ u \in Tasks /\ job[u].pc = "idle"
<1>1. u \in Tasks /\ job \in [Tasks -> JobRecord] /\ job[u] \in JobRecord
  BY DEF TypeInv, Tasks
<1>2. job[u].pc = "idle" /\ job' = [job EXCEPT ![u].pc = "waiting", ![u].epic = e]
  BY DEF UserOpen
<1> QED
  BY <1>1, <1>2 DEF Moved, JobRecord, PcOf

\* A step of the world, but for the buttons.
Aside ==
    \/ \E p \in open, r \in Reverters : Closed(r, p)
    \/ \E p \in hidden : Adopt(p) \/ HiddenEnds(p)
    \/ SwitchOff \/ SwitchOn

LEMMA AsideType == TypeInv /\ Aside => TypeInv' /\ UNCHANGED <<strategy, job>>
<1> SUFFICES ASSUME TypeInv, Aside PROVE TypeInv' /\ UNCHANGED <<strategy, job>>
  OBVIOUS
<1>1. ASSUME NEW p \in open, NEW r \in Reverters, Closed(r, p)
      PROVE  TypeInv' /\ UNCHANGED <<strategy, job>>
  <2>1. open' = open \ {p} /\ UNCHANGED <<strategy, autoOpen, hidden, job, late>>
    BY <1>1 DEF Closed
  <2>2. open' \in SUBSET Position /\ IsFiniteSet(open')
    BY <2>1, FS_RemoveElement DEF TypeInv
  <2>3. owed' \in [Reverters -> SUBSET Epics]
    <3>1. p.epic \in Epics
      BY DEF TypeInv, Position
    <3> QED
      BY <1>1, <3>1 DEF Closed, TypeInv
  <2> QED
    BY <2>1, <2>2, <2>3 DEF TypeInv
<1>2. ASSUME NEW p \in hidden, Adopt(p) \/ HiddenEnds(p)
      PROVE  TypeInv' /\ UNCHANGED <<strategy, job>>
  <2>1. hidden' = hidden \ {p} /\ (open' = open \/ open' = open \cup {p})
        /\ UNCHANGED <<strategy, autoOpen, owed, job, late>>
    BY <1>2 DEF Adopt, HiddenEnds
  <2>2. /\ open' \in SUBSET Position /\ IsFiniteSet(open')
        /\ hidden' \in SUBSET Position /\ IsFiniteSet(hidden')
        /\ \A q \in hidden' : q.reason = "adopted"
    BY <2>1, FS_AddElement, FS_RemoveElement DEF TypeInv
  <2> QED
    BY <2>1, <2>2 DEF TypeInv
<1>3. CASE SwitchOff \/ SwitchOn
  <2>1. UNCHANGED <<strategy, open, hidden, owed, job>> /\ autoOpen' \in BOOLEAN
    BY <1>3 DEF SwitchOff, SwitchOn
  <2>2. late' \in [Tasks -> Nat]
    BY <1>3 DEF SwitchOff, SwitchOn, TypeInv
  <2> QED
    BY <2>1, <2>2 DEF TypeInv
<1> QED
  BY <1>1, <1>2, <1>3 DEF Aside

LEMMA UserType ==
    ASSUME TypeInv, NEW u \in Users, NEW e \in Epics, UserOpen(u, e)
    PROVE  TypeInv' /\ UNCHANGED <<strategy, autoOpen, open, past, hidden, owed, late>>
<1>1. UNCHANGED <<strategy, autoOpen, open, past, hidden, owed, late>>
  BY DEF UserOpen
<1> QED
  BY <1>1, UserIs, MovedType DEF TypeInv, Moved

\* How Next splits in the proofs below.
LEMMA NextIs ==
    [Next]_vars =>
        \/ \E s \in Selectors : SelectStep(s)
        \/ \E r \in Reverters : RevertStep(r)
        \/ \E t \in Tasks : OpenStep(t)
        \/ \E u \in Users, e \in Epics : UserOpen(u, e)
        \/ Aside
        \/ UNCHANGED vars
BY DEF Next, WorldStep, Aside

LEMMA TypeNext == TypeInv /\ [Next]_vars => TypeInv'
<1> SUFFICES ASSUME TypeInv, [Next]_vars PROVE TypeInv'
  OBVIOUS
<1>1. CASE UNCHANGED vars
  BY <1>1 DEF TypeInv, vars
<1> QED
  BY <1>1, NextIs, SelectType, RevertType, OpenType, UserType, AsideType

(***************************************************************************)
(* The switch: once it is off no automatic task gets to wait for a lock.   *)
(***************************************************************************)
LateInv ==
    /\ \A t \in Tasks : late[t] \in {0, 1}
    /\ autoOpen => \A t \in Tasks : late[t] = 0
    /\ \A t \in Users : late[t] = 0
    /\ \A t \in Tasks : late[t] = 1 => job[t].pc \notin {"waiting", "gated"}

LEMMA LateNext == TypeInv /\ LateInv /\ [Next]_vars => LateInv'
<1> SUFFICES ASSUME TypeInv, LateInv, [Next]_vars PROVE LateInv'
  OBVIOUS
<1>1. ASSUME NEW s \in Selectors, SelectStep(s) PROVE LateInv'
  <2>1. Moved(s) /\ UNCHANGED <<autoOpen, late>> /\ s \in Tasks
    BY <1>1, SelectType DEF Tasks
  <2>2. job'[s].pc \in {"waiting", "gated"} => autoOpen
    BY <1>1, BeginIs, CountIs, LeaveIs, RankIs, FundsIs, TryIs, SkipIs
       DEF SelectStep, IdleJob, FundsRead
  <2> QED
    BY <2>1, <2>2 DEF LateInv, Moved
<1>2. ASSUME NEW r \in Reverters, RevertStep(r) PROVE LateInv'
  <2>1. Moved(r) /\ UNCHANGED <<autoOpen, late>> /\ r \in Tasks
    BY <1>2, RevertType DEF Tasks
  <2>2. job'[r].pc \in {"waiting", "gated"} => autoOpen \/ job' = job
    BY <1>2, BeginRevertIs, MarkIs DEF RevertStep, DropRevert, IdleJob
  <2> QED
    BY <2>1, <2>2 DEF LateInv, Moved
<1>3. ASSUME NEW t \in Tasks, OpenStep(t) PROVE LateInv'
  <2>1. Moved(t) /\ UNCHANGED autoOpen /\ job[t].pc \in {"waiting", "gated", "placed"}
    BY <1>3, OpenType
  <2>2. CASE TakeLock(t) \/ OpenDone(t) \/ OpenRejected(t)
    <3>1. late' = late
      BY <2>2, OpenIs
    <3>2. job[t].pc = "waiting" \/ job'[t].pc \notin {"waiting", "gated"}
      BY <2>1, <2>2, OpenIs, AfterPc DEF OpenDone, OpenRejected, TakeLock
    <3> QED
      BY <2>1, <3>1, <3>2 DEF LateInv, Moved
  <2>3. CASE OrderRefused(t) \/ OrderLost(t) \/ OrderRecorded(t)
    <3>1. Send(t)
      BY <2>3 DEF OrderRefused, OrderLost, OrderRecorded
    <3>2. job[t].pc = "gated" /\ late[t] = 0
      BY <3>1 DEF Send, LateInv
    <3>3. job'[t].pc \notin {"waiting", "gated"}
      <4>1. job'[t] = After(t, FALSE) \/ job'[t] = [job[t] EXCEPT !.pc = "placed"]
        BY <2>3, OpenIs
      <4> QED
        BY <2>1, <4>1, AfterPc DEF TypeInv, JobRecord
    <3>4. /\ \A u \in Tasks \ {t} : late'[u] = late[u]
          /\ late'[t] \in {0, 1}
          /\ late'[t] = 1 => ~autoOpen /\ t \notin Users
      BY <3>1, <3>2 DEF Send, TypeInv
    <3> QED
      BY <2>1, <3>3, <3>4 DEF LateInv, Moved, Tasks
  <2> QED
    BY <1>3, <2>2, <2>3 DEF OpenStep
<1>4. ASSUME NEW u \in Users, NEW e \in Epics, UserOpen(u, e) PROVE LateInv'
  <2>1. Moved(u) /\ UNCHANGED <<autoOpen, late>>
    BY <1>4, UserIs, UserType
  <2> QED
    BY <2>1 DEF LateInv, Moved
<1>5. CASE Aside
  <2>1. job' = job
    BY <1>5, AsideType
  <2>2. \/ autoOpen' = autoOpen /\ late' = late
        \/ ~autoOpen' /\ late' = late
        \/ late' = [t \in Tasks |-> 0]
    BY <1>5 DEF Aside, Closed, Adopt, HiddenEnds, SwitchOff, SwitchOn
  <2> QED
    BY <2>1, <2>2 DEF LateInv, Tasks
<1>6. CASE UNCHANGED vars
  BY <1>6 DEF LateInv, vars
<1> QED
  BY <1>1, <1>2, <1>3, <1>4, <1>5, <1>6, NextIs

(***************************************************************************)
(* The selections: one at a time is past the lock, and it alone opens as a *)
(* selector.                                                               *)
(***************************************************************************)
Past(s) == job[s].pc \notin {"idle", "selecting"}

LockInv == \A s1, s2 \in Selectors : Past(s1) /\ Past(s2) => s1 = s2

\* What the selectors hold; their rows are never stamped.
RolledInv == \A p \in Rolled : p.reason = "own"

\* A pass starts with nothing opened.
FreshInv ==
    \A s \in Selectors :
        job[s].pc \in {"idle", "selecting", "counted", "ranked"} => job[s].mine = {}

\* What the selectors hold was opened by this pass.
Series(s) ==
    \A p \in Rolled : p.epic \in job[s].mine \/ (job[s].pc = "placed" /\ p = Row(s))

SeriesInv == strategy.flat => \A s \in Selectors : Past(s) => Series(s)

\* The positions a pass may still open, the one it is opening, and what of the
\* balance that one will take.
Due(s) == job[s].slots - Cardinality(job[s].mine)
Placed(s) == IF job[s].pc = "placed" THEN 1 ELSE 0
Taken(s) == IF job[s].pc = "placed" /\ job[s].counted THEN 1 ELSE 0

Room(s) == Cardinality(Rolled) + job[s].slots =< strategy.target

Fits(s) ==
    \/ Cardinality(Rolled) + Due(s) - Placed(s) =< strategy.target
    \/ strategy.wallet /\ Cardinality(Counted) + job[s].spend - Taken(s) =< Funds

Ready(s) ==
    /\ Due(s) >= 1 /\ (job[s].counted => job[s].spend >= 1)
    /\ job[s].epic \notin job[s].mine \cup job[s].rest

Apart(s) == job[s].rest \cap job[s].mine = {}

\* A pass that counts leaves room in the target; one that goes by the wallet in
\* what the account covers.
RoomInv ==
    \A s \in Selectors :
        /\ job[s].pc \in {"counted", "ranked"} => Room(s)
        /\ job[s].pc \in {"trying", "waiting", "gated", "placed"} => Fits(s)
        /\ job[s].pc \in {"waiting", "gated", "placed"} => Ready(s)
        /\ Apart(s)

SelectInv == LockInv /\ RolledInv /\ FreshInv /\ SeriesInv /\ RoomInv /\ RolledWithinLimit

LEMMA RolledSize ==
    TypeInv => /\ IsFiniteSet(Rolled) /\ Cardinality(Rolled) \in Nat
               /\ Cardinality(Rolled) =< Cardinality(open)
               /\ IsFiniteSet(Counted) /\ Cardinality(Counted) \in Nat
               /\ Cardinality(Counted) =< Cardinality(Rolled)
<1>1. TypeInv => /\ IsFiniteSet(Rolled) /\ Cardinality(Rolled) \in Nat
                 /\ Cardinality(Rolled) =< Cardinality(open)
  BY FS_Subset, FS_CardinalityType DEF TypeInv, Rolled
<1>2. Counted \subseteq Rolled
  BY DEF Counted
<1> QED
  BY <1>1, <1>2, FS_Subset, FS_CardinalityType

LEMMA RolledShrinks ==
    ASSUME TypeInv, Rolled' \subseteq Rolled
    PROVE  /\ Cardinality(Rolled') \in Nat /\ Cardinality(Rolled') =< Cardinality(Rolled)
           /\ Cardinality(Counted') \in Nat
           /\ Cardinality(Counted') =< Cardinality(Counted)
<1>1. Counted' \subseteq Counted
  BY DEF Counted
<1> QED
  BY <1>1, RolledSize, FS_Subset, FS_CardinalityType

LEMMA StrategyType ==
    TypeInv => /\ strategy.target \in Nat /\ strategy.target >= 1 /\ strategy.wallet \in BOOLEAN
               /\ strategy.flat \in BOOLEAN /\ Funds \in Nat
BY SelectionAssumption DEF TypeInv

LEMMA SizesOf ==
    ASSUME TypeInv, NEW s \in Selectors
    PROVE  /\ s \in Tasks /\ job[s] \in JobRecord
           /\ Cardinality(job[s].mine) \in Nat /\ Due(s) \in Int /\ Placed(s) \in {0, 1}
           /\ Taken(s) \in {0, 1} /\ Taken(s) =< Placed(s)
           /\ job[s].slots \in Int /\ job[s].spend \in Int
BY Finite, SelectorType DEF JobRecord, Due, Placed, Taken

\* Whatever is no step of a selector takes rows from it at most.
LEMMA SelectQuiet ==
    ASSUME TypeInv, SelectInv, strategy' = strategy, Rolled' \subseteq Rolled,
           \A s \in Selectors : job'[s] = job[s]
    PROVE  SelectInv'
<1>1. /\ Cardinality(Rolled') \in Nat /\ Cardinality(Rolled') =< Cardinality(Rolled)
      /\ Cardinality(Rolled) \in Nat
      /\ Cardinality(Counted') \in Nat /\ Cardinality(Counted') =< Cardinality(Counted)
      /\ Cardinality(Counted) \in Nat
  BY RolledShrinks, RolledSize
<1>2. LockInv' /\ RolledInv' /\ FreshInv'
  BY DEF SelectInv, LockInv, RolledInv, FreshInv, Past
<1>3. SeriesInv'
  BY DEF SelectInv, SeriesInv, Series, Past, Row, RowFor
<1>4. RoomInv'
  <2> SUFFICES ASSUME NEW s \in Selectors
               PROVE  /\ Room(s) => Room(s)'
                      /\ Fits(s) => Fits(s)'
                      /\ Ready(s) => Ready(s)'
                      /\ Apart(s) => Apart(s)'
    BY DEF SelectInv, RoomInv
  <2>1. Due(s)' = Due(s) /\ Placed(s)' = Placed(s) /\ Taken(s)' = Taken(s)
    BY DEF Due, Placed, Taken
  <2>2. Fits(s) => Fits(s)'
    BY <1>1, <2>1, SizesOf, StrategyType DEF Fits
  <2>3. Room(s) => Room(s)'
    BY <1>1, SizesOf, StrategyType DEF Room
  <2>4. (Ready(s) => Ready(s)') /\ (Apart(s) => Apart(s)')
    BY <2>1 DEF Ready, Apart
  <2> QED
    BY <2>2, <2>3, <2>4
<1>5. RolledWithinLimit'
  BY <1>1, StrategyType DEF SelectInv, RolledWithinLimit, Larger
<1> QED
  BY <1>2, <1>3, <1>4, <1>5 DEF SelectInv

Alone(s) == \A u \in Selectors \ {s} : ~Past(u)

\* A step of one selector, by what it has to establish.
LEMMA SelectorMoves ==
    ASSUME TypeInv, SelectInv, NEW s \in Selectors, Moved(s), strategy' = strategy,
           Past(s)' => Alone(s),
           Past(s) \/ Rolled' = Rolled,
           RolledInv', RolledWithinLimit',
           job'[s].pc \in {"idle", "selecting", "counted", "ranked"} => job'[s].mine = {},
           strategy.flat /\ Past(s)' => Series(s)',
           job'[s].pc \in {"counted", "ranked"} => Room(s)',
           job'[s].pc \in {"trying", "waiting", "gated", "placed"} => Fits(s)',
           job'[s].pc \in {"waiting", "gated", "placed"} => Ready(s)',
           Apart(s)'
    PROVE  SelectInv'
<1>1. \A u \in Selectors \ {s} : job'[u] = job[u]
  BY DEF Moved, Tasks
<1>2. \A u \in Selectors \ {s} : Past(u)' <=> Past(u)
  BY <1>1 DEF Past
<1>3. LockInv'
  BY <1>2 DEF SelectInv, LockInv, Alone
<1>4. FreshInv'
  BY <1>1 DEF SelectInv, FreshInv
<1>5. \A u \in Selectors \ {s} : Past(u) => Rolled' = Rolled
  BY DEF SelectInv, LockInv
<1>6. SeriesInv'
  <2> SUFFICES ASSUME strategy.flat, NEW u \in Selectors \ {s}, Past(u)
               PROVE  Series(u)'
    BY <1>2 DEF SeriesInv
  <2>1. Series(u)
    BY DEF SelectInv, SeriesInv
  <2> QED
    BY <1>1, <1>5, <2>1 DEF Series, Row, RowFor
<1>7. RoomInv'
  <2> SUFFICES ASSUME NEW u \in Selectors \ {s}
               PROVE  /\ job[u].pc \in {"counted", "ranked"} => Room(u)'
                      /\ job[u].pc \in {"trying", "waiting", "gated", "placed"} => Fits(u)'
                      /\ job[u].pc \in {"waiting", "gated", "placed"} => Ready(u)'
                      /\ Apart(u)'
    BY <1>1 DEF RoomInv
  <2>1. Due(u)' = Due(u) /\ Placed(u)' = Placed(u) /\ Taken(u)' = Taken(u)
    BY <1>1 DEF Due, Placed, Taken
  <2>2. Past(u) => (Fits(u) => Fits(u)') /\ (Room(u) => Room(u)')
    BY <1>1, <1>5, <2>1 DEF Fits, Room, Counted
  <2>3. (Ready(u) => Ready(u)') /\ (Apart(u) => Apart(u)')
    BY <1>1, <2>1 DEF Ready, Apart
  <2> QED
    BY <2>2, <2>3 DEF SelectInv, RoomInv, Past
<1> QED
  BY <1>3, <1>4, <1>6, <1>7 DEF SelectInv

\* A selector that ends its pass, or does not begin it.
LEMMA SelectorRests ==
    ASSUME TypeInv, SelectInv, NEW s \in Selectors, Moved(s), strategy' = strategy,
           open' = open, job'[s].pc \in {"idle", "selecting"}, job'[s].mine = {}
    PROVE  SelectInv'
<1>1. Rolled' = Rolled
  BY DEF Rolled
<1>2. ~Past(s)' /\ Apart(s)'
  BY DEF Past, Apart
<1>3. RolledWithinLimit' /\ RolledInv'
  BY <1>1 DEF SelectInv, RolledWithinLimit, RolledInv, Counted
<1> QED
  BY <1>1, <1>2, <1>3, SelectorMoves

LEMMA SelectStepKeeps ==
    ASSUME TypeInv, SelectInv, NEW s \in Selectors, SelectStep(s)
    PROVE  SelectInv'
<1>1. Moved(s) /\ strategy' = strategy /\ open' = open
  BY SelectType
<1>2. Rolled' = Rolled
  BY <1>1 DEF Rolled
<1>3. RolledWithinLimit' /\ RolledInv' /\ Counted' = Counted
  BY <1>1, <1>2 DEF SelectInv, RolledWithinLimit, RolledInv, Counted
<1>4. Past(s) => Alone(s)
  BY DEF SelectInv, LockInv, Alone
<1>5. IdleJob.pc = "idle" /\ IdleJob.mine = {}
  BY DEF IdleJob
<1>6. Apart(s)
  BY DEF SelectInv, RoomInv
<1>7. Cardinality({}) = 0
  BY FS_EmptySet
<1>8. CASE job'[s] = IdleJob
  BY <1>1, <1>5, <1>8, SelectorRests
<1>9. CASE BeginSelect(s)
  <2>1. job'[s].pc = "selecting" /\ job'[s].mine = {}
    <3>1. job[s].pc = "idle" /\ job' = [job EXCEPT ![s].pc = "selecting"]
      BY <1>9 DEF BeginSelect
    <3>2. job'[s].pc = "selecting" /\ job'[s].mine = job[s].mine
      BY <3>1, SelectorType DEF JobRecord
    <3> QED
      BY <3>1, <3>2 DEF SelectInv, FreshInv
  <2> QED
    BY <1>1, <2>1, SelectorRests
<1>10. CASE CountOpen(s) /\ job'[s] # IdleJob
  <2>1. /\ ~SelectLocked /\ ~TargetMet /\ job'[s].pc = "counted"
        /\ job'[s].mine = job[s].mine /\ job'[s].slots = strategy.target - Cardinality(open)
    BY <1>10, CountIs
  <2>2. Alone(s)
    BY <2>1 DEF SelectLocked, Past, Alone
  <2>3. job'[s].mine = {}
    BY <1>10, <2>1 DEF CountOpen, SelectInv, FreshInv
  <2>4. strategy.flat => Rolled' = {}
    BY <1>2, <2>1 DEF TargetMet, Rolled
  <2>5. strategy.flat => Series(s)'
    BY <2>4 DEF Series
  <2>6. Room(s)'
    BY <1>1, <1>2, <2>1, RolledSize, Finite, StrategyType DEF Room
  <2>7. Apart(s)' /\ job'[s].pc = "counted"
    BY <2>1, <2>3 DEF Apart
  <2> QED
    BY <1>1, <1>2, <1>3, <2>2, <2>3, <2>5, <2>6, <2>7, SelectorMoves
<1>11. CASE Rank(s)
  <2>1. /\ job[s].pc = "counted" /\ job'[s].pc = "ranked"
        /\ job'[s].slots = job[s].slots /\ job'[s].mine = job[s].mine
    BY <1>11, RankIs
  <2>2. Past(s) /\ job'[s].mine = {}
    BY <2>1 DEF Past, SelectInv, FreshInv
  <2>3. strategy.flat => Series(s)'
    BY <1>2, <2>1, <2>2 DEF SelectInv, SeriesInv, Series
  <2>4. Room(s)'
    BY <1>1, <1>2, <2>1 DEF SelectInv, RoomInv, Room
  <2>5. Apart(s)' /\ job'[s].pc = "ranked"
    BY <2>1, <2>2 DEF Apart
  <2> QED
    BY <1>1, <1>2, <1>3, <1>4, <2>2, <2>3, <2>4, <2>5, SelectorMoves
<1>12. CASE ReadFunds(s) /\ job'[s] # IdleJob
  <2>1. job[s].pc = "ranked" /\ FundsRead(s)
    BY <1>12, FundsIs
  <2>2. PICK known \in BOOLEAN : \E slots \in {Slots(job[s], known), 1} :
          /\ Slots(job[s], known) > 0
          /\ job'[s].pc = "trying" /\ job'[s].mine = job[s].mine
          /\ job'[s].epic = job[s].epic /\ job'[s].rest = job[s].rest
          /\ job'[s].slots = slots
          /\ job'[s].spend = IF known THEN Available ELSE Cardinality(Epics)
    BY <2>1 DEF FundsRead
  <2>3. Past(s) /\ job'[s].mine = {}
    BY <2>1, <2>2 DEF Past, SelectInv, FreshInv
  <2>4. strategy.flat => Series(s)'
    BY <1>2, <2>1, <2>2, <2>3 DEF SelectInv, SeriesInv, Series
  <2>5. Cardinality(Rolled) + job[s].slots =< strategy.target
    BY <2>1 DEF SelectInv, RoomInv, Room
  <2>6. /\ Due(s)' = job'[s].slots /\ Placed(s)' = 0 /\ Taken(s)' = 0
        /\ job'[s].slots \in Int
    <3>1. job'[s].slots \in Int
      BY <1>1, SelectorType DEF Moved, JobRecord
    <3> QED
      BY <1>7, <2>2, <2>3, <3>1 DEF Due, Placed, Taken
  <2>7. Fits(s)'
    <3>1. CASE strategy.wallet /\ known
      <4>1. job'[s].spend = Funds - Cardinality(open) - Cardinality(hidden)
        BY <2>2, <3>1 DEF Available
      <4>2. Cardinality(hidden) \in Nat /\ Cardinality(open) \in Nat
        BY FS_CardinalityType DEF TypeInv
      <4> QED
        BY <1>1, <1>2, <1>3, <2>6, <3>1, <4>1, <4>2, RolledSize, StrategyType DEF Fits
    <3>2. CASE ~(strategy.wallet /\ known)
      <4>1. job'[s].slots =< job[s].slots
        BY <2>2, <3>2, SizesOf DEF Slots, Larger
      <4> QED
        BY <1>1, <1>2, <2>5, <2>6, <4>1, RolledSize, StrategyType, SizesOf DEF Fits
    <3> QED
      BY <3>1, <3>2
  <2>8. Apart(s)' /\ job'[s].pc = "trying"
    BY <2>2, <2>3 DEF Apart
  <2> QED
    BY <1>1, <1>2, <1>3, <1>4, <2>3, <2>4, <2>7, <2>8, SelectorMoves
<1>13. ASSUME NEW e \in Epics, Try(s, e)
       PROVE  SelectInv'
  <2>1. /\ Choosing(s, e) /\ (job'[s].counted => job[s].spend >= 1)
        /\ job'[s].pc = "waiting" /\ job'[s].epic = e
        /\ job'[s].rest = job[s].rest \ {e} /\ job'[s].mine = job[s].mine
        /\ job'[s].slots = job[s].slots /\ job'[s].spend = job[s].spend
    BY <1>13, TryIs
  <2>2. job[s].pc = "trying" /\ e \in job[s].rest /\ Cardinality(job[s].mine) < job[s].slots
    BY <2>1 DEF Choosing
  <2>3. Past(s)
    BY <2>2 DEF Past
  <2>4. strategy.flat => Series(s)'
    <3>1. strategy.flat => Series(s)
      BY <2>3 DEF SelectInv, SeriesInv
    <3>2. job[s].pc # "placed" /\ job'[s].mine = job[s].mine
      BY <2>1, <2>2
    <3> QED
      BY <1>2, <3>1, <3>2 DEF Series
  <2>5. /\ Due(s)' = Due(s) /\ Due(s) >= 1 /\ Placed(s)' = 0 /\ Placed(s) = 0
        /\ Taken(s)' = 0 /\ Taken(s) = 0
    BY <2>1, <2>2, SizesOf DEF Due, Placed, Taken
  <2>6. Fits(s)'
    BY <1>1, <1>2, <1>3, <2>1, <2>2, <2>5 DEF Fits, SelectInv, RoomInv
  <2>7. Ready(s)' /\ Apart(s)'
    BY <1>6, <2>1, <2>2, <2>5 DEF Ready, Apart
  <2>8. job'[s].pc = "waiting"
    BY <2>1
  <2> QED
    BY <1>1, <1>2, <1>3, <1>4, <2>3, <2>4, <2>6, <2>7, <2>8, SelectorMoves
<1>14. ASSUME NEW e \in Epics, Skip(s, e)
       PROVE  SelectInv'
  <2>1. /\ job[s].pc = "trying" /\ job'[s].pc = "trying"
        /\ job'[s].rest = job[s].rest \ {e} /\ job'[s].mine = job[s].mine
        /\ job'[s].slots = job[s].slots /\ job'[s].spend = job[s].spend
    BY <1>14, SkipIs
  <2>2. Past(s) /\ job'[s].pc = "trying"
    BY <2>1 DEF Past
  <2>3. strategy.flat => Series(s)'
    <3>1. strategy.flat => Series(s)
      BY <2>2 DEF SelectInv, SeriesInv
    <3>2. job[s].pc # "placed" /\ job'[s].mine = job[s].mine
      BY <2>1
    <3> QED
      BY <1>2, <3>1, <3>2 DEF Series
  <2>4. Due(s)' = Due(s) /\ Placed(s)' = Placed(s) /\ Taken(s)' = Taken(s)
    BY <2>1 DEF Due, Placed, Taken
  <2>5. Fits(s)'
    BY <1>1, <1>2, <1>3, <2>1, <2>4 DEF Fits, SelectInv, RoomInv
  <2>6. Apart(s)'
    BY <1>6, <2>1 DEF Apart
  <2> QED
    BY <1>1, <1>2, <1>3, <1>4, <2>2, <2>3, <2>5, <2>6, SelectorMoves
<1>15. StandAside(s) \/ EndPass(s) => job'[s] = IdleJob
  BY LeaveIs
<1> QED
  BY <1>8, <1>9, <1>10, <1>11, <1>12, <1>13, <1>14, <1>15 DEF SelectStep

LEMMA RowOfSelector ==
    ASSUME NEW s \in Selectors
    PROVE  Row(s) = [epic |-> job[s].epic, by |-> s, reason |-> "own",
                     counted |-> job[s].counted]
BY DEF Row, RowFor

\* The way back from an open: what it leaves to establish is its room.
LEMMA SelectorReturns ==
    ASSUME TypeInv, SelectInv, NEW s \in Selectors, NEW opened \in BOOLEAN,
           Moved(s), strategy' = strategy, job'[s] = After(s, opened),
           job[s].pc \in {"waiting", "gated", "placed"},
           opened => job[s].pc = "placed",
           Rolled' \subseteq Rolled,
           ~opened /\ job[s].pc = "placed" =>
               Row(s) \in Rolled /\ Rolled' = Rolled \ {Row(s)}
    PROVE  SelectInv'
<1>1. /\ job'[s].pc = "trying" /\ job'[s].rest = job[s].rest
      /\ job'[s].slots = job[s].slots
      /\ job'[s].mine = IF opened THEN job[s].mine \cup {job[s].epic} ELSE job[s].mine
      /\ job'[s].spend = IF opened /\ job[s].counted THEN job[s].spend - 1
                         ELSE job[s].spend
  BY AfterType, SelectorType
<1>2. Past(s) /\ Alone(s)
  BY DEF Past, SelectInv, LockInv, Alone
<1>3. Ready(s) /\ Fits(s) /\ Apart(s)
  BY DEF SelectInv, RoomInv
<1>4. /\ Cardinality(Rolled') \in Nat /\ Cardinality(Rolled') =< Cardinality(Rolled)
      /\ Cardinality(Rolled) \in Nat
      /\ Cardinality(Counted') \in Nat /\ Cardinality(Counted') =< Cardinality(Counted)
      /\ Cardinality(Counted) \in Nat
  BY RolledShrinks, RolledSize
<1>5. RolledInv' /\ RolledWithinLimit'
  <2>1. RolledInv'
    BY DEF SelectInv, RolledInv
  <2>2. RolledWithinLimit'
    BY <1>4, StrategyType DEF SelectInv, RolledWithinLimit, Larger
  <2> QED
    BY <2>1, <2>2
<1>6. Apart(s)'
  BY <1>1, <1>3 DEF Apart, Ready
<1>7. strategy.flat => Series(s)'
  <2> SUFFICES ASSUME strategy.flat, NEW p \in Rolled' PROVE p.epic \in job'[s].mine
    BY DEF Series
  <2>1. p.epic \in job[s].mine \/ (job[s].pc = "placed" /\ p = Row(s))
    BY <1>2 DEF SelectInv, SeriesInv, Series
  <2> QED
    BY <1>1, <2>1, RowOfSelector
<1>8. Fits(s)'
  <2>1. Placed(s)' = 0 /\ Taken(s)' = 0
    BY <1>1 DEF Placed, Taken
  <2>2. CASE opened
    <3>1. Placed(s) = 1 /\ Taken(s) = IF job[s].counted THEN 1 ELSE 0
      BY <2>2 DEF Placed, Taken
    <3>2. Cardinality(job'[s].mine) = Cardinality(job[s].mine) + 1
      <4>1. job[s].epic \notin job[s].mine
        BY <1>3 DEF Ready
      <4>2. IsFiniteSet(job[s].mine)
        BY SelectorType, Finite DEF JobRecord
      <4> QED
        BY <1>1, <2>2, <4>1, <4>2, FS_AddElement
    <3>3. Due(s)' = Due(s) - 1 /\ job'[s].spend - Taken(s)' = job[s].spend - Taken(s)
      BY <1>1, <2>1, <2>2, <3>1, <3>2, SizesOf DEF Due
    <3> QED
      BY <1>3, <1>4, <2>1, <3>1, <3>3, SizesOf, StrategyType DEF Fits
  <2>3. CASE ~opened
    <3>1. Due(s)' = Due(s) /\ job'[s].spend = job[s].spend
      BY <1>1, <2>3 DEF Due
    <3>2. /\ Cardinality(Rolled') =< Cardinality(Rolled) - Placed(s)
          /\ Cardinality(Counted') =< Cardinality(Counted) - Taken(s)
      <4>1. CASE job[s].pc = "placed"
        <5>1. Cardinality(Rolled') = Cardinality(Rolled) - 1
          BY <2>3, <4>1, RolledSize, FS_RemoveElement
        <5>2. CASE job[s].counted
          <6>1. Row(s) \in Counted /\ Counted' = Counted \ {Row(s)}
            BY <2>3, <4>1, <5>2, RowOfSelector DEF Counted
          <6>2. Cardinality(Counted') = Cardinality(Counted) - 1
            BY <6>1, RolledSize, FS_RemoveElement
          <6> QED
            BY <1>4, <4>1, <5>1, <5>2, <6>2 DEF Placed, Taken
        <5>3. CASE ~job[s].counted
          BY <1>4, <4>1, <5>1, <5>3 DEF Placed, Taken
        <5> QED
          BY <5>2, <5>3
      <4>2. CASE job[s].pc # "placed"
        BY <1>4, <4>2 DEF Placed, Taken
      <4> QED
        BY <4>1, <4>2
    <3> QED
      BY <1>3, <1>4, <2>1, <3>1, <3>2, SizesOf, StrategyType DEF Fits
  <2> QED
    BY <2>2, <2>3
<1>9. job'[s].pc = "trying"
  BY <1>1
<1> QED
  BY <1>2, <1>5, <1>6, <1>7, <1>8, <1>9, SelectorMoves

LEMMA SelectorOpens ==
    ASSUME TypeInv, SelectInv, NEW s \in Selectors, OpenStep(s)
    PROVE  SelectInv'
<1>1. /\ s \in Tasks /\ job[s] \in JobRecord /\ Moved(s) /\ strategy' = strategy
      /\ job[s].pc \in {"waiting", "gated", "placed"}
  BY SelectorType, OpenType
<1>2. Past(s) /\ Alone(s)
  BY <1>1 DEF Past, SelectInv, LockInv, Alone
<1>3. Ready(s) /\ Fits(s) /\ Apart(s)
  BY <1>1 DEF SelectInv, RoomInv
<1>4. CASE job'[s] = After(s, FALSE) /\ open' = open /\ job[s].pc # "placed"
  BY <1>1, <1>4, SelectorReturns DEF Rolled
<1>5. CASE TakeLock(s) /\ job'[s] # After(s, FALSE)
  <2>1. open' = open /\ job'[s] = [job[s] EXCEPT !.pc = "gated"]
    BY <1>1, <1>5, OpenIs
  <2>2. /\ job'[s].pc = "gated" /\ job'[s].epic = job[s].epic /\ job'[s].rest = job[s].rest
        /\ job'[s].mine = job[s].mine /\ job'[s].slots = job[s].slots
        /\ job'[s].spend = job[s].spend /\ job'[s].counted = job[s].counted
    BY <1>1, <2>1 DEF JobRecord
  <2>3. job[s].pc = "waiting"
    BY <1>5 DEF TakeLock
  <2>4. Rolled' = Rolled
    BY <2>1 DEF Rolled
  <2>5. RolledInv' /\ RolledWithinLimit' /\ Counted' = Counted
    BY <1>1, <2>4 DEF SelectInv, RolledWithinLimit, RolledInv, Counted
  <2>6. strategy.flat => Series(s)'
    <3>1. strategy.flat => Series(s)
      BY <1>2 DEF SelectInv, SeriesInv
    <3> QED
      BY <2>2, <2>3, <2>4, <3>1 DEF Series, Row, RowFor
  <2>7. /\ Due(s)' = Due(s) /\ Placed(s)' = 0 /\ Placed(s) = 0
        /\ Taken(s)' = 0 /\ Taken(s) = 0
    BY <2>2, <2>3 DEF Due, Placed, Taken
  <2>8. Fits(s)' /\ Ready(s)' /\ Apart(s)'
    BY <1>1, <1>3, <2>2, <2>4, <2>5, <2>7 DEF Fits, Ready, Apart
  <2>9. job'[s].pc = "gated"
    BY <2>2
  <2> QED
    BY <1>1, <1>2, <2>5, <2>6, <2>8, <2>9, SelectorMoves
<1>6. CASE OrderRecorded(s)
  <2>1. open' = open \cup {Row(s)} /\ job'[s] = [job[s] EXCEPT !.pc = "placed"]
    BY <1>1, <1>6, OpenIs
  <2>2. /\ job'[s].pc = "placed" /\ job'[s].epic = job[s].epic /\ job'[s].rest = job[s].rest
        /\ job'[s].mine = job[s].mine /\ job'[s].slots = job[s].slots
        /\ job'[s].spend = job[s].spend /\ job'[s].counted = job[s].counted
    BY <1>1, <2>1 DEF JobRecord
  <2>3. job[s].pc = "gated"
    BY <1>6 DEF OrderRecorded, Send
  <2>4. Rolled' = Rolled \cup {Row(s)} /\ Row(s).reason = "own"
    BY <2>1, RowOfSelector DEF Rolled
  <2>5. Cardinality(Rolled') \in Nat /\ Cardinality(Rolled') =< Cardinality(Rolled) + 1
        /\ Cardinality(Rolled) \in Nat
    <3>1. Cardinality(Rolled \cup {Row(s)}) =
            IF Row(s) \in Rolled THEN Cardinality(Rolled) ELSE Cardinality(Rolled) + 1
      BY RolledSize, FS_AddElement
    <3> QED
      BY <2>4, <3>1, RolledSize
  <2>6. RolledInv'
    BY <2>4 DEF SelectInv, RolledInv
  <2>7. /\ Placed(s) = 0 /\ Placed(s)' = 1 /\ Due(s)' = Due(s)
        /\ Taken(s) = 0 /\ Taken(s)' = IF job[s].counted THEN 1 ELSE 0
    BY <2>2, <2>3 DEF Placed, Due, Taken
  <2>8. Cardinality(Counted') \in Nat /\ Cardinality(Counted) \in Nat
        /\ Cardinality(Counted') =< Cardinality(Counted) + Taken(s)'
    <3>1. CASE job[s].counted
      <4>1. Counted' = Counted \cup {Row(s)}
        BY <2>4, <3>1, RowOfSelector DEF Counted
      <4>2. Cardinality(Counted \cup {Row(s)}) =
              IF Row(s) \in Counted THEN Cardinality(Counted) ELSE Cardinality(Counted) + 1
        BY RolledSize, FS_AddElement
      <4> QED
        BY <2>7, <3>1, <4>1, <4>2, RolledSize
    <3>2. CASE ~job[s].counted
      <4>1. Counted' = Counted
        BY <2>4, <3>2, RowOfSelector DEF Counted
      <4> QED
        BY <2>7, <3>2, <4>1, RolledSize
    <3> QED
      BY <3>1, <3>2
  <2>9. Fits(s)' /\ RolledWithinLimit'
    <3>1. Fits(s)'
      BY <1>1, <1>3, <2>2, <2>5, <2>7, <2>8, SizesOf, StrategyType DEF Fits
    <3>2. Due(s) >= 1 /\ (job[s].counted => job[s].spend >= 1)
      BY <1>3 DEF Ready
    <3>3. \/ Cardinality(Rolled') =< strategy.target
          \/ /\ strategy.wallet
             /\ Cardinality(Counted') =< Funds \/ Cardinality(Counted') =< Cardinality(Counted)
      BY <1>3, <2>5, <2>7, <2>8, <3>2, SizesOf, StrategyType DEF Fits
    <3>4. Cardinality(Counted') =< Cardinality(Rolled')
      <4>1. Counted' \subseteq Rolled' /\ IsFiniteSet(Rolled')
        BY <2>4, RolledSize, FS_AddElement DEF Counted
      <4> QED
        BY <4>1, FS_Subset
    <3> QED
      BY <1>1, <2>5, <2>8, <3>1, <3>3, <3>4, StrategyType
         DEF RolledWithinLimit, SelectInv, Larger
  <2>10. Ready(s)' /\ Apart(s)'
    BY <1>3, <2>2, <2>7 DEF Ready, Apart
  <2>11. strategy.flat => Series(s)'
    <3>1. strategy.flat => Series(s)
      BY <1>2 DEF SelectInv, SeriesInv
    <3> QED
      BY <2>2, <2>3, <2>4, <3>1 DEF Series, Row, RowFor
  <2>12. job'[s].pc = "placed"
    BY <2>2
  <2> QED
    BY <1>1, <1>2, <2>6, <2>9, <2>10, <2>11, <2>12, SelectorMoves
<1>7. CASE OpenDone(s)
  <2>1. job'[s] = After(s, TRUE) /\ open' = open
    BY <1>1, <1>7, OpenIs
  <2>2. job[s].pc = "placed"
    BY <1>7 DEF OpenDone
  <2> QED
    BY <1>1, <2>1, <2>2, SelectorReturns DEF Rolled
<1>8. CASE OpenRejected(s)
  <2>1. job'[s] = After(s, FALSE) /\ Row(s) \in open /\ open' = open \ {Row(s)}
    BY <1>1, <1>8, OpenIs
  <2>2. Row(s) \in Rolled /\ Rolled' = Rolled \ {Row(s)}
    BY <2>1, RowOfSelector DEF Rolled
  <2> QED
    BY <1>1, <2>1, <2>2, SelectorReturns
<1>9. CASE \/ TakeLock(s) /\ job'[s] = After(s, FALSE)
           \/ OrderRefused(s) \/ OrderLost(s)
  <2>1. job'[s] = After(s, FALSE) /\ open' = open
    BY <1>1, <1>9, OpenIs
  <2>2. job[s].pc # "placed"
    BY <1>9 DEF TakeLock, OrderRefused, OrderLost, Send
  <2> QED
    BY <1>4, <2>1, <2>2
<1> QED
  BY <1>5, <1>6, <1>7, <1>8, <1>9 DEF OpenStep

LEMMA SelectInit == Init => SelectInv
<1> SUFFICES ASSUME Init PROVE SelectInv
  OBVIOUS
<1>1. /\ \A t \in Tasks : job[t] = IdleJob
      /\ Rolled = {} /\ strategy \in Strategies
  BY DEF Init, Rolled
<1>2. \A s \in Selectors : /\ job[s].pc = "idle" /\ job[s].mine = {}
  BY <1>1 DEF Tasks, IdleJob
<1>3. RolledWithinLimit
  <2>1. /\ Cardinality(Rolled) = 0 /\ Cardinality(Counted) = 0
        /\ strategy.target \in Nat
    BY <1>1, FS_EmptySet, SelectionAssumption DEF Counted
  <2> QED
    BY <2>1, SelectionAssumption DEF RolledWithinLimit, Larger
<1> QED
  BY <1>1, <1>2, <1>3
     DEF SelectInv, LockInv, RolledInv, FreshInv, SeriesInv, RoomInv, Past, Apart

LEMMA SelectNext == TypeInv /\ SelectInv /\ [Next]_vars => SelectInv'
<1> SUFFICES ASSUME TypeInv, SelectInv, [Next]_vars PROVE SelectInv'
  OBVIOUS
<1>1. ASSUME NEW s \in Selectors, SelectStep(s) PROVE SelectInv'
  BY <1>1, SelectStepKeeps
<1>2. ASSUME NEW t \in Tasks, OpenStep(t) PROVE SelectInv'
  <2>1. CASE t \in Selectors
    BY <1>2, <2>1, SelectorOpens
  <2>2. CASE t \notin Selectors
    <3>1. Moved(t) /\ strategy' = strategy
      BY <1>2, OpenType
    <3>2. open' = open \/ open' = open \cup {Row(t)} \/ open' = open \ {Row(t)}
      BY <1>2, OpenIs DEF OpenStep
    <3>3. Row(t).by \notin Selectors
      BY <2>2 DEF Row, RowFor
    <3>4. Rolled' \subseteq Rolled
      BY <3>2, <3>3 DEF Rolled
    <3>5. \A s \in Selectors : job'[s] = job[s]
      BY <2>2, <3>1 DEF Moved, Tasks
    <3> QED
      BY <3>1, <3>4, <3>5, SelectQuiet
  <2> QED
    BY <2>1, <2>2
<1>3. ASSUME NEW r \in Reverters, RevertStep(r) PROVE SelectInv'
  <2>1. Moved(r) /\ strategy' = strategy
    BY <1>3, RevertType
  <2>2. \A s \in Selectors : job'[s] = job[s]
    BY <2>1, SelectionAssumption DEF Moved, Tasks
  <2>3. Rolled' \subseteq Rolled
    <3>1. CASE Mark(r)
      BY <3>1, MarkIs, SelectionAssumption DEF Rolled
    <3>2. CASE ~Mark(r)
      BY <1>3, <3>2 DEF RevertStep, BeginRevert, DropRevert, Rolled
    <3> QED
      BY <3>1, <3>2
  <2> QED
    BY <2>1, <2>2, <2>3, SelectQuiet
<1>4. ASSUME NEW u \in Users, NEW e \in Epics, UserOpen(u, e) PROVE SelectInv'
  <2>1. Moved(u) /\ strategy' = strategy /\ open' = open
    BY <1>4, UserIs, UserType
  <2>2. \A s \in Selectors : job'[s] = job[s]
    BY <2>1, SelectionAssumption DEF Moved, Tasks
  <2> QED
    BY <2>1, <2>2, SelectQuiet DEF Rolled
<1>5. CASE Aside
  <2>1. job' = job /\ strategy' = strategy
    BY <1>5, AsideType
  <2>2. Rolled' \subseteq Rolled
    BY <1>5 DEF TypeInv, Aside, Closed, Adopt, HiddenEnds, SwitchOff, SwitchOn,
                 Rolled
  <2> QED
    BY <2>1, <2>2, SelectQuiet
<1>6. CASE UNCHANGED vars
  BY <1>6, SelectQuiet DEF vars, Rolled
<1> QED
  BY <1>1, <1>2, <1>3, <1>4, <1>5, <1>6, NextIs

LEMMA LateInit == Init => LateInv
BY SelectionAssumption DEF Init, LateInv, IdleJob, Tasks

-----------------------------------------------------------------------------
LEMMA TypeHolds == Spec => []TypeInv
BY TypeInit, TypeNext, PTL DEF Spec

LEMMA SelectHolds == Spec => []SelectInv
BY SelectInit, SelectNext, TypeHolds, PTL DEF Spec

\* However many passes of _select_and_open are started, and whatever the users'
\* buttons, the reverts, lost replies and the sync do meanwhile, the rows the
\* selectors wrote stay within the strategy's target; those of a wallet-bounded
\* strategy within what the account covers, as far as their margin is known.
THEOREM WithinLimit == Spec => []RolledWithinLimit
<1>1. SelectInv => RolledWithinLimit
  BY DEF SelectInv
<1> QED
  BY <1>1, SelectHolds, PTL

\* A strategy that opens in series (the flat-book brake of _select_and_open)
\* never tops up an earlier series: every selector's row was opened by the pass
\* under way.
THEOREM SeriesHolds == Spec => []SeriesIsWhole
<1>1. SelectInv => SeriesIsWhole
  <2>1. \A s \in Selectors : Row(s).epic = job[s].epic
    BY DEF Row, RowFor
  <2> QED
    BY <2>1 DEF SelectInv, SeriesInv, Series, Past, SeriesIsWhole
<1> QED
  BY <1>1, SelectHolds, PTL

\* Once set_auto_open has closed the day, a task sends at most the one order
\* open_epic_guarded had already been let through with.
THEOREM OneLate == Spec => []OneLateOrder
<1>1. LateInv => OneLateOrder
  BY DEF LateInv, OneLateOrder
<1>2. Spec => []LateInv
  BY LateInit, LateNext, TypeHolds, PTL DEF Spec
<1> QED
  BY <1>1, <1>2, PTL
=============================================================================
