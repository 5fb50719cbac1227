-------------------------- MODULE StopRatchetProofs --------------------------
(* Theorems about StopRatchet. *)
EXTENDS StopRatchet, SequenceTheorems, TLAPS

-----------------------------------------------------------------------------
(* The PUTs in the queue: at most one per task, so the queue is one of five
   sequences. *)

LEMMA Appended ==
    ASSUME NEW S, NEW q \in Seq(S), NEW x \in S, NEW p \in Seq(S),
           Len(p) = Len(q) + 1,
           \A i \in 1 .. Len(q) : p[i] = q[i],
           p[Len(q) + 1] = x
    PROVE  Append(q, x) = p
<1>1. \A i \in 1 .. Len(q) : Append(q, x)[i] = p[i]
  BY AppendProperties
<1>2. Append(q, x)[Len(q) + 1] = p[Len(q) + 1]
  BY AppendProperties
<1>3. Append(q, x) \in Seq(S) /\ Len(Append(q, x)) = Len(p)
  BY AppendProperties
<1>4. \A i \in 1 .. Len(p) : i \in 1 .. Len(q) \/ i = Len(q) + 1
  BY LenProperties
<1>5. \A i \in 1 .. Len(p) : Append(q, x)[i] = p[i]
  BY <1>1, <1>2, <1>4
<1> QED
  BY <1>3, <1>5, SeqEqual

LEMMA AppendedToOne ==
    ASSUME NEW S, NEW y \in S, NEW x \in S
    PROVE  Append(<<y>>, x) = <<y, x>>
<1>1. <<y>> \in Seq(S) /\ <<y, x>> \in Seq(S)
  OBVIOUS
<1>2. Len(<<y, x>>) = Len(<<y>>) + 1
  OBVIOUS
<1>3. \A i \in 1 .. Len(<<y>>) : <<y, x>>[i] = <<y>>[i]
  OBVIOUS
<1>4. <<y, x>>[Len(<<y>>) + 1] = x
  OBVIOUS
<1> QED
  BY <1>1, <1>2, <1>3, <1>4, Appended, Zenon

LEMMA Enqueued ==
    ASSUME NEW q \in PutQueues, NEW x \in Movers,
           \A i, j \in DOMAIN q : q[i] = q[j] => i = j,
           \A i \in DOMAIN q : q[i] # x
    PROVE  /\ Append(q, x) \in PutQueues
           /\ \A i, j \in DOMAIN Append(q, x) :
                 Append(q, x)[i] = Append(q, x)[j] => i = j
           /\ \A y \in Movers :
                 (\E i \in DOMAIN Append(q, x) : Append(q, x)[i] = y)
                 <=> y = x \/ \E i \in DOMAIN q : q[i] = y
<1>1. CASE q = <<>>
  <2>1. Append(q, x) = <<x>>
    BY <1>1
  <2> QED
    BY <2>1, <1>1 DEF PutQueues
<1>2. ASSUME NEW y \in Movers, q = <<y>>
      PROVE  /\ Append(q, x) \in PutQueues
             /\ \A i, j \in DOMAIN Append(q, x) :
                   Append(q, x)[i] = Append(q, x)[j] => i = j
             /\ \A z \in Movers :
                   (\E i \in DOMAIN Append(q, x) : Append(q, x)[i] = z)
                   <=> z = x \/ \E i \in DOMAIN q : q[i] = z
  <2>1. Append(q, x) = <<y, x>>
    BY <1>2, AppendedToOne
  <2>2. y # x
    BY <1>2
  <2> QED
    BY <2>1, <2>2, <1>2 DEF PutQueues
<1>3. ASSUME NEW y \in Movers, NEW z \in Movers, q = <<y, z>>
      PROVE  FALSE
  <2>1. y # z /\ y # x /\ z # x
    BY <1>3
  <2> QED
    BY <2>1, <1>3 DEF Movers
<1> QED
  BY <1>1, <1>2, <1>3 DEF PutQueues

LEMMA Dequeued ==
    ASSUME NEW q \in PutQueues, q # <<>>,
           \A i, j \in DOMAIN q : q[i] = q[j] => i = j
    PROVE  /\ Head(q) \in Movers
           /\ Tail(q) \in PutQueues
           /\ \A i, j \in DOMAIN Tail(q) : Tail(q)[i] = Tail(q)[j] => i = j
           /\ \A y \in Movers :
                 (\E i \in DOMAIN Tail(q) : Tail(q)[i] = y)
                 <=> y # Head(q) /\ \E i \in DOMAIN q : q[i] = y
<1>1. ASSUME NEW y \in Movers, q = <<y>>
      PROVE  Head(q) = y /\ Tail(q) = <<>>
  BY <1>1
<1>2. ASSUME NEW y \in Movers, NEW z \in Movers, q = <<y, z>>
      PROVE  Head(q) = y /\ Tail(q) = <<z>> /\ y # z
  BY <1>2
<1>3. ASSUME NEW y \in Movers, q = <<y>>
      PROVE  /\ Head(q) \in Movers
             /\ Tail(q) \in PutQueues
             /\ \A i, j \in DOMAIN Tail(q) : Tail(q)[i] = Tail(q)[j] => i = j
             /\ \A z \in Movers :
                   (\E i \in DOMAIN Tail(q) : Tail(q)[i] = z)
                   <=> z # Head(q) /\ \E i \in DOMAIN q : q[i] = z
  BY <1>1, <1>3 DEF PutQueues
<1>4. ASSUME NEW y \in Movers, NEW w \in Movers, q = <<y, w>>
      PROVE  /\ Head(q) \in Movers
             /\ Tail(q) \in PutQueues
             /\ \A i, j \in DOMAIN Tail(q) : Tail(q)[i] = Tail(q)[j] => i = j
             /\ \A z \in Movers :
                   (\E i \in DOMAIN Tail(q) : Tail(q)[i] = z)
                   <=> z # Head(q) /\ \E i \in DOMAIN q : q[i] = z
  BY <1>2, <1>4 DEF PutQueues
<1> QED
  BY <1>3, <1>4 DEF PutQueues

-----------------------------------------------------------------------------
(* Type correctness *)

LEMMA Parameters ==
    /\ Entry \in Int /\ Spread \in Int /\ Cushion \in Int /\ Risk \in Int
    /\ MinDistance \in Int /\ IgDistance \in Int /\ Noise \in Int
<1>1. {Risk, Spread, Cushion, MinDistance, IgDistance, Noise} \subseteq Nat
  BY StopAssumption
<1>2. Entry \in Bids /\ Bids \subseteq Int
  BY StopAssumption
<1> QED
  BY <1>1, <1>2

LEMMA LevelsAreIntegers ==
    ASSUME TypeOK, NEW level \in Int, NEW price \in Int
    PROVE  /\ CloseOut(price) \in Int
           /\ BrokerLevel(level, price) \in Int
           /\ Zone(price) \in Zones
<1>1. /\ Spread \in Int /\ Cushion \in Int /\ minDistance \in Int
  <2>1. minDistance \in {0, MinDistance}
    BY DEF TypeOK
  <2> QED
    BY <2>1, Parameters
<1>2. CloseOut(price) \in Int
  BY <1>1 DEF CloseOut
<1>3. BrokerLevel(level, price) \in Int
  BY <1>1 DEF BrokerLevel, Away
<1>4. Zone(price) \in Zones
  BY DEF Zone, Zones
<1> QED
  BY <1>2, <1>3, <1>4

LEMMA TargetIsInteger ==
    ASSUME TypeOK, NEW x \in Movers, NEW level \in Int
    PROVE  BrokerTarget(mover[x], level) \in Int
<1>1. mover[x].bid \in Int /\ mover[x].stop \in Int
  BY DEF TypeOK, MoverType
<1>2. CloseOut(mover[x].bid) \in Int
  BY <1>1, LevelsAreIntegers
<1>3. BrokerLevel(level, CloseOut(mover[x].bid)) \in Int
  BY <1>2, LevelsAreIntegers
<1> QED
  BY <1>1, <1>3 DEF BrokerTarget

\* What a step changes of one task, when it stays within the type.
LEMMA MoverSet ==
    ASSUME TypeOK, NEW x \in Movers, NEW me \in MoverType,
           mover' = [mover EXCEPT ![x] = me]
    PROVE  mover' \in [Movers -> MoverType]
BY DEF TypeOK

LEMMA IdleType == IdleMover \in MoverType
BY DEF IdleMover, MoverType

\* A step that leaves the queue alone, and no task awaiting an answer begins or
\* ends to.
LEMMA QueueFrame ==
    ASSUME TypeOK, UNCHANGED puts,
           \A x \in Movers : mover'[x].pc = "put" <=> mover[x].pc = "put"
    PROVE  (puts \in PutQueues /\ OneCallEach)'
<1>1. puts' \in PutQueues
  BY DEF TypeOK
<1>2. OneCallEach'
  BY DEF TypeOK, OneCallEach
<1> QED
  BY <1>1, <1>2

LEMMA InitType == Init => TypeOK
<1> SUFFICES ASSUME Init
             PROVE  TypeOK
  OBVIOUS
<1>1. /\ Entry \in Int /\ Spread \in Int /\ Cushion \in Int /\ Risk \in Int
  BY Parameters
<1>2. /\ row \in [follower : Int, loose : Int, stop : Int,
                   zone : Zones \cup {""}]
      /\ row.stop \in Int
  <2>1. /\ Away(CloseOut(Entry), Risk) \in Int
        /\ Away(CloseOut(Entry), Risk + Spread + Cushion) \in Int
    BY <1>1 DEF Away, CloseOut
  <2>2. ASSUME NEW a \in Int, NEW b \in Int,
               row = [follower |-> a, loose |-> a, stop |-> b, zone |-> ""]
        PROVE  /\ row \in [follower : Int, loose : Int, stop : Int,
                            zone : Zones \cup {""}]
               /\ row.stop \in Int
    BY <2>2
  <2>3. \/ row = [follower |-> Away(CloseOut(Entry), Risk),
                   loose |-> Away(CloseOut(Entry), Risk),
                   stop |-> Away(CloseOut(Entry), Risk + Spread + Cushion),
                   zone |-> ""]
        \/ \E level \in {0, Away(CloseOut(Entry), Risk)} :
              row = [follower |-> level, loose |-> level, stop |-> level,
                     zone |-> ""]
    BY Zenon DEF Init
  <2>4. 0 \in Int
    OBVIOUS
  <2> QED
    BY <2>1, <2>2, <2>3, <2>4
<1>3. igStop \in Int
  BY <1>2 DEF Init
<1>4. mover \in [Movers -> MoverType]
  BY IdleType DEF Init
<1>5. puts \in PutQueues /\ OneCallEach
  <2>1. puts = <<>>
    BY DEF Init
  <2>2. \A x \in Movers : mover[x].pc # "put"
    BY DEF Init, IdleMover
  <2>3. DOMAIN puts = {}
    BY <2>1
  <2> QED
    BY <2>1, <2>2, <2>3 DEF PutQueues, OneCallEach
<1> QED
  BY <1>2, <1>3, <1>4, <1>5, StopAssumption DEF Init, TypeOK

RowType == [follower : Int, loose : Int, stop : Int, zone : Zones \cup {""}]

\* The steps that end a pass or a refused close: no PUT is concerned.
LEMMA DoneType ==
    ASSUME TypeOK, NEW x \in Movers, Done(x), mover[x].pc # "put",
           UNCHANGED puts
    PROVE  /\ mover' \in [Movers -> MoverType]
           /\ (puts \in PutQueues /\ OneCallEach)'
<1>1. mover' \in [Movers -> MoverType]
  BY IdleType, MoverSet DEF Done
<1>2. \A y \in Movers : mover'[y].pc = "put" <=> mover[y].pc = "put"
  BY DEF Done, IdleMover, TypeOK
<1> QED
  BY <1>1, <1>2, QueueFrame

LEMMA RowSet ==
    ASSUME TypeOK, NEW level \in Int, NEW target \in Int,
           NEW zone \in Zones \cup {""}
    PROVE  /\ row \in RowType
           /\ [row EXCEPT !.follower = level] \in RowType
           /\ [row EXCEPT !.zone = zone] \in RowType
           /\ [row EXCEPT !.follower = level, !.stop = target] \in RowType
BY DEF TypeOK, RowType

LEMMA CommittedType ==
    ASSUME TypeOK, NEW x \in Movers
    PROVE  /\ Committed(mover[x]) \in RowType
           /\ [Committed(mover[x]) EXCEPT !.zone = mover[x].zone] \in RowType
<1>1. /\ mover[x].level \in Int /\ mover[x].target \in Int
      /\ mover[x].zone \in Zones \cup {""}
  BY DEF TypeOK, MoverType
<1>2. Committed(mover[x]) \in RowType
  BY <1>1 DEF Committed, TypeOK, RowType
<1> QED
  BY <1>1, <1>2 DEF RowType

\* A task that puts its call into the queue.
LEMMA EnqueueType ==
    ASSUME TypeOK, NEW x \in Movers, NEW me \in MoverType, me.pc = "put",
           mover[x].pc # "put",
           mover' = [mover EXCEPT ![x] = me], puts' = Append(puts, x)
    PROVE  /\ mover' \in [Movers -> MoverType]
           /\ (puts \in PutQueues /\ OneCallEach)'
<1>1. mover' \in [Movers -> MoverType]
  BY MoverSet
<1>2. /\ puts \in PutQueues
      /\ \A i, j \in DOMAIN puts : puts[i] = puts[j] => i = j
      /\ \A y \in Movers :
            mover[y].pc = "put" <=> \E i \in DOMAIN puts : puts[i] = y
  BY DEF TypeOK, OneCallEach
<1>3. \A i \in DOMAIN puts : puts[i] # x
  BY <1>2
<1>4. \A y \in Movers :
         mover'[y].pc = "put" <=> y = x \/ mover[y].pc = "put"
  BY DEF TypeOK
<1>5. /\ puts' \in PutQueues
      /\ \A i, j \in DOMAIN puts' : puts'[i] = puts'[j] => i = j
      /\ \A y \in Movers :
            (\E i \in DOMAIN puts' : puts'[i] = y)
            <=> y = x \/ \E i \in DOMAIN puts : puts[i] = y
  BY <1>2, <1>3, Enqueued
<1>6. OneCallEach'
  BY <1>2, <1>4, <1>5 DEF OneCallEach
<1> QED
  BY <1>1, <1>5, <1>6

\* A call that is answered.
LEMMA AnswerType ==
    ASSUME TypeOK, NEW x \in Movers,
           NEW answer \in {"accepted", "refused", "lost"}, AnswerPut(x, answer)
    PROVE  /\ mover' \in [Movers -> MoverType]
           /\ (puts \in PutQueues /\ OneCallEach)'
<1>1. [mover[x] EXCEPT !.pc = answer] \in MoverType
  BY DEF TypeOK, MoverType
<1>2. mover' = [mover EXCEPT ![x] = [mover[x] EXCEPT !.pc = answer]]
  BY DEF AnswerPut
<1>3. mover' \in [Movers -> MoverType]
  BY <1>1, <1>2, MoverSet
<1>4. /\ puts \in PutQueues /\ puts # <<>>
      /\ \A i, j \in DOMAIN puts : puts[i] = puts[j] => i = j
      /\ \A y \in Movers :
            mover[y].pc = "put" <=> \E i \in DOMAIN puts : puts[i] = y
  BY DEF TypeOK, OneCallEach, AnswerPut
<1>5. /\ puts' \in PutQueues
      /\ \A i, j \in DOMAIN puts' : puts'[i] = puts'[j] => i = j
      /\ \A y \in Movers :
            (\E i \in DOMAIN puts' : puts'[i] = y)
            <=> y # x /\ \E i \in DOMAIN puts : puts[i] = y
  BY <1>4, Dequeued DEF AnswerPut
<1>6. \A y \in Movers :
         mover'[y].pc = "put" <=> y # x /\ mover[y].pc = "put"
  BY <1>2 DEF TypeOK, MoverType
<1>7. OneCallEach'
  BY <1>4, <1>5, <1>6 DEF OneCallEach
<1> QED
  BY <1>3, <1>5, <1>7

\* overtaken is a truth value after every step.
LEMMA OvertakenType ==
    ASSUME TypeOK, [Next]_vars
    PROVE  overtaken' \in BOOLEAN
<1>1. overtaken \in BOOLEAN
  BY DEF TypeOK
<1>2. ASSUME NEW x \in Movers, Done(x)
      PROVE  overtaken' \in BOOLEAN
  BY <1>2 DEF Done
<1>3. ASSUME NEW x \in Movers, PutStep(x)
      PROVE  overtaken' \in BOOLEAN
  BY <1>2, <1>3 DEF PutStep, PutAccepted, PutRefused, PutLost, PutFails,
                    AnswerPut
<1>4. CASE BeginPass
  BY <1>4 DEF BeginPass, Answered
<1>5. CASE \/ Backstop \/ CloseHour \/ Unbuffered \/ KeepStop
           \/ CommitRatchet \/ CommitManual
           \/ \E level \in Proposals : RaiseFollower(level)
  <2>1. Done("monitor") \/ Done("user")
    BY <1>5 DEF Backstop, CloseHour, Unbuffered, KeepStop, CommitRatchet,
                CommitManual, RaiseFollower, Close
  <2> QED
    BY <2>1, <1>2 DEF Movers
<1>6. CASE \/ ReleaseHold \/ StopOut \/ (\E b \in Bids : Move(b))
           \/ UNCHANGED vars
           \/ \E level \in Proposals : RaiseStop(level) \/ PickStop(level)
  BY <1>1, <1>6 DEF ReleaseHold, StopOut, Move, RaiseStop, PickStop, vars
<1> QED
  BY <1>3, <1>4, <1>5, <1>6 DEF Next, PassStep

\* The variables no task computes with.
LEMMA TypeFrame ==
    ASSUME TypeOK, UNCHANGED fixed, bid' \in Bids, open' \in BOOLEAN,
           row' \in RowType, igStop' \in Int,
           mover' \in [Movers -> MoverType],
           (puts \in PutQueues /\ OneCallEach)',
           pinned' \in Zones \cup {""}, unsure' \in BOOLEAN,
           overtaken' \in BOOLEAN
    PROVE  TypeOK'
BY DEF TypeOK, fixed, RowType

LEMMA PassType ==
    ASSUME TypeOK,
           BeginPass \/ PassStep \/ CommitRatchet
    PROVE  TypeOK'
<1> USE DEF history
<1>0. /\ bid \in Bids /\ bid \in Int /\ open \in BOOLEAN /\ row \in RowType
      /\ igStop \in Int /\ mover \in [Movers -> MoverType]
      /\ puts \in PutQueues /\ OneCallEach
      /\ pinned \in Zones \cup {""} /\ unsure \in BOOLEAN
      /\ overtaken' \in BOOLEAN /\ "monitor" \in Movers
  BY StopAssumption, OvertakenType DEF TypeOK, RowType, Movers, Next
<1>1. CASE BeginPass
  <2> DEFINE me == [IdleMover EXCEPT !.pc = "loaded", !.bid = bid,
                       !.follower = row.follower, !.stop = row.stop,
                       !.zone = row.zone]
  <2>1. me \in MoverType
    BY <1>0, IdleType DEF MoverType, RowType
  <2>2. mover' = [mover EXCEPT !["monitor"] = me]
    BY <1>1 DEF BeginPass
  <2>3. mover["monitor"].pc = "idle" /\ me.pc = "loaded"
    BY <1>1 DEF BeginPass, IdleMover, Pass
  <2> HIDE DEF me
  <2>4. mover' \in [Movers -> MoverType]
    BY <1>0, <2>1, <2>2, MoverSet
  <2>5. \A x \in Movers : mover'[x].pc = "put" <=> mover[x].pc = "put"
    BY <1>0, <2>2, <2>3
  <2>6. (puts \in PutQueues /\ OneCallEach)'
    BY <1>1, <2>5, QueueFrame DEF BeginPass
  <2> QED
    BY <1>0, <1>1, <2>4, <2>6, TypeFrame DEF BeginPass
<1>2. CASE Backstop \/ CloseHour \/ Unbuffered \/ KeepStop
  <2>1. /\ Done("monitor") /\ mover["monitor"].pc # "put" /\ UNCHANGED puts
        /\ UNCHANGED <<fixed, bid, row, igStop, history>>
        /\ open' \in BOOLEAN
    BY <1>0, <1>2
    DEF Backstop, CloseHour, Unbuffered, KeepStop, Close, Managed, Pass
  <2>2. /\ mover' \in [Movers -> MoverType]
        /\ (puts \in PutQueues /\ OneCallEach)'
    BY <1>0, <2>1, DoneType
  <2> QED
    BY <1>0, <2>1, <2>2, TypeFrame
<1>3. CASE ReleaseHold
  <2>1. [mover["monitor"] EXCEPT !.zone = ""] \in MoverType
    BY <1>0 DEF MoverType
  <2>2. mover' = [mover EXCEPT !["monitor"] =
                     [mover["monitor"] EXCEPT !.zone = ""]]
    BY <1>3 DEF ReleaseHold
  <2>3. mover' \in [Movers -> MoverType]
    BY <1>0, <2>1, <2>2, MoverSet
  <2>4. \A x \in Movers : mover'[x].pc = "put" <=> mover[x].pc = "put"
    BY <1>0, <2>2 DEF MoverType
  <2>5. (puts \in PutQueues /\ OneCallEach)'
    BY <1>3, <2>4, QueueFrame DEF ReleaseHold
  <2>6. row' \in RowType
    BY <1>0, <1>3, RowSet DEF ReleaseHold
  <2> QED
    BY <1>0, <1>3, <2>3, <2>5, <2>6, TypeFrame DEF ReleaseHold
<1>4. ASSUME NEW level \in Proposals, RaiseFollower(level)
      PROVE  TypeOK'
  <2>1. level \in Int
    BY StopAssumption
  <2>2. /\ Done("monitor") /\ mover["monitor"].pc # "put" /\ UNCHANGED puts
        /\ UNCHANGED <<fixed, bid, open, igStop, history>>
        /\ row' = [row EXCEPT !.follower = level]
    BY <1>4 DEF RaiseFollower, Managed, Pass
  <2>3. /\ mover' \in [Movers -> MoverType]
        /\ (puts \in PutQueues /\ OneCallEach)'
    BY <1>0, <2>2, DoneType
  <2>4. row' \in RowType
    BY <1>0, <2>1, <2>2, RowSet
  <2> QED
    BY <1>0, <2>2, <2>3, <2>4, TypeFrame
<1>5. ASSUME NEW level \in Proposals, RaiseStop(level)
      PROVE  TypeOK'
  <2> DEFINE me == [mover["monitor"] EXCEPT !.pc = "put", !.level = level,
                       !.target = BrokerTarget(mover["monitor"], level)]
  <2>1. level \in Int
    BY StopAssumption
  <2>2. BrokerTarget(mover["monitor"], level) \in Int
    BY <1>0, <2>1, TargetIsInteger
  <2>3. me \in MoverType /\ me.pc = "put"
    BY <1>0, <2>1, <2>2 DEF MoverType
  <2>4. mover' = [mover EXCEPT !["monitor"] = me]
    BY <1>0, <1>5 DEF RaiseStop, Pass, MoverType
  <2>5. mover["monitor"].pc # "put" /\ puts' = Append(puts, "monitor")
    BY <1>5 DEF RaiseStop, Managed, Pass
  <2> HIDE DEF me
  <2>6. /\ mover' \in [Movers -> MoverType]
        /\ (puts \in PutQueues /\ OneCallEach)'
    BY <1>0, <2>3, <2>4, <2>5, EnqueueType
  <2> QED
    BY <1>0, <1>5, <2>6, TypeFrame DEF RaiseStop
<1>6. CASE CommitRatchet
  <2>1. /\ Done("monitor") /\ mover["monitor"].pc # "put" /\ UNCHANGED puts
        /\ UNCHANGED <<fixed, bid, open, igStop, history>>
        /\ row' = Committed(mover["monitor"])
    BY <1>6 DEF CommitRatchet, Pass
  <2>2. /\ mover' \in [Movers -> MoverType]
        /\ (puts \in PutQueues /\ OneCallEach)'
    BY <1>0, <2>1, DoneType
  <2>3. row' \in RowType
    BY <1>0, <2>1, CommittedType
  <2> QED
    BY <1>0, <2>1, <2>2, <2>3, TypeFrame
<1> QED
  BY <1>1, <1>2, <1>3, <1>4, <1>5, <1>6 DEF PassStep

LEMMA UserType ==
    ASSUME TypeOK,
           CommitManual \/ \E level \in Proposals : PickStop(level)
    PROVE  TypeOK'
<1> USE DEF history
<1>0. /\ bid \in Bids /\ bid \in Int /\ open \in BOOLEAN /\ row \in RowType
      /\ igStop \in Int /\ mover \in [Movers -> MoverType]
      /\ puts \in PutQueues /\ OneCallEach
      /\ pinned \in Zones \cup {""} /\ unsure \in BOOLEAN
      /\ overtaken' \in BOOLEAN /\ "user" \in Movers
  BY StopAssumption, OvertakenType DEF TypeOK, RowType, Movers, Next
<1>z. Zone(bid) \in Zones
  BY <1>0, LevelsAreIntegers
<1>1. CASE CommitManual
  <2>1. /\ Done("user") /\ mover["user"].pc # "put" /\ UNCHANGED puts
        /\ UNCHANGED <<fixed, bid, open, igStop, unsure>>
        /\ row' = [Committed(mover["user"]) EXCEPT !.zone = mover["user"].zone]
        /\ pinned' \in Zones \cup {""}
    BY <1>1, <1>z DEF CommitManual
  <2>2. /\ mover' \in [Movers -> MoverType]
        /\ (puts \in PutQueues /\ OneCallEach)'
    BY <1>0, <2>1, DoneType
  <2>3. row' \in RowType
    BY <1>0, <2>1, CommittedType
  <2> QED
    BY <1>0, <2>1, <2>2, <2>3, TypeFrame
<1>2. ASSUME NEW level \in Proposals, PickStop(level)
      PROVE  TypeOK'
  <2> DEFINE me == [IdleMover EXCEPT !.pc = "put", !.level = level,
                       !.zone = Zone(bid), !.target = BrokerLevel(level, bid)]
  <2>1. level \in Int
    BY StopAssumption
  <2>2. BrokerLevel(level, bid) \in Int
    BY <1>0, <2>1, LevelsAreIntegers
  <2>3. me \in MoverType /\ me.pc = "put"
    BY <1>0, <1>z, <2>1, <2>2, IdleType DEF MoverType
  <2>4. mover' = [mover EXCEPT !["user"] = me]
    BY <1>2 DEF PickStop
  <2>5. mover["user"].pc # "put" /\ puts' = Append(puts, "user")
    BY <1>2 DEF PickStop
  <2> HIDE DEF me
  <2>6. /\ mover' \in [Movers -> MoverType]
        /\ (puts \in PutQueues /\ OneCallEach)'
    BY <1>0, <2>3, <2>4, <2>5, EnqueueType
  <2> QED
    BY <1>0, <1>2, <2>6, TypeFrame DEF PickStop
<1> QED
  BY <1>1, <1>2

LEMMA PutType ==
    ASSUME TypeOK, NEW x \in Movers, PutStep(x)
    PROVE  TypeOK'
<1> USE DEF history
<1>0. /\ bid \in Bids /\ open \in BOOLEAN /\ row \in RowType
      /\ igStop \in Int /\ mover[x].target \in Int /\ mover[x].level \in Int
      /\ pinned \in Zones \cup {""} /\ unsure \in BOOLEAN
      /\ overtaken' \in BOOLEAN /\ "monitor" \in Movers
  BY OvertakenType DEF TypeOK, RowType, Movers, MoverType, Next
<1>1. CASE PutAccepted(x) \/ PutRefused(x) \/ PutLost(x)
  <2>1. PICK answer \in {"accepted", "refused", "lost"} : AnswerPut(x, answer)
    BY <1>1 DEF PutAccepted, PutRefused, PutLost
  <2>2. /\ mover' \in [Movers -> MoverType]
        /\ (puts \in PutQueues /\ OneCallEach)'
    BY <2>1, AnswerType
  <2>3. igStop' \in Int /\ unsure' \in BOOLEAN
    BY <1>0, <1>1 DEF PutAccepted, PutRefused, PutLost
  <2> QED
    BY <1>0, <2>1, <2>2, <2>3, TypeFrame DEF AnswerPut
<1>2. CASE PutFails(x)
  <2>1. /\ Done(x) /\ mover[x].pc # "put" /\ UNCHANGED puts
        /\ UNCHANGED <<fixed, bid, open, igStop, history>>
    BY <1>2 DEF PutFails
  <2>2. /\ mover' \in [Movers -> MoverType]
        /\ (puts \in PutQueues /\ OneCallEach)'
    BY <2>1, DoneType
  <2>3. UNCHANGED row \/ row' = [row EXCEPT !.follower = mover[x].level]
    BY <1>2 DEF PutFails, Pass
  <2>4. row' \in RowType
    BY <1>0, <2>3, RowSet
  <2> QED
    BY <1>0, <2>1, <2>2, <2>4, TypeFrame
<1> QED
  BY <1>1, <1>2 DEF PutStep

LEMMA MarketType ==
    ASSUME TypeOK, StopOut \/ (\E b \in Bids : Move(b)) \/ UNCHANGED vars
    PROVE  TypeOK'
<1> USE DEF history
<1>0. /\ bid \in Bids /\ open \in BOOLEAN /\ row \in RowType
      /\ igStop \in Int /\ mover \in [Movers -> MoverType]
      /\ pinned \in Zones \cup {""} /\ unsure \in BOOLEAN
      /\ overtaken' \in BOOLEAN
  BY OvertakenType DEF TypeOK, RowType, Next
<1>1. UNCHANGED <<fixed, row, igStop, mover, puts, unsure>>
  BY DEF StopOut, Move, vars, fixed
<1>2. (puts \in PutQueues /\ OneCallEach)'
  BY <1>1, QueueFrame
<1>3. bid' \in Bids /\ open' \in BOOLEAN /\ pinned' \in Zones \cup {""}
  BY <1>0 DEF StopOut, Move, vars
<1> QED
  BY <1>0, <1>1, <1>2, <1>3, TypeFrame

\* Every variable of the protective stop keeps its type, and a task has a call
\* in the queue exactly while it awaits the answer.
THEOREM TypeCorrect == Spec => []TypeOK
<1>1. Init => TypeOK
  BY InitType
<1>2. TypeOK /\ [Next]_vars => TypeOK'
  BY PassType, UserType, PutType, MarketType DEF Next
<1> QED
  BY <1>1, <1>2, PTL DEF Spec

-----------------------------------------------------------------------------
(* What a step does to the phase of each task *)

\* A pass or the user begins, goes on or asks the queue: no answer appears or
\* disappears, and neither the recorded nor the resting stop changes.
LEMMA UnansweredStep ==
    ASSUME TypeOK,
           \/ BeginPass \/ PassStep \/ StopOut \/ UNCHANGED vars
           \/ \E level \in Proposals : PickStop(level)
           \/ \E b \in Bids : Move(b)
    PROVE  /\ row'.stop = row.stop /\ UNCHANGED <<igStop, unsure>>
           /\ \A x \in Movers :
                 \/ mover'[x] = mover[x]
                 \/ /\ mover[x].pc \in {"idle", "loaded"}
                    /\ mover'[x].pc \in {"idle", "loaded", "put"}
<1> USE DEF history, fixed
<1>0. mover \in [Movers -> MoverType] /\ row \in RowType
  BY DEF TypeOK, RowType
<1>1. CASE BeginPass
  BY <1>0, <1>1 DEF BeginPass, IdleMover, Pass
<1>2. CASE Backstop \/ CloseHour \/ Unbuffered \/ KeepStop
  <2>1. /\ mover["monitor"].pc = "loaded" /\ Done("monitor")
        /\ UNCHANGED <<row, igStop, unsure>>
    BY <1>2 DEF Backstop, CloseHour, Unbuffered, KeepStop, Close, Managed, Pass
  <2> QED
    BY <1>0, <2>1 DEF Done, IdleMover
<1>3. CASE ReleaseHold
  BY <1>0, <1>3 DEF ReleaseHold, Managed, Pass, MoverType, RowType
<1>4. ASSUME NEW level \in Proposals, RaiseFollower(level)
      PROVE  /\ row'.stop = row.stop /\ UNCHANGED <<igStop, unsure>>
             /\ \A x \in Movers :
                   \/ mover'[x] = mover[x]
                   \/ /\ mover[x].pc \in {"idle", "loaded"}
                      /\ mover'[x].pc \in {"idle", "loaded", "put"}
  BY <1>0, <1>4 DEF RaiseFollower, Managed, Pass, Done, IdleMover, RowType
<1>5. ASSUME NEW level \in Proposals, RaiseStop(level)
      PROVE  /\ row'.stop = row.stop /\ UNCHANGED <<igStop, unsure>>
             /\ \A x \in Movers :
                   \/ mover'[x] = mover[x]
                   \/ /\ mover[x].pc \in {"idle", "loaded"}
                      /\ mover'[x].pc \in {"idle", "loaded", "put"}
  <2>1. /\ UNCHANGED <<row, igStop, unsure>> /\ mover["monitor"].pc = "loaded"
        /\ \A x \in Movers : x # "monitor" => mover'[x] = mover[x]
        /\ mover'["monitor"].pc = "put"
    BY <1>0, <1>5 DEF RaiseStop, Managed, Pass, Movers, MoverType
  <2> QED
    BY <2>1
<1>6. ASSUME NEW level \in Proposals, PickStop(level)
      PROVE  /\ row'.stop = row.stop /\ UNCHANGED <<igStop, unsure>>
             /\ \A x \in Movers :
                   \/ mover'[x] = mover[x]
                   \/ /\ mover[x].pc \in {"idle", "loaded"}
                      /\ mover'[x].pc \in {"idle", "loaded", "put"}
  <2>1. /\ UNCHANGED <<row, igStop, unsure>> /\ mover["user"].pc = "idle"
        /\ \A x \in Movers : x # "user" => mover'[x] = mover[x]
        /\ mover'["user"].pc = "put"
    BY <1>0, <1>6 DEF PickStop, IdleMover, Movers
  <2> QED
    BY <2>1
<1>7. CASE StopOut \/ (\E b \in Bids : Move(b)) \/ UNCHANGED vars
  BY <1>7 DEF StopOut, Move, vars
<1> QED
  BY <1>1, <1>2, <1>3, <1>4, <1>5, <1>6, <1>7 DEF PassStep

-----------------------------------------------------------------------------
(* The recorded broker level *)

\* One answer is dealt with at a time.  Without a doubt, the order at IG is the
\* one an accepted PUT asked for, or the recorded one.
Settled ==
    /\ \A x, y \in Movers : Answered(x) /\ Answered(y) => x = y
    /\ ~unsure =>
          \/ \E x \in Movers : mover[x].pc = "accepted"
                               /\ igStop = mover[x].target
          \/ /\ \A x \in Movers : mover[x].pc # "accepted"
             /\ row.stop = igStop

LEMMA SettledStep == TypeOK /\ Settled /\ [Next]_vars => Settled'
<1> SUFFICES ASSUME TypeOK, Settled, [Next]_vars
             PROVE  Settled'
  OBVIOUS
<1> USE DEF history, fixed
<1>0. mover \in [Movers -> MoverType] /\ row \in RowType /\ "monitor" \in Movers
      /\ "user" \in Movers
  BY DEF TypeOK, RowType, Movers
<1>1. CASE \/ BeginPass \/ PassStep \/ StopOut \/ UNCHANGED vars
           \/ \E level \in Proposals : PickStop(level)
           \/ \E b \in Bids : Move(b)
  <2>1. /\ row'.stop = row.stop /\ UNCHANGED <<igStop, unsure>>
        /\ \A x \in Movers :
              \/ mover'[x] = mover[x]
              \/ /\ mover[x].pc \in {"idle", "loaded"}
                 /\ mover'[x].pc \in {"idle", "loaded", "put"}
    BY <1>1, UnansweredStep
  <2> QED
    BY <2>1 DEF Settled, Answered
<1>2. ASSUME NEW x \in Movers, NEW answer \in {"accepted", "refused", "lost"},
             AnswerPut(x, answer)
      PROVE  /\ \A y, z \in Movers : Answered(y)' /\ Answered(z)' => y = z
             /\ \A y \in Movers : mover[y].pc # "accepted"
             /\ \A y \in Movers : y # x => mover'[y] = mover[y]
             /\ mover'[x].pc = answer /\ mover'[x].target = mover[x].target
             /\ UNCHANGED row
  <2>1. \A y \in Movers : mover[y].pc \in {"idle", "loaded", "put"}
    BY <1>2 DEF AnswerPut
  <2>2. \A y \in Movers : y # x => mover'[y] = mover[y]
    BY <1>0, <1>2 DEF AnswerPut
  <2>3. mover'[x].pc = answer /\ mover'[x].target = mover[x].target
    BY <1>0, <1>2 DEF AnswerPut, MoverType
  <2> QED
    BY <1>2, <2>1, <2>2, <2>3 DEF Answered, AnswerPut
<1>3. ASSUME NEW x \in Movers, PutAccepted(x)
      PROVE  Settled'
  <2>1. AnswerPut(x, "accepted") /\ igStop' = mover[x].target
    BY <1>3 DEF PutAccepted
  <2> QED
    BY <1>2, <2>1 DEF Settled
<1>4. ASSUME NEW x \in Movers, PutRefused(x)
      PROVE  Settled'
  <2>1. AnswerPut(x, "refused") /\ UNCHANGED <<igStop, unsure>>
    BY <1>4 DEF PutRefused
  <2> QED
    BY <1>2, <2>1 DEF Settled
<1>5. ASSUME NEW x \in Movers, PutLost(x)
      PROVE  Settled'
  <2>1. AnswerPut(x, "lost") /\ unsure'
    BY <1>5 DEF PutLost
  <2> QED
    BY <1>2, <2>1 DEF Settled
<1>6. ASSUME NEW x \in Movers, PutFails(x)
      PROVE  Settled'
  <2>1. /\ mover[x].pc = "lost" /\ mover'[x].pc = "idle"
        /\ \A y \in Movers : y # x => mover'[y] = mover[y]
        /\ UNCHANGED <<igStop, unsure>> /\ row'.stop = row.stop
    BY <1>0, <1>6 DEF PutFails, Done, IdleMover, RowType
  <2> QED
    BY <2>1 DEF Settled, Answered
<1>7. ASSUME NEW x \in Movers, mover[x].pc \in {"accepted", "refused"}, Done(x),
             UNCHANGED <<igStop, unsure>>,
             row'.stop = Committed(mover[x]).stop
      PROVE  Settled'
  <2>1. /\ mover'[x].pc = "idle"
        /\ \A y \in Movers : y # x => mover'[y] = mover[y]
    BY <1>0, <1>7 DEF Done, IdleMover
  <2>2. row'.stop = IF mover[x].pc = "accepted" THEN mover[x].target
                    ELSE row.stop
    BY <1>0, <1>7 DEF Committed, RowType
  <2> QED
    BY <1>7, <2>1, <2>2 DEF Settled, Answered
<1>8. CASE CommitRatchet
  BY <1>0, <1>7, <1>8 DEF CommitRatchet, Pass
<1>9. CASE CommitManual
  <2>1. row'.stop = Committed(mover["user"]).stop
    BY <1>0, <1>9, CommittedType DEF CommitManual, RowType
  <2> QED
    BY <1>0, <1>7, <1>9, <2>1 DEF CommitManual
<1> QED
  BY <1>1, <1>3, <1>4, <1>5, <1>6, <1>8, <1>9 DEF Next, PutStep

\* The recorded broker level is the order resting at IG whenever nothing is in
\* flight and no lost reply leaves it in doubt, however the tasks overlap.
THEOREM RecordedStop == Spec => []RecordedIsResting
<1>1. Init => Settled
  <2> SUFFICES ASSUME Init
               PROVE  Settled
    OBVIOUS
  <2>1. \A x \in Movers : mover[x].pc = "idle"
    BY DEF Init, IdleMover
  <2>2. row.stop = igStop
    BY DEF Init
  <2> QED
    BY <2>1, <2>2 DEF Settled, Answered
<1>2. Settled => RecordedIsResting
  BY DEF Settled, RecordedIsResting
<1> QED
  BY <1>1, <1>2, TypeCorrect, SettledStep, PTL DEF Spec

-----------------------------------------------------------------------------
(* The ratchets: what a pass the user has not overtaken knows *)

\* While the answer of the user's PUT waits to be committed, every pass is an
\* overtaken one.
AnswerSeen == Pass.pc # "idle" /\ Answered("user") => overtaken

\* A pass works on the committed row, and asks for no looser stop.
PassFresh ==
    Pass.pc # "idle" /\ ~overtaken =>
        /\ Pass.follower = row.follower /\ Pass.stop = row.stop
        /\ Pass.pc # "loaded" =>
              /\ Acceptable(Pass, Pass.level)
              /\ Known(Pass.stop) =>
                    Pass.target = Pass.stop \/ Tighter(Pass.target, Pass.stop)

\* While a stop is pinned, the row and every pass know it.
PinHeld ==
    pinned # "" =>
        /\ row.zone = pinned /\ Zone(bid) = pinned
        /\ Pass.pc # "idle" =>
              /\ Pass.pc = "loaded" /\ Pass.zone = pinned
              /\ Zone(Pass.bid) = pinned

Passes == AnswerSeen /\ PassFresh /\ PinHeld
RatchetInv == TypeOK /\ Settled /\ Passes

LEMMA SameSide ==
    ASSUME UNCHANGED direction
    PROVE  /\ \A a, b : Tighter(a, b)' <=> Tighter(a, b)
           /\ \A b : Zone(b)' = Zone(b)
BY DEF Tighter, Zone, BreakEven, CloseOut

\* No pass is left after the step: only the pinned row matters.
LEMMA NoPassLeft ==
    ASSUME Pass'.pc = "idle", UNCHANGED direction,
           pinned' # "" => row'.zone = pinned' /\ Zone(bid') = pinned'
    PROVE  Passes'
BY SameSide DEF Passes, AnswerSeen, PassFresh, PinHeld

\* The pass is overtaken, and the step pins nothing: only an older pin matters.
LEMMA Overtaken ==
    ASSUME overtaken', PinHeld'
    PROVE  Passes'
BY DEF Passes, AnswerSeen, PassFresh

\* The step touches neither the pass nor what it has read.
LEMMA PassLeftAlone ==
    ASSUME RatchetInv, UNCHANGED <<direction, bid, row, pinned, overtaken>>,
           Pass' = Pass, Answered("user")' => Answered("user")
    PROVE  Passes'
<1>1. AnswerSeen'
  BY DEF RatchetInv, Passes, AnswerSeen
<1>2. PassFresh'
  BY SameSide DEF RatchetInv, Passes, PassFresh, Acceptable, Known
<1>3. PinHeld'
  BY SameSide DEF RatchetInv, Passes, PinHeld
<1> QED
  BY <1>1, <1>2, <1>3 DEF Passes

LEMMA PassBegins ==
    ASSUME RatchetInv, BeginPass
    PROVE  Passes'
<1>0. /\ mover \in [Movers -> MoverType]
      /\ "monitor" \in Movers /\ "user" \in Movers
  BY DEF RatchetInv, TypeOK, Movers
<1>1. /\ Pass'.pc = "loaded" /\ Pass'.bid = bid /\ Pass'.zone = row.zone
      /\ Pass'.follower = row.follower /\ Pass'.stop = row.stop
  BY <1>0 DEF BeginPass, Pass, IdleMover
<1>2. UNCHANGED <<direction, bid, row, pinned>>
  BY DEF BeginPass, fixed, history
<1>3. mover'["user"] = mover["user"]
  BY <1>0 DEF BeginPass
<1>4. AnswerSeen'
  BY <1>3 DEF AnswerSeen, Answered, BeginPass
<1>5. PassFresh'
  BY <1>1, <1>2 DEF PassFresh
<1>6. PinHeld'
  BY <1>1, <1>2, SameSide DEF RatchetInv, Passes, PinHeld
<1> QED
  BY <1>4, <1>5, <1>6 DEF Passes

LEMMA PassEnds ==
    ASSUME RatchetInv,
           \/ Backstop \/ CloseHour \/ Unbuffered \/ KeepStop \/ CommitRatchet
           \/ \E level \in Proposals : RaiseFollower(level)
    PROVE  Passes'
<1>0. mover \in [Movers -> MoverType] /\ row \in RowType /\ "monitor" \in Movers
  BY DEF RatchetInv, TypeOK, Movers, RowType
<1>1. /\ Done("monitor") /\ UNCHANGED <<direction, bid, pinned>>
      /\ row'.zone = row.zone
  BY <1>0 DEF Backstop, CloseHour, Unbuffered, KeepStop, CommitRatchet,
              RaiseFollower, Close, Committed, fixed, history, RowType
<1>2. Pass'.pc = "idle"
  BY <1>0, <1>1 DEF Done, Pass, IdleMover
<1>3. pinned' # "" => row'.zone = pinned' /\ Zone(bid') = pinned'
  BY <1>1 DEF RatchetInv, Passes, PinHeld
<1> QED
  BY <1>1, <1>2, <1>3, NoPassLeft

LEMMA PassGoesOn ==
    ASSUME RatchetInv, ReleaseHold \/ \E level \in Proposals : RaiseStop(level)
    PROVE  Passes'
<1>0. /\ mover \in [Movers -> MoverType] /\ row \in RowType
      /\ "monitor" \in Movers /\ "user" \in Movers
  BY DEF RatchetInv, TypeOK, Movers, RowType
<1>1. pinned = "" /\ UNCHANGED <<direction, pinned, overtaken>>
  BY DEF ReleaseHold, RaiseStop, Managed, Held, RatchetInv, Passes, PinHeld,
         fixed, history
<1>2. /\ Pass.pc = "loaded"
      /\ ~overtaken => /\ Pass.follower = row.follower /\ Pass.stop = row.stop
  BY DEF ReleaseHold, RaiseStop, Managed, RatchetInv, Passes, PassFresh
<1>3. PinHeld'
  BY <1>1 DEF PinHeld
<1>4. CASE ReleaseHold
  <2> DEFINE me == [mover["monitor"] EXCEPT !.zone = ""]
  <2>1. mover' = [mover EXCEPT !["monitor"] = me]
    BY <1>0, <1>4 DEF ReleaseHold
  <2>2. AnswerSeen'
    BY <1>0, <1>1, <1>2, <2>1
    DEF RatchetInv, Passes, AnswerSeen, Answered
  <2>3. /\ Pass'.pc = "loaded" /\ Pass'.follower = Pass.follower
        /\ Pass'.stop = Pass.stop
        /\ row'.follower = row.follower /\ row'.stop = row.stop
    <3>1. Pass' = me
      BY <1>0, <2>1 DEF Pass
    <3>2. /\ me.pc = Pass.pc /\ me.follower = Pass.follower
          /\ me.stop = Pass.stop
      BY <1>0 DEF Pass, MoverType
    <3>3. row' = [row EXCEPT !.zone = ""]
      BY <1>4 DEF ReleaseHold
    <3>4. row'.follower = row.follower /\ row'.stop = row.stop
      BY <1>0, <3>3 DEF RowType
    <3> QED
      BY <1>2, <3>1, <3>2, <3>4
  <2> QED
    BY <1>1, <1>2, <1>3, <2>2, <2>3 DEF Passes, PassFresh
<1>5. ASSUME NEW level \in Proposals, RaiseStop(level)
      PROVE  Passes'
  <2> DEFINE me == [mover["monitor"] EXCEPT !.pc = "put", !.level = level,
                       !.target = BrokerTarget(mover["monitor"], level)]
  <2>1. mover' = [mover EXCEPT !["monitor"] = me]
    BY <1>0, <1>5 DEF RaiseStop, Pass, MoverType
  <2>2. AnswerSeen'
    BY <1>0, <1>1, <1>2, <2>1
    DEF RatchetInv, Passes, AnswerSeen, Answered
  <2>3. /\ Pass'.follower = Pass.follower /\ Pass'.stop = Pass.stop
        /\ Pass'.level = level /\ Pass'.target = BrokerTarget(Pass, level)
        /\ UNCHANGED row
    <3>1. Pass' = me /\ UNCHANGED row
      BY <1>0, <1>5, <2>1 DEF Pass, RaiseStop
    <3>2. /\ me.follower = Pass.follower /\ me.stop = Pass.stop
          /\ me.level = level /\ me.target = BrokerTarget(Pass, level)
      BY <1>0 DEF Pass, MoverType
    <3> QED
      BY <3>1, <3>2
  <2>4. Known(Pass.follower) => Tighter(level, Pass.follower)
    BY <1>5 DEF RaiseStop, Acceptable
  <2>5. Known(Pass.stop) => \/ BrokerTarget(Pass, level) = Pass.stop
                            \/ Tighter(BrokerTarget(Pass, level), Pass.stop)
    BY DEF BrokerTarget
  <2>6. PassFresh'
    BY <1>1, <1>2, <2>3, <2>4, <2>5, SameSide DEF PassFresh, Acceptable, Known
  <2> QED
    BY <1>3, <2>2, <2>6 DEF Passes
<1> QED
  BY <1>4, <1>5

LEMMA UserActs ==
    ASSUME RatchetInv,
           CommitManual \/ \E level \in Proposals : PickStop(level)
    PROVE  Passes'
<1>0. /\ mover \in [Movers -> MoverType] /\ row \in RowType
      /\ "monitor" \in Movers /\ "user" \in Movers
  BY DEF RatchetInv, TypeOK, Movers, RowType
<1>1. CASE CommitManual
  <2>1. /\ Done("user") /\ UNCHANGED <<direction, bid>> /\ Answered("user")
        /\ row' = [Committed(mover["user"]) EXCEPT !.zone = mover["user"].zone]
        /\ pinned' = IF Pass.pc = "idle" /\ mover["user"].zone = Zone(bid)
                     THEN Zone(bid) ELSE ""
    BY <1>1 DEF CommitManual, fixed, Answered
  <2>2. Pass' = Pass
    BY <1>0, <2>1 DEF Done, Pass
  <2>3. CASE Pass.pc = "idle"
    <3>1. Committed(mover["user"]) \in RowType
      BY <1>0, CommittedType DEF RatchetInv
    <3>2. row'.zone = mover["user"].zone
      BY <2>1, <3>1 DEF RowType
    <3>3. pinned' # "" => row'.zone = pinned' /\ Zone(bid') = pinned'
      <4>1. Zone(bid') = Zone(bid)
        BY <2>1
      <4> QED
        BY <2>1, <3>2, <4>1
    <3> QED
      BY <2>1, <2>2, <2>3, <3>3, NoPassLeft
  <2>4. CASE Pass.pc # "idle"
    <3>1. overtaken
      BY <2>1, <2>4 DEF RatchetInv, Passes, AnswerSeen
    <3>2. overtaken' /\ pinned' = ""
      BY <2>1, <2>4, <3>1 DEF Done
    <3>3. PinHeld'
      BY <3>2 DEF PinHeld
    <3> QED
      BY <3>2, <3>3, Overtaken
  <2> QED
    BY <2>3, <2>4
<1>2. ASSUME NEW level \in Proposals, PickStop(level)
      PROVE  Passes'
  <2>1. Pass' = Pass /\ mover'["user"].pc = "put"
    BY <1>0, <1>2 DEF PickStop, Pass, IdleMover
  <2>2. UNCHANGED <<direction, bid, row, pinned, overtaken>>
    BY <1>2 DEF PickStop, fixed, history
  <2> QED
    BY <2>1, <2>2, PassLeftAlone DEF Answered
<1> QED
  BY <1>1, <1>2

LEMMA QueueActs ==
    ASSUME RatchetInv, NEW x \in Movers, PutStep(x)
    PROVE  Passes'
<1>0. /\ mover \in [Movers -> MoverType] /\ row \in RowType
      /\ "monitor" \in Movers /\ "user" \in Movers
      /\ \A y \in Movers :
            mover[y].pc = "put" <=> \E i \in DOMAIN puts : puts[i] = y
  BY DEF RatchetInv, TypeOK, Movers, RowType, OneCallEach
<1>1. UNCHANGED <<direction, bid, pinned>> /\ row'.zone = row.zone
  BY <1>0 DEF PutStep, PutAccepted, PutRefused, PutLost, PutFails, AnswerPut,
              fixed, history, RowType
<1>2. pinned' # "" => row'.zone = pinned' /\ Zone(bid') = pinned'
  BY <1>1 DEF RatchetInv, Passes, PinHeld
<1>3. CASE PutFails(x)
  <2>1. Done(x)
    BY <1>3 DEF PutFails
  <2>2. CASE x = "monitor"
    <3>1. Pass'.pc = "idle"
      BY <1>0, <2>1, <2>2 DEF Done, IdleMover, Pass
    <3> QED
      BY <1>1, <1>2, <3>1, NoPassLeft
  <2>3. CASE x = "user"
    <3>1. Pass' = Pass /\ mover'["user"].pc = "idle"
      BY <1>0, <2>1, <2>3 DEF Done, Pass, IdleMover
    <3>2. UNCHANGED row /\ overtaken' = overtaken
      <4>1. overtaken \in BOOLEAN
        BY DEF RatchetInv, TypeOK
      <4> QED
        BY <1>3, <2>1, <2>3, <4>1 DEF PutFails, Done
    <3> QED
      BY <1>1, <3>1, <3>2, PassLeftAlone DEF Answered
  <2> QED
    BY <2>2, <2>3 DEF Movers
<1>4. ASSUME NEW answer \in {"accepted", "refused", "lost"},
             AnswerPut(x, answer)
      PROVE  Passes'
  <2> DEFINE me == [mover[x] EXCEPT !.pc = answer]
  <2>1. mover' = [mover EXCEPT ![x] = me]
    BY <1>0, <1>4 DEF AnswerPut
  <2>2. mover[x].pc = "put"
    <3>1. puts \in PutQueues /\ puts # <<>> /\ x = Head(puts)
      BY <1>4 DEF RatchetInv, TypeOK, AnswerPut
    <3>2. \E i \in DOMAIN puts : puts[i] = x
      BY <3>1 DEF PutQueues
    <3> QED
      BY <1>0, <3>2
  <2>3. /\ UNCHANGED row
        /\ overtaken' = (Pass.pc # "idle" /\ (overtaken \/ x = "user"))
        /\ \A y \in Movers : ~Answered(y)
    BY <1>4 DEF AnswerPut, Answered
  <2>4. CASE x = "monitor"
    <3>1. Pass' = me /\ Pass.pc = "put"
      BY <1>0, <2>1, <2>2, <2>4 DEF Pass
    <3>2. /\ me.follower = Pass.follower /\ me.stop = Pass.stop
          /\ me.level = Pass.level /\ me.target = Pass.target
      <4>1. mover[x] \in MoverType /\ mover[x] = Pass
        BY <1>0, <2>4 DEF Pass
      <4> QED
        BY <4>1 DEF MoverType
    <3>3. mover'["user"] = mover["user"]
      BY <1>0, <2>1, <2>4
    <3>4. AnswerSeen'
      BY <1>0, <2>3, <3>3 DEF AnswerSeen, Answered
    <3>5. PassFresh'
      BY <1>1, <2>3, <3>1, <3>2, SameSide
      DEF RatchetInv, Passes, PassFresh, Acceptable, Known
    <3>6. PinHeld'
      BY <1>1, <3>1 DEF RatchetInv, Passes, PinHeld
    <3> QED
      BY <3>4, <3>5, <3>6 DEF Passes
  <2>5. CASE x = "user"
    <3>1. Pass' = Pass
      BY <1>0, <2>1, <2>5 DEF Pass
    <3>2. PinHeld'
      BY <1>1, <2>3, <3>1, SameSide DEF RatchetInv, Passes, PinHeld
    <3>3. CASE Pass.pc = "idle"
      BY <1>1, <1>2, <3>1, <3>3, NoPassLeft
    <3>4. CASE Pass.pc # "idle"
      BY <2>3, <2>5, <3>2, <3>4, Overtaken
    <3> QED
      BY <3>3, <3>4
  <2> QED
    BY <2>4, <2>5 DEF Movers
<1> QED
  BY <1>3, <1>4 DEF PutStep, PutAccepted, PutRefused, PutLost

LEMMA MarketActs ==
    ASSUME RatchetInv, StopOut \/ (\E b \in Bids : Move(b)) \/ UNCHANGED vars
    PROVE  Passes'
<1>1. UNCHANGED <<direction, row, mover, overtaken>>
  BY DEF StopOut, Move, vars, fixed
<1>2. AnswerSeen'
  BY <1>1 DEF RatchetInv, Passes, AnswerSeen, Answered, Pass
<1>3. PassFresh'
  BY <1>1, SameSide DEF RatchetInv, Passes, PassFresh, Pass, Acceptable, Known
<1>4. pinned' # "" => pinned' = pinned /\ (Zone(bid') = pinned \/ bid' = bid)
  BY DEF StopOut, Move, vars, history
<1>5. PinHeld'
  BY <1>1, <1>4, SameSide DEF RatchetInv, Passes, PinHeld, Pass
<1> QED
  BY <1>2, <1>3, <1>5 DEF Passes

LEMMA RatchetInvHolds == Spec => []RatchetInv
<1>1. Init => RatchetInv
  <2> SUFFICES ASSUME Init
               PROVE  RatchetInv
    OBVIOUS
  <2>1. \A x \in Movers : mover[x].pc = "idle"
    BY DEF Init, IdleMover
  <2>2. row.stop = igStop /\ pinned = ""
    BY DEF Init
  <2> QED
    BY <2>1, <2>2, InitType
    DEF RatchetInv, Settled, Answered, Passes, AnswerSeen, PassFresh, PinHeld,
        Pass, Movers
<1>2. RatchetInv /\ [Next]_vars => RatchetInv'
  <2> SUFFICES ASSUME RatchetInv, [Next]_vars
               PROVE  RatchetInv'
    OBVIOUS
  <2>1. TypeOK'
    BY PassType, UserType, PutType, MarketType DEF Next, RatchetInv
  <2>2. Settled'
    BY SettledStep DEF RatchetInv
  <2>3. Passes'
    BY PassBegins, PassEnds, PassGoesOn, UserActs, QueueActs, MarketActs
    DEF Next, PassStep
  <2> QED
    BY <2>1, <2>2, <2>3 DEF RatchetInv
<1> QED
  BY <1>1, <1>2, PTL DEF Spec

\* For any prices and any proposals of the updaters, and however the user's
\* moves overlap the passes, a pass only tightens the follower unless the
\* user's move has overtaken it.
THEOREM FollowerRatchets == Spec => RatchetOnly
<1>1. RatchetInv /\ [Next]_vars
      => [/\ Automatic /\ ~overtaken
          /\ Known(row.follower) /\ row'.follower # row.follower
          => Tighter(row'.follower, row.follower)]_vars
  <2> SUFFICES ASSUME RatchetInv, [Next]_vars, Automatic, ~overtaken,
                      Known(row.follower), row'.follower # row.follower
               PROVE  Tighter(row'.follower, row.follower)
    BY Zenon
  <2> USE DEF history, fixed
  <2>0. /\ row \in RowType /\ mover \in [Movers -> MoverType]
        /\ "user" \in Movers /\ "monitor" \in Movers
    BY DEF RatchetInv, TypeOK, RowType, Movers
  <2>1. ASSUME Pass.pc # "idle", row' = row \/ row'.follower = Pass.level,
               Pass.pc # "loaded"
        PROVE  Tighter(row'.follower, row.follower)
    BY <2>1 DEF RatchetInv, Passes, PassFresh, Acceptable
  <2>2. ASSUME NEW level \in Proposals, RaiseFollower(level)
        PROVE  Tighter(row'.follower, row.follower)
    <3>1. row'.follower = level
      BY <2>0, <2>2 DEF RaiseFollower, RowType
    <3>2. Pass.follower = row.follower
      BY <2>2 DEF RaiseFollower, Managed, RatchetInv, Passes, PassFresh
    <3> QED
      BY <2>2, <3>1, <3>2 DEF RaiseFollower, Acceptable
  <2>3. CASE CommitRatchet
    <3>1. row'.follower = Pass.level
      BY <2>0, <2>3 DEF CommitRatchet, Committed, RowType
    <3> QED
      BY <2>1, <2>3, <3>1 DEF CommitRatchet
  <2>4. ASSUME NEW x \in Movers, PutStep(x)
        PROVE  Tighter(row'.follower, row.follower)
    <3>1. PutFails(x)
      BY <2>4 DEF PutStep, PutAccepted, PutRefused, PutLost, AnswerPut
    <3>2. x = "monitor" /\ row' = [row EXCEPT !.follower = Pass.level]
      BY <3>1 DEF PutFails
    <3>3. row'.follower = Pass.level
      BY <2>0, <3>2 DEF RowType
    <3> QED
      BY <2>1, <3>1, <3>2, <3>3 DEF PutFails, Pass
  <2>5. CASE CommitManual
    <3>1. mover["user"].pc # "idle" /\ mover'["user"].pc = "idle"
      BY <2>0, <2>5 DEF CommitManual, Done, IdleMover
    <3>2. mover'["user"] = mover["user"]
      BY DEF Automatic
    <3> QED
      BY <3>1, <3>2
  <2>6. CASE ReleaseHold
    BY <2>0, <2>6 DEF ReleaseHold, RowType
  <2>7. CASE \/ BeginPass \/ Backstop \/ CloseHour \/ Unbuffered \/ KeepStop
             \/ StopOut
             \/ (\E level \in Proposals : RaiseStop(level) \/ PickStop(level))
             \/ (\E b \in Bids : Move(b)) \/ UNCHANGED vars
    <3>1. UNCHANGED row
      BY <2>7 DEF BeginPass, Backstop, CloseHour, Unbuffered, KeepStop, StopOut,
                  RaiseStop, PickStop, Move, vars, Close
    <3> QED
      BY <3>1
  <2> QED
    BY <2>2, <2>3, <2>4, <2>5, <2>6, <2>7 DEF Next, PassStep
<1> QED
  BY <1>1, RatchetInvHolds, PTL DEF Spec, RatchetOnly

\* Only an answered PUT moves the order at IG, and only the monitor's when the
\* user does nothing.
LEMMA MonitorMoves ==
    ASSUME RatchetInv, Automatic, [Next]_vars, igStop' # igStop
    PROVE  Pass.pc = "put" /\ igStop' = Pass.target
<1> USE DEF history, fixed
<1>0. /\ mover \in [Movers -> MoverType]
      /\ \A y \in Movers :
            mover[y].pc = "put" <=> \E i \in DOMAIN puts : puts[i] = y
      /\ puts \in PutQueues
  BY DEF RatchetInv, TypeOK, OneCallEach
<1>1. PICK x \in Movers : PutAccepted(x) \/ PutLost(x)
  BY DEF Next, PassStep, PutStep, BeginPass, Backstop, CloseHour, Unbuffered,
         KeepStop, ReleaseHold, RaiseFollower, RaiseStop, CommitRatchet,
         CommitManual, PickStop, PutRefused, PutFails, Move, StopOut, Close, vars
<1>2. PICK answer \in {"accepted", "lost"} : AnswerPut(x, answer)
  BY <1>1 DEF PutAccepted, PutLost
<1>3. igStop' = mover[x].target
  BY <1>1 DEF PutAccepted, PutLost
<1>4. mover[x].pc = "put"
  <2>1. puts # <<>> /\ x = Head(puts)
    BY <1>2 DEF AnswerPut
  <2>2. \E i \in DOMAIN puts : puts[i] = x
    BY <1>0, <2>1 DEF PutQueues
  <2> QED
    BY <1>0, <2>2
<1>5. mover'[x].pc = answer
  <2>1. mover[x] \in MoverType
    BY <1>0
  <2>2. mover'[x] = [mover[x] EXCEPT !.pc = answer]
    BY <1>0, <1>2 DEF AnswerPut
  <2> QED
    BY <2>1, <2>2 DEF MoverType
<1>6. x # "user"
  BY <1>4, <1>5 DEF Automatic
<1> QED
  BY <1>3, <1>4, <1>6 DEF Movers, Pass

\* Whatever the minimum distance and the refusals, a pass never loosens the
\* order at IG unless a lost reply left it in doubt or the user's move has
\* overtaken the pass.
THEOREM BrokerRatchets == Spec => BrokerRatchetOnly
<1>1. RatchetInv /\ [Next]_vars
      => [/\ Automatic /\ ~unsure /\ ~overtaken
          /\ Known(igStop) /\ igStop' # igStop
          => Tighter(igStop', igStop)]_vars
  <2> SUFFICES ASSUME RatchetInv, [Next]_vars, Automatic, ~unsure, ~overtaken,
                      Known(igStop), igStop' # igStop
               PROVE  Tighter(igStop', igStop)
    BY Zenon
  <2>1. Pass.pc = "put" /\ igStop' = Pass.target
    BY MonitorMoves
  <2>2. \A x \in Movers : mover[x].pc # "accepted"
    <3>1. Pass.pc # "accepted"
      BY <2>1
    <3>2. mover["user"].pc # "accepted"
      BY <2>1 DEF RatchetInv, Passes, AnswerSeen, Answered
    <3> QED
      BY <3>1, <3>2 DEF Pass, Movers
  <2>3. Pass.stop = igStop
    BY <2>1, <2>2 DEF RatchetInv, Settled, Passes, PassFresh
  <2> QED
    BY <2>1, <2>3 DEF RatchetInv, Passes, PassFresh
<1> QED
  BY <1>1, RatchetInvHolds, PTL DEF Spec, BrokerRatchetOnly

\* A stop the user pinned while no pass was under way stays where it is, here
\* and at IG, until the bid leaves the zone it was pinned in: the passes that
\* begin later know of the pin.
THEOREM PinnedStays == Spec => PinnedStopStays
<1>1. RatchetInv /\ [Next]_vars
      => [Automatic /\ pinned # ""
          => row'.follower = row.follower /\ igStop' = igStop]_vars
  <2> SUFFICES ASSUME RatchetInv, [Next]_vars, Automatic, pinned # ""
               PROVE  row'.follower = row.follower /\ igStop' = igStop
    BY Zenon
  <2> USE DEF history, fixed
  <2>0. /\ row \in RowType /\ mover \in [Movers -> MoverType]
        /\ "user" \in Movers
    BY DEF RatchetInv, TypeOK, RowType, Movers
  <2>1. /\ Pass.pc \in {"idle", "loaded"}
        /\ Pass.pc = "loaded" => Pass.zone = pinned /\ Held(Pass)
    BY DEF RatchetInv, Passes, PinHeld, Held
  <2>2. igStop' = igStop
    BY <2>1, MonitorMoves
  <2>3. CASE CommitManual
    <3>1. mover["user"].pc # "idle" /\ mover'["user"].pc = "idle"
      BY <2>0, <2>3 DEF CommitManual, Done, IdleMover
    <3> QED
      BY <3>1 DEF Automatic
  <2>4. row' = row \/ CommitManual
    BY <2>1 DEF Next, PassStep, PutStep, BeginPass, Backstop, CloseHour,
         Unbuffered, KeepStop, ReleaseHold, RaiseFollower, RaiseStop, Managed,
         CommitRatchet, PickStop, PutAccepted, PutRefused, PutLost, PutFails, AnswerPut, Move,
         StopOut, Close, vars, Pass
  <2> QED
    BY <2>2, <2>3, <2>4
<1> QED
  BY <1>1, RatchetInvHolds, PTL DEF Spec, PinnedStopStays

=============================================================================
