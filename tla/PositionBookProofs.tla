------------------------- MODULE PositionBookProofs -------------------------
(***************************************************************************)
(* Theorems about the position book, for any number of epics, deals, rows, *)
(* openers and closers and whatever the environment may do:                *)
(*   TypeCorrect        the type invariant;                                *)
(*   OneOwnRow          the bot never has two open rows of its own on one  *)
(*                      epic;                                              *)
(*   DropsOnlyRejected  a row is deleted only for an order IG rejected;    *)
(*   ExternalCloses     a row closed as closed_externally is a closed deal *)
(*                      unless it was handed a second one;                 *)
(*   OwnCloses          so is a row closed with a reason of its own, unless*)
(*                      nobody could read the confirmation of its close.   *)
(***************************************************************************)
EXTENDS PositionBook, WellFoundedInduction, TLAPS

-----------------------------------------------------------------------------
(* Rowids *)

\* The first of a nonempty set of rowids is one of them.
LEMMA FirstIsMember ==
    ASSUME NEW S \in SUBSET Nat, S # {}
    PROVE  /\ First(S) \in S
           /\ \A q \in S : First(S) <= q
<1>1. \E x \in S : \A y \in S : ~(<<y, x>> \in OpToRel(<, Nat))
  BY NatLessThanWellFounded, WFMin
<1>2. PICK x \in S : \A y \in S : ~(<<y, x>> \in OpToRel(<, Nat))
  BY <1>1
<1>3. \A y \in S : x <= y
  <2>1. TAKE y \in S
  <2>2. x \in Nat /\ y \in Nat
    OBVIOUS
  <2>3. ~(y < x)
    BY <1>2, <2>2 DEF OpToRel
  <2>4. QED
    BY <2>2, <2>3
<1>4. QED
  BY <1>3 DEF First

LEMMA FirstRow == First(Rows) \in Rows
  BY FirstIsMember, BookAssumption

LEMMA FirstUnused ==
    ASSUME UnusedRows # {}
    PROVE  First(UnusedRows) \in Rows /\ book[First(UnusedRows)].state = "none"
<1>1. UnusedRows \in SUBSET Nat
  BY BookAssumption DEF UnusedRows
<1>2. First(UnusedRows) \in UnusedRows
  BY <1>1, FirstIsMember
<1>3. QED
  BY <1>2 DEF UnusedRows

LEMMA SomeEpic == AnyEpic \in Epics
  BY BookAssumption DEF AnyEpic

-----------------------------------------------------------------------------
(* Types *)

\* The records every idle task is reset to are well typed.
LEMMA IdleTypes ==
    /\ NoRow \in RowType
    /\ IdleTask \in TaskType
    /\ IdleSync \in SyncType /\ RestartedSync \in SyncType
    /\ IdleCloser \in CloserType
<1>1. NoRow \in RowType
  BY SomeEpic DEF NoRow, RowType, DealIds, Origins, Reasons
<1>2. IdleTask \in TaskType
  <2>1. 0 \in 0..(ConfirmAttempts - 1)
    BY BookAssumption
  <2>2. QED
    BY <2>1, SomeEpic, FirstRow DEF IdleTask, TaskType, DealIds
<1>3. IdleSync \in SyncType /\ RestartedSync \in SyncType
  BY DEF IdleSync, RestartedSync, SyncType, DealIds, Reasons
<1>4. IdleCloser \in CloserType
  BY DEF IdleCloser, CloserType, DealIds
<1>5. QED
  BY <1>1, <1>2, <1>3, <1>4

\* A row that takes a deal of its epic.
LEMMA BoundParts ==
    ASSUME NEW row \in RowType, NEW d
    PROVE  /\ Rebound(row, d).state = row.state /\ Rebound(row, d).epic = row.epic
           /\ Rebound(row, d).ref = row.ref /\ Rebound(row, d).reason = row.reason
           /\ Rebound(row, d).origin = row.origin
           /\ Rebound(row, d).unread = row.unread /\ Rebound(row, d).deal = d
           /\ DOMAIN Rebound(row, d) = DOMAIN row
           /\ d \in DealIds => Rebound(row, d) \in RowType
           /\ row.rebound => Rebound(row, d).rebound
           /\ row.deal \in {NoDeal, d} \/ Rebound(row, d).rebound
BY DEF Rebound, RowType

LEMMA TypeInit == Init => TypeOK
<1>1. [state |-> "unused", epic |-> AnyEpic] \in DealType
  BY SomeEpic DEF DealType
<1>2. QED
  BY <1>1, IdleTypes DEF Init, TypeOK

\* An opener's step keeps the types.
LEMMA TypeOpener ==
    ASSUME TypeOK, NEW o \in Openers, OpenerStep(o)
    PROVE  TypeOK'
<1>f. ASSUME Finish(o)
      PROVE  task' \in [Openers -> TaskType]
  BY <1>f, IdleTypes DEF Finish, TypeOK
<1>1. ASSUME NEW e \in Epics, PassGate(o, e)
      PROVE  TypeOK'
  <2>1. [IdleTask EXCEPT !.pc = "gated", !.epic = e] \in TaskType
    BY IdleTypes DEF TaskType
  <2>2. QED
    BY <1>1, <2>1 DEF PassGate, TypeOK
<1>2. CASE AbandonOpen(o)
  BY <1>2, <1>f DEF AbandonOpen, TypeOK
<1>3. ASSUME NEW d \in Deals, PostOrder(o, d)
      PROVE  TypeOK'
  <2>1. task' \in [Openers -> TaskType]
    BY <1>3 DEF PostOrder, TypeOK, TaskType, DealIds
  <2>2. ig' \in [Deals -> DealType]
    BY <1>3 DEF PostOrder, AcceptOrder, TypeOK, DealType, TaskType
  <2>3. QED
    BY <1>3, <2>1, <2>2 DEF PostOrder, TypeOK
<1>4. ASSUME NEW d \in Deals, PostOrderUnanswered(o, d)
      PROVE  TypeOK'
  <2>1. ig' \in [Deals -> DealType]
    BY <1>4 DEF PostOrderUnanswered, AcceptOrder, TypeOK, DealType, TaskType
  <2>2. QED
    BY <1>4, <1>f, <2>1 DEF PostOrderUnanswered, TypeOK
<1>5. CASE RecordRow(o)
  <2> DEFINE r == First(UnusedRows)
  <2>1. r \in Rows
    BY <1>5, FirstUnused DEF RecordRow
  <2>2. ProvisionalRow(task[o].epic, task[o].deal) \in RowType
    BY DEF ProvisionalRow, NoRow, RowType, TypeOK, TaskType, Origins, Reasons, DealIds
  <2>3. book' \in [Rows -> RowType]
    BY <1>5, <2>1, <2>2 DEF RecordRow, TypeOK
  <2>4. task' \in [Openers -> TaskType]
    BY <1>5, <2>1 DEF RecordRow, TypeOK, TaskType
  <2>5. QED
    BY <1>5, <2>3, <2>4 DEF RecordRow, TypeOK
<1>6. CASE ConfirmMissed(o)
  <2>1. CASE task[o].tries + 1 < ConfirmAttempts
    <3>1. task[o].tries \in 0..(ConfirmAttempts - 1)
      BY DEF TypeOK, TaskType
    <3>2. task[o].tries + 1 \in 0..(ConfirmAttempts - 1)
      BY <2>1, <3>1, BookAssumption
    <3>3. task' = [task EXCEPT ![o].tries = task[o].tries + 1]
      BY <1>6, <2>1 DEF ConfirmMissed
    <3>4. task' \in [Openers -> TaskType]
      BY <3>2, <3>3 DEF TypeOK, TaskType
    <3>5. QED
      BY <1>6, <3>4 DEF ConfirmMissed, TypeOK
  <2>2. CASE ~(task[o].tries + 1 < ConfirmAttempts)
    BY <1>6, <2>2, <1>f DEF ConfirmMissed, TypeOK
  <2>3. QED
    BY <2>1, <2>2
<1>7. CASE ConfirmAnswered(o)
  <2>1. PICK w \in {"accepted", "rejected"} :
          task' = [task EXCEPT ![o].pc = w]
    BY <1>7 DEF ConfirmAnswered
  <2>2. task' \in [Openers -> TaskType]
    BY <2>1 DEF TypeOK, TaskType
  <2>3. QED
    BY <1>7, <2>2 DEF ConfirmAnswered, TypeOK
<1>8. CASE BindDeal(o)
  <2>1. task[o].row \in Rows /\ task[o].deal \in DealIds
    BY DEF TypeOK, TaskType
  <2>2. Rebound(book[task[o].row], task[o].deal) \in RowType
    BY <2>1, BoundParts DEF TypeOK
  <2>3. book' \in [Rows -> RowType]
    BY <1>8, <2>1, <2>2 DEF BindDeal, TypeOK
  <2>4. QED
    BY <1>8, <1>f, <2>3 DEF BindDeal, TypeOK
<1>9. CASE DropRejected(o)
  <2>1. task[o] \in TaskType
    BY DEF TypeOK
  <2>2. [NoRow EXCEPT !.state = "deleted", !.epic = task[o].epic,
                      !.ref = task[o].deal] \in RowType
    BY <2>1, IdleTypes DEF RowType, TaskType
  <2>3. book' \in [Rows -> RowType]
    BY <1>9, <2>1, <2>2 DEF DropRejected, TypeOK
  <2>4. QED
    BY <1>9, <1>f, <2>3 DEF DropRejected, TypeOK
<1>10. QED
  BY <1>1, <1>2, <1>3, <1>4, <1>5, <1>6, <1>7, <1>8, <1>9 DEF OpenerStep

\* What the sync turns itself and the rows it writes into is well typed.
LEMMA SyncTypes ==
    ASSUME TypeOK, NEW r \in Rows
    PROVE  /\ Walked(r) \in SyncType
           /\ \A why \in Reasons : WrittenOff(r, why) \in SyncType
           /\ SyncedRow(r) \in RowType
           /\ \A d \in Deals : AdoptedRow(d) \in RowType
<1>1. sync \in SyncType
  BY DEF TypeOK
<1>2. Walked(r) \in SyncType
  BY <1>1 DEF Walked, SyncType, DealIds
<1>3. ASSUME NEW why \in Reasons
      PROVE  WrittenOff(r, why) \in SyncType
  BY <1>2 DEF WrittenOff, SyncType
<1>4. SyncedRow(r) \in RowType
  <2>1. book[r] \in RowType /\ sync.bound[r] \in DealIds
                            /\ sync.closed[r] \in Reasons
    BY <1>1 DEF TypeOK, SyncType
  <2>2. Rebound(book[r], sync.bound[r]) \in RowType
    BY <2>1, BoundParts
  <2>3. \A row \in RowType, why \in Reasons : ClosedRow(row, why) \in RowType
    BY DEF ClosedRow, RowType
  <2>4. QED
    BY <2>1, <2>2, <2>3 DEF SyncedRow
<1>5. ASSUME NEW d \in Deals
      PROVE  AdoptedRow(d) \in RowType
  BY DEF AdoptedRow, NoRow, RowType, TypeOK, DealType, DealIds, Origins, Reasons
<1>6. QED
  BY <1>2, <1>3, <1>4, <1>5

\* A step of the sync keeps the types.
LEMMA TypeSync ==
    ASSUME TypeOK, SyncStep
    PROVE  TypeOK'
<1>0. sync \in SyncType
  BY DEF TypeOK
<1>1. CASE SyncReadOpen
  <2>1. OpenRows \subseteq Rows
    BY DEF OpenRows
  <2>2. [r \in Rows |-> IF r \in OpenRows THEN book[r].deal ELSE NoDeal]
          \in [Rows -> DealIds]
    BY DEF TypeOK, RowType, DealIds
  <2>3. sync' \in SyncType
    BY <1>0, <1>1, <2>1, <2>2 DEF SyncReadOpen, SyncType
  <2>4. QED
    BY <1>1, <2>3 DEF SyncReadOpen, TypeOK
<1>2. CASE SyncReadKnown
  <2>1. sync' \in SyncType
    BY <1>0, <1>2 DEF SyncReadKnown, KnownDeals, SyncType
  <2>2. QED
    BY <1>2, <2>1 DEF SyncReadKnown, TypeOK
<1>3. CASE SyncList
  <2>1. sync' \in SyncType
    BY <1>0, <1>3 DEF SyncList, LiveDeals, SyncType
  <2>2. QED
    BY <1>3, <2>1 DEF SyncList, TypeOK
<1>4. CASE SyncListFails
  BY <1>4, IdleTypes DEF SyncListFails, TypeOK
<1>5. ASSUME NEW r \in Rows, SyncMatch(r)
      PROVE  TypeOK'
  <2>1. PICK d \in Candidates(r) :
          sync' = [Walked(r) EXCEPT !.free = @ \ {d},
                                    !.touched = @ \cup {r},
                                    !.bound[r] = IF d = sync.seen[r]
                                                 THEN NoDeal ELSE d]
    BY <1>5 DEF SyncMatch
  <2>2. d \in Deals
    BY <1>0, <2>1 DEF Candidates, SyncType
  <2>3. Walked(r) \in SyncType
    BY SyncTypes
  <2>4. [Walked(r).bound EXCEPT ![r] = IF d = sync.seen[r] THEN NoDeal ELSE d]
          \in [Rows -> DealIds]
    BY <2>2, <2>3 DEF SyncType, DealIds
  <2>5. sync' \in SyncType
    BY <2>1, <2>3, <2>4 DEF SyncType
  <2>6. QED
    BY <1>5, <2>5 DEF SyncMatch, TypeOK
<1>6. ASSUME NEW r \in Rows, SyncMiss(r)
      PROVE  TypeOK'
  <2>1. [sync EXCEPT !.pc = "probe", !.seen[r] = book[r].deal] \in SyncType
    BY <1>0 DEF SyncType, TypeOK, RowType
  <2>2. sync' \in SyncType
    BY <1>6, <2>1, SyncTypes DEF SyncMiss, Reasons
  <2>3. QED
    BY <1>6, <2>2 DEF SyncMiss, TypeOK
<1>7. ASSUME NEW r \in Rows, SyncProbe(r)
      PROVE  TypeOK'
  <2>1. sync' \in SyncType
    BY <1>7, SyncTypes DEF SyncProbe, Reasons
  <2>2. QED
    BY <1>7, <2>1 DEF SyncProbe, TypeOK
<1>8. CASE SyncCommit
  <2>1. ASSUME NEW f \in NewKeys(ToAdopt),
               book' = [r \in Rows |->
                          IF \E d \in ToAdopt : f[d] = r
                          THEN AdoptedRow(CHOOSE d \in ToAdopt : f[d] = r)
                          ELSE SyncedRow(r)]
        PROVE  book' \in [Rows -> RowType]
    <3>1. ToAdopt \subseteq Deals
      BY <1>0 DEF ToAdopt, SyncType
    <3>2. ASSUME NEW r \in Rows, \E d \in ToAdopt : f[d] = r
          PROVE  (CHOOSE d \in ToAdopt : f[d] = r) \in Deals
      BY <3>1, <3>2
    <3>3. QED
      BY <2>1, <3>2, SyncTypes
  <2>2. book' \in [Rows -> RowType]
    BY <1>8, <2>1 DEF SyncCommit, TypeOK
  <2>3. QED
    BY <1>8, <2>2, IdleTypes DEF SyncCommit, TypeOK
<1>9. QED
  BY <1>1, <1>2, <1>3, <1>4, <1>5, <1>6, <1>7, <1>8 DEF SyncStep

\* What a closer's commit makes of the row.
LEMMA CommitParts ==
    ASSUME NEW c, NEW r, CommitClose(c, r)
    PROVE  \E why \in Reasons, unread \in BOOLEAN :
             /\ why = IF closer[c].pc = "phantom" THEN "not_found_in_ig" ELSE CloseReason(c)
             /\ unread <=> closer[c].pc = "unread"
             /\ book' = [book EXCEPT ![r] = [ClosedRow(@, why) EXCEPT !.unread = unread]]
<1>1. PICK unread \in BOOLEAN : unread = (closer[c].pc = "unread")
  OBVIOUS
<1>2. PICK why : why = IF closer[c].pc = "phantom" THEN "not_found_in_ig" ELSE CloseReason(c)
  OBVIOUS
<1>3. why \in Reasons
  BY <1>2 DEF CloseReason, Reasons
<1>4. book' = [book EXCEPT ![r] = [ClosedRow(@, why) EXCEPT !.unread = unread]]
  BY <1>1, <1>2 DEF CommitClose
<1> QED
  BY <1>1, <1>2, <1>3, <1>4

\* A closer's step keeps the types.
LEMMA TypeCloser ==
    ASSUME TypeOK, NEW c \in Closers, CloserStep(c)
    PROVE  TypeOK'
<1>0. closer[c] \in CloserType
  BY DEF TypeOK
<1>g. ASSUME NEW where \in {"resolved", "verify", "confirm", "commit",
                            "unread", "phantom"},
             GoTo(c, where)
      PROVE  closer' \in [Closers -> CloserType]
  <2>1. [closer[c] EXCEPT !.pc = where] \in CloserType
    BY <1>0 DEF CloserType
  <2>2. QED
    BY <1>g, <2>1 DEF GoTo, TypeOK
<1>m. ASSUME NEW r \in Rows, MoveOn(c, r)
      PROVE  closer' \in [Closers -> CloserType]
  <2>1. [closer[c].seen EXCEPT ![r] = NoDeal] \in [Rows -> DealIds]
    BY <1>0 DEF CloserType, DealIds
  <2>2. PastRow(closer[c], r) \in CloserType
    BY <1>0, <2>1, IdleTypes DEF PastRow, CloserType
  <2>3. QED
    BY <1>m, <2>2 DEF MoveOn, TypeOK
<1>1. CASE BeginPass(c)
  <2>1. ASSUME NEW T \in SUBSET Rows
        PROVE  Snapshot(T) \in CloserType
    <3>1. [r \in Rows |-> IF r \in T THEN book[r].deal ELSE NoDeal]
            \in [Rows -> DealIds]
      BY DEF TypeOK, RowType, DealIds
    <3>2. QED
      BY <3>1, IdleTypes DEF Snapshot, CloserType
  <2>2. OpenRows \in SUBSET Rows /\ \A r \in OpenRows : {r} \in SUBSET Rows
    BY DEF OpenRows
  <2>3. closer' \in [Closers -> CloserType]
    BY <1>1, <2>1, <2>2 DEF BeginPass, TypeOK
  <2>4. QED
    BY <1>1, <2>3 DEF BeginPass, TypeOK
<1>2. ASSUME NEW r \in Rows, HoldRow(c, r)
      PROVE  TypeOK'
  BY <1>2, <1>m DEF HoldRow, TypeOK
<1>3. ASSUME NEW r \in Rows, ResolveDeal(c, r)
      PROVE  TypeOK'
  <2>1. CASE GoTo(c, "phantom") /\ UNCHANGED book
    BY <1>3, <2>1, <1>g DEF ResolveDeal, TypeOK
  <2>2. ASSUME NEW d \in LiveDeals,
               closer' = [closer EXCEPT ![c].pc = "resolved",
                                        ![c].seen[r] = d],
               book' = [book EXCEPT ![r] = Rebound(@, d)]
        PROVE  TypeOK'
    <3>1. d \in DealIds
      BY DEF LiveDeals, DealIds
    <3>2. Rebound(book[r], d) \in RowType
      BY <3>1, BoundParts DEF TypeOK
    <3>3. [closer[c].seen EXCEPT ![r] = d] \in [Rows -> DealIds]
      BY <1>0, <3>1 DEF CloserType
    <3>4. [closer[c] EXCEPT !.pc = "resolved", !.seen[r] = d] \in CloserType
      BY <1>0, <3>3 DEF CloserType
    <3>5. book' \in [Rows -> RowType] /\ closer' \in [Closers -> CloserType]
      BY <2>2, <3>2, <3>4 DEF TypeOK
    <3>6. QED
      BY <1>3, <3>5 DEF ResolveDeal, TypeOK
  <2>3. QED
    BY <1>3, <2>1, <2>2 DEF ResolveDeal
<1>4. ASSUME NEW r \in Rows, SendClose(c, r)
      PROVE  TypeOK'
  <2> DEFINE d == closer[c].seen[r]
  <2>1. closer' \in [Closers -> CloserType]
    <3>1. [closer[c] EXCEPT !.pc = "confirm", !.refused = TRUE] \in CloserType
      BY <1>0 DEF CloserType
    <3>2. [closer EXCEPT ![c].pc = "confirm", ![c].refused = TRUE]
            = [closer EXCEPT ![c] = [closer[c] EXCEPT !.pc = "confirm",
                                                      !.refused = TRUE]]
      BY DEF TypeOK
    <3>3. \/ GoTo(c, "confirm") \/ GoTo(c, "verify") \/ MoveOn(c, r)
          \/ closer' = [closer EXCEPT ![c].pc = "confirm",
                                      ![c].refused = TRUE]
      BY <1>4 DEF SendClose
    <3>4. QED
      BY <3>1, <3>2, <3>3, <1>g, <1>m DEF TypeOK
  <2>2. [ig EXCEPT ![d].state = "closed"] \in [Deals -> DealType]
    BY DEF TypeOK, DealType
  <2>3. [ig EXCEPT ![d].state = IF @ = "live" THEN "closed" ELSE @]
          \in [Deals -> DealType]
    BY DEF TypeOK, DealType
  <2>4. ig \in [Deals -> DealType]
    BY DEF TypeOK
  <2>5. ig' \in [Deals -> DealType]
    BY <1>4, <2>2, <2>3, <2>4 DEF SendClose
  <2>6. QED
    BY <1>4, <2>1, <2>5 DEF SendClose, TypeOK
<1>5. ASSUME NEW r \in Rows, VerifyGone(c, r)
      PROVE  TypeOK'
  BY <1>5, <1>g, <1>m DEF VerifyGone, TypeOK
<1>6. ASSUME NEW r \in Rows, ConfirmClose(c, r)
      PROVE  TypeOK'
  BY <1>6, <1>g, <1>m DEF ConfirmClose, TypeOK
<1>7. ASSUME NEW r \in Rows, CommitClose(c, r)
      PROVE  TypeOK'
  <2>1. PICK why \in Reasons, unread \in BOOLEAN :
          book' = [book EXCEPT ![r] = [ClosedRow(@, why) EXCEPT !.unread = unread]]
    BY <1>7, CommitParts
  <2>2. [ClosedRow(book[r], why) EXCEPT !.unread = unread] \in RowType
    BY DEF ClosedRow, TypeOK, RowType
  <2>3. book' \in [Rows -> RowType]
    BY <2>1, <2>2 DEF TypeOK
  <2>4. QED
    BY <1>7, <2>3, <1>m DEF CommitClose, TypeOK
<1>8. ASSUME NEW r \in Rows, PassBreaks(c, r)
      PROVE  TypeOK'
  BY <1>8, IdleTypes DEF PassBreaks, TypeOK
<1>9. QED
  BY <1>1, <1>2, <1>3, <1>4, <1>5, <1>6, <1>7, <1>8 DEF CloserStep, CloserWork

\* What IG, the user, the clock and a crash do keeps the types.
LEMMA TypeWorld ==
    ASSUME TypeOK, WorldStep
    PROVE  TypeOK'
<1>1. ASSUME NEW d \in Deals, SettleOrder(d)
      PROVE  TypeOK'
  BY <1>1 DEF SettleOrder, TypeOK, DealType
<1>2. ASSUME NEW d \in Deals, StopOut(d)
      PROVE  TypeOK'
  BY <1>2 DEF StopOut, TypeOK, DealType
<1>3. ASSUME NEW d \in Deals, NEW e \in Epics, OpenAtBroker(d, e)
      PROVE  TypeOK'
  <2>1. ig' \in [Deals -> DealType]
    BY <1>3 DEF OpenAtBroker, TypeOK, DealType
  <2>2. QED
    BY <1>3, <2>1 DEF OpenAtBroker, TypeOK
<1>4. ASSUME NEW r \in Rows, GraceEnds(r)
      PROVE  TypeOK'
  <2>1. [book[r] EXCEPT !.fresh = FALSE] \in RowType
    BY DEF TypeOK, RowType
  <2>2. book' \in [Rows -> RowType]
    BY <1>4, <2>1 DEF GraceEnds, TypeOK
  <2>3. QED
    BY <1>4, <2>2 DEF GraceEnds, TypeOK
<1>5. CASE Crash
  BY <1>5, IdleTypes DEF Crash, TypeOK
<1>6. QED
  BY <1>1, <1>2, <1>3, <1>4, <1>5 DEF WorldStep

\* Every reachable state is well typed; an opener polls the confirmation of
\* its order at most ConfirmAttempts times.
THEOREM TypeCorrect == Spec => []TypeOK
<1>1. TypeOK /\ [Next]_vars => TypeOK'
  <2> SUFFICES ASSUME TypeOK, [Next]_vars PROVE TypeOK'
    OBVIOUS
  <2>1. CASE UNCHANGED vars
    BY <2>1 DEF vars, TypeOK
  <2>2. CASE Next
    BY <2>2, TypeOpener, TypeSync, TypeCloser, TypeWorld DEF Next
  <2>3. QED
    BY <2>1, <2>2
<1>2. QED
  BY <1>1, TypeInit, PTL DEF Spec

-----------------------------------------------------------------------------
(* One open row of the bot's own per epic *)

\* The row counts for OneOwnRowPerEpic.
OwnOpen(row) == row.state = "OPEN" /\ row.origin = "own"

\* The tasks that passed the gate and have not written their row.
Entering(o) == task[o].pc \in {"gated", "placed"}

\* Two opens in progress are on two epics: the lock is exclusive.
LockInv ==
    \A o, p \in Openers :
        /\ task[o].pc # "idle" /\ task[p].pc # "idle"
        /\ task[o].epic = task[p].epic
        => o = p

\* What the gate checked still holds when the row is written: nobody else can
\* have written an own row on the epic since.
GateInv ==
    \A o \in Openers, r \in Rows :
        Entering(o) /\ OwnOpen(book[r]) => book[r].epic # task[o].epic

RowInv ==
    \A r, q \in Rows :
        /\ OwnOpen(book[r]) /\ OwnOpen(book[q])
        /\ book[r].epic = book[q].epic
        => r = q

LockIInv == LockInv /\ GateInv /\ RowInv

\* A step that opens no own row.
NoNewOwnRow ==
    \A r \in Rows : OwnOpen(book'[r]) =>
        OwnOpen(book[r]) /\ book'[r].epic = book[r].epic

\* A step that starts no open and takes none back to its gate.
NoNewOpen ==
    \A o \in Openers : task'[o].pc # "idle" =>
        /\ task[o].pc # "idle" /\ task'[o].epic = task[o].epic
        /\ Entering(o)' => Entering(o)

\* Such a step cannot break the invariant.
LEMMA LockFrame ==
    ASSUME LockIInv, NoNewOwnRow, NoNewOpen
    PROVE  LockIInv'
<1>1. LockInv'
  BY DEF LockIInv, LockInv, NoNewOpen
<1>2. GateInv'
  <2> SUFFICES ASSUME NEW o \in Openers, NEW r \in Rows,
                      Entering(o)', OwnOpen(book'[r])
               PROVE  book'[r].epic # task'[o].epic
    BY DEF GateInv
  <2>1. task'[o].pc # "idle"
    BY DEF Entering
  <2>2. Entering(o) /\ task'[o].epic = task[o].epic
    BY <2>1 DEF NoNewOpen
  <2>3. OwnOpen(book[r]) /\ book'[r].epic = book[r].epic
    BY DEF NoNewOwnRow
  <2>4. QED
    BY <2>2, <2>3 DEF LockIInv, GateInv
<1>3. RowInv'
  BY DEF LockIInv, RowInv, NoNewOwnRow
<1>4. QED
  BY <1>1, <1>2, <1>3 DEF LockIInv

LEMMA LockInit == Init => LockIInv
<1> SUFFICES ASSUME Init PROVE LockIInv
  OBVIOUS
<1>1. \A r \in Rows : ~OwnOpen(book[r])
  BY DEF Init, OwnOpen, NoRow
<1>2. \A o \in Openers : task[o].pc = "idle"
  BY DEF Init, IdleTask
<1>3. QED
  BY <1>1, <1>2 DEF LockIInv, LockInv, GateInv, RowInv, Entering

\* The gate: the epic is locked by nobody and has no OPEN row at all.
LEMMA LockPassGate ==
    ASSUME TypeOK, LockIInv, NEW o \in Openers, NEW e \in Epics, PassGate(o, e)
    PROVE  LockIInv'
<1>1. /\ task'[o].epic = e /\ task'[o].pc = "gated"
      /\ \A p \in Openers : p # o => task'[p] = task[p]
  BY DEF PassGate, TypeOK, IdleTask
<1>2. \A p \in Openers : task[p].pc # "idle" => task[p].epic # e
  BY DEF PassGate, EpicLocked
<1>3. \A r \in Rows : OwnOpen(book[r]) => book[r].epic # e
  BY DEF PassGate, EpicOpen, OpenRows, OwnOpen
<1>4. book' = book
  BY DEF PassGate
<1>5. LockInv'
  BY <1>1, <1>2 DEF LockIInv, LockInv
<1>6. GateInv'
  BY <1>1, <1>3, <1>4 DEF LockIInv, GateInv, Entering, OwnOpen
<1>7. RowInv'
  BY <1>4 DEF LockIInv, RowInv, OwnOpen
<1>8. QED
  BY <1>5, <1>6, <1>7 DEF LockIInv

\* The row is written on an epic that has no own row and no other open.
LEMMA LockRecordRow ==
    ASSUME TypeOK, LockIInv, NEW o \in Openers, RecordRow(o)
    PROVE  LockIInv'
<1> DEFINE new == First(UnusedRows)
           e == task[o].epic
<1>1. new \in Rows
  BY FirstUnused DEF RecordRow
<1>2. task[o].pc = "placed"
  BY DEF RecordRow
<1>3. /\ task'[o].pc = "confirming" /\ task'[o].epic = e
      /\ \A p \in Openers : p # o => task'[p] = task[p]
  BY DEF RecordRow, TypeOK, TaskType
<1>4. /\ book'[new].epic = e
      /\ \A r \in Rows : r # new => book'[r] = book[r]
  BY <1>1 DEF RecordRow, ProvisionalRow, TypeOK
<1>5. \A r \in Rows : OwnOpen(book[r]) => book[r].epic # e
  BY <1>2 DEF LockIInv, GateInv, Entering
<1>6. \A p \in Openers : p # o /\ task[p].pc # "idle" => task[p].epic # e
  BY <1>2 DEF LockIInv, LockInv
<1>7. LockInv'
  BY <1>2, <1>3 DEF LockIInv, LockInv
<1>8. GateInv'
  <2> SUFFICES ASSUME NEW p \in Openers, NEW r \in Rows,
                      Entering(p)', OwnOpen(book'[r])
               PROVE  book'[r].epic # task'[p].epic
    BY DEF GateInv
  <2>1. p # o /\ task'[p] = task[p]
    BY <1>3 DEF Entering
  <2>2. Entering(p) /\ task[p].pc # "idle"
    BY <2>1 DEF Entering
  <2>3. CASE r = new
    BY <2>1, <2>2, <2>3, <1>4, <1>6
  <2>4. CASE r # new
    BY <2>1, <2>2, <2>4, <1>4 DEF LockIInv, GateInv
  <2>5. QED
    BY <2>3, <2>4
<1>9. RowInv'
  <2> SUFFICES ASSUME NEW r \in Rows, NEW q \in Rows,
                      OwnOpen(book'[r]), OwnOpen(book'[q]),
                      book'[r].epic = book'[q].epic, r # q
               PROVE  FALSE
    BY DEF RowInv, OwnOpen
  <2>1. CASE r # new /\ q # new
    BY <2>1, <1>4 DEF LockIInv, RowInv, OwnOpen
  <2>2. CASE r = new
    BY <2>2, <1>4, <1>5
  <2>3. CASE q = new
    BY <2>3, <1>4, <1>5
  <2>4. QED
    BY <2>1, <2>2, <2>3
<1>10. QED
  BY <1>7, <1>8, <1>9 DEF LockIInv

\* After its gate an opener moves on or lets go of the lock.
LEMMA LockOpener ==
    ASSUME TypeOK, LockIInv, NEW o \in Openers, OpenerStep(o)
    PROVE  LockIInv'
<1>b. book' = book => NoNewOwnRow
  BY DEF NoNewOwnRow, OwnOpen
<1>f. Finish(o) => NoNewOpen
  BY DEF Finish, NoNewOpen, TypeOK, IdleTask, Entering
<1>1. ASSUME NEW e \in Epics, PassGate(o, e)
      PROVE  LockIInv'
  BY <1>1, LockPassGate
<1>2. CASE AbandonOpen(o)
  BY <1>2, <1>b, <1>f, LockFrame DEF AbandonOpen
<1>3. ASSUME NEW d \in Deals, PostOrder(o, d)
      PROVE  LockIInv'
  <2>1. NoNewOpen
    BY <1>3 DEF PostOrder, NoNewOpen, TypeOK, TaskType, Entering
  <2>2. QED
    BY <1>3, <1>b, <2>1, LockFrame DEF PostOrder
<1>4. ASSUME NEW d \in Deals, PostOrderUnanswered(o, d)
      PROVE  LockIInv'
  BY <1>4, <1>b, <1>f, LockFrame DEF PostOrderUnanswered
<1>5. CASE RecordRow(o)
  BY <1>5, LockRecordRow
<1>6. CASE ConfirmMissed(o)
  <2>1. NoNewOpen
    BY <1>6, <1>f DEF ConfirmMissed, NoNewOpen, TypeOK, TaskType, Entering
  <2>2. QED
    BY <1>6, <1>b, <2>1, LockFrame DEF ConfirmMissed
<1>7. CASE ConfirmAnswered(o)
  <2>1. NoNewOpen
    BY <1>7 DEF ConfirmAnswered, NoNewOpen, TypeOK, TaskType, Entering
  <2>2. QED
    BY <1>7, <1>b, <2>1, LockFrame DEF ConfirmAnswered
<1>8. CASE BindDeal(o)
  <2>0. task[o].row \in Rows /\ book[task[o].row] \in RowType
    BY DEF TypeOK, TaskType
  <2>1. NoNewOwnRow
    BY <1>8, <2>0, BoundParts DEF BindDeal, NoNewOwnRow, OwnOpen, TypeOK
  <2>2. QED
    BY <1>8, <1>f, <2>1, LockFrame DEF BindDeal
<1>9. CASE DropRejected(o)
  <2>1. task[o].row \in Rows
    BY DEF TypeOK, TaskType
  <2>2. book'[task[o].row].state = "deleted"
    BY <1>9, <2>1 DEF DropRejected, NoRow, TypeOK
  <2>3. \A r \in Rows : r # task[o].row => book'[r] = book[r]
    BY <1>9, <2>1 DEF DropRejected, TypeOK
  <2>4. NoNewOwnRow
    BY <2>2, <2>3 DEF NoNewOwnRow, OwnOpen
  <2>5. QED
    BY <1>9, <1>f, <2>4, LockFrame DEF DropRejected
<1>10. QED
  BY <1>1, <1>2, <1>3, <1>4, <1>5, <1>6, <1>7, <1>8, <1>9 DEF OpenerStep

\* The sync's commit binds, closes and adopts; it opens no own row.
LEMMA SyncCommitRows ==
    ASSUME TypeOK, SyncCommit
    PROVE  \A r \in Rows : \/ book'[r] = SyncedRow(r)
                           \/ book'[r] = book[r]
                           \/ book'[r].origin = "adopted"
                              /\ book'[r].state = "OPEN"
<1> SUFFICES ASSUME NEW r \in Rows
             PROVE  \/ book'[r] = SyncedRow(r)
                    \/ book'[r] = book[r]
                    \/ book'[r].origin = "adopted" /\ book'[r].state = "OPEN"
  OBVIOUS
<1>1. CASE UNCHANGED book
  BY <1>1
<1>2. ASSUME NEW f \in NewKeys(ToAdopt),
             book' = [q \in Rows |->
                        IF \E d \in ToAdopt : f[d] = q
                        THEN AdoptedRow(CHOOSE d \in ToAdopt : f[d] = q)
                        ELSE SyncedRow(q)]
      PROVE  \/ book'[r] = SyncedRow(r)
             \/ book'[r].origin = "adopted" /\ book'[r].state = "OPEN"
  BY <1>2 DEF AdoptedRow, NoRow
<1>3. QED
  BY <1>1, <1>2 DEF SyncCommit

LEMMA SyncedRowKeeps ==
    ASSUME TypeOK, NEW r \in Rows
    PROVE  /\ SyncedRow(r).origin = book[r].origin
           /\ SyncedRow(r).epic = book[r].epic
           /\ SyncedRow(r).ref = book[r].ref
           /\ SyncedRow(r).state \in {book[r].state, "CLOSE"}
<1>1. PICK row : row = IF sync.bound[r] # NoDeal THEN Rebound(book[r], sync.bound[r])
                       ELSE book[r]
  OBVIOUS
<1>2. book[r] \in RowType /\ DOMAIN row = DOMAIN book[r]
  BY <1>1, BoundParts DEF TypeOK
<1>3. /\ row.origin = book[r].origin /\ row.epic = book[r].epic
      /\ row.ref = book[r].ref /\ row.state = book[r].state
  BY <1>1, <1>2, BoundParts
<1>4. SyncedRow(r) = IF sync.closed[r] # "" THEN ClosedRow(row, sync.closed[r]) ELSE row
  BY <1>1 DEF SyncedRow
<1> QED
  BY <1>2, <1>3, <1>4 DEF ClosedRow, RowType

LEMMA LockSync ==
    ASSUME TypeOK, LockIInv, SyncStep
    PROVE  LockIInv'
<1>1. NoNewOpen
  <2>1. task' = task
    BY DEF SyncStep, SyncReadOpen, SyncReadKnown, SyncList, SyncListFails,
           SyncMatch, SyncMiss, SyncProbe, SyncCommit
  <2>2. QED
    BY <2>1 DEF NoNewOpen, Entering
<1>2. NoNewOwnRow
  <2>1. CASE SyncCommit
    BY <2>1, SyncCommitRows, SyncedRowKeeps DEF NoNewOwnRow, OwnOpen
  <2>2. CASE book' = book
    BY <2>2 DEF NoNewOwnRow, OwnOpen
  <2>3. QED
    BY <2>1, <2>2
       DEF SyncStep, SyncReadOpen, SyncReadKnown, SyncList, SyncListFails,
           SyncMatch, SyncMiss, SyncProbe
<1>3. QED
  BY <1>1, <1>2, LockFrame

\* A closer binds a dealId or closes rows.
LEMMA CloserRows ==
    ASSUME TypeOK, NEW c \in Closers, CloserStep(c)
    PROVE  /\ task' = task
           /\ \A r \in Rows : /\ book'[r].origin = book[r].origin
                              /\ book'[r].epic = book[r].epic
                              /\ book'[r].ref = book[r].ref
                              /\ book'[r].state \in {book[r].state, "CLOSE"}
<1>1. task' = task
  BY DEF CloserStep, CloserWork, BeginPass, HoldRow, ResolveDeal, SendClose,
         VerifyGone, ConfirmClose, CommitClose, PassBreaks
<1>2. ASSUME NEW r \in Rows, ResolveDeal(c, r)
      PROVE  \A q \in Rows : /\ book'[q].origin = book[q].origin
                             /\ book'[q].epic = book[q].epic
                             /\ book'[q].ref = book[q].ref
                             /\ book'[q].state = book[q].state
  <2>1. \/ book' = book
        \/ \E d \in LiveDeals : book' = [book EXCEPT ![r] = Rebound(@, d)]
    BY <1>2 DEF ResolveDeal
  <2>2. QED
    BY <2>1, BoundParts DEF TypeOK
<1>3. ASSUME NEW r \in Rows, CommitClose(c, r)
      PROVE  \A q \in Rows : /\ book'[q].origin = book[q].origin
                             /\ book'[q].epic = book[q].epic
                             /\ book'[q].ref = book[q].ref
                             /\ book'[q].state \in {book[q].state, "CLOSE"}
  <2>1. PICK why, unread : book' = [book EXCEPT ![r] = [ClosedRow(@, why) EXCEPT !.unread = unread]]
    BY <1>3, CommitParts
  <2>2. QED
    BY <2>1 DEF TypeOK, RowType, ClosedRow
<1>4. CASE book' = book
  BY <1>1, <1>4
<1>5. QED
  BY <1>1, <1>2, <1>3, <1>4
     DEF CloserStep, CloserWork, BeginPass, HoldRow, SendClose, VerifyGone,
         ConfirmClose, PassBreaks

LEMMA LockCloser ==
    ASSUME TypeOK, LockIInv, NEW c \in Closers, CloserStep(c)
    PROVE  LockIInv'
<1>1. NoNewOpen
  BY CloserRows DEF NoNewOpen, Entering
<1>2. NoNewOwnRow
  BY CloserRows DEF NoNewOwnRow, OwnOpen
<1>3. QED
  BY <1>1, <1>2, LockFrame

LEMMA LockWorld ==
    ASSUME TypeOK, LockIInv, WorldStep
    PROVE  LockIInv'
<1>1. NoNewOpen
  <2>1. CASE task' = task
    BY <2>1 DEF NoNewOpen, Entering
  <2>2. CASE Crash
    BY <2>2 DEF Crash, NoNewOpen, IdleTask
  <2>3. QED
    BY <2>1, <2>2 DEF WorldStep, SettleOrder, StopOut, OpenAtBroker, GraceEnds
<1>2. NoNewOwnRow
  <2>1. ASSUME NEW r \in Rows, GraceEnds(r)
        PROVE  NoNewOwnRow
    BY <2>1 DEF GraceEnds, NoNewOwnRow, OwnOpen, TypeOK, RowType
  <2>2. CASE book' = book
    BY <2>2 DEF NoNewOwnRow, OwnOpen
  <2>3. QED
    BY <2>1, <2>2 DEF WorldStep, SettleOrder, StopOut, OpenAtBroker, Crash
<1>3. QED
  BY <1>1, <1>2, LockFrame

\* open_epic_guarded: the bot never holds two open rows of its own on an epic,
\* whatever the sync, the closers, IG and crashes do.
THEOREM OneOwnRow == Spec => []OneOwnRowPerEpic
<1>1. TypeOK /\ LockIInv /\ [Next]_vars => LockIInv'
  <2> SUFFICES ASSUME TypeOK, LockIInv, [Next]_vars PROVE LockIInv'
    OBVIOUS
  <2>1. CASE UNCHANGED vars
    BY <2>1 DEF vars, LockIInv, LockInv, GateInv, RowInv, OwnOpen, Entering
  <2>2. CASE Next
    BY <2>2, LockOpener, LockSync, LockCloser, LockWorld DEF Next
  <2>3. QED
    BY <2>1, <2>2
<1>2. LockIInv => OneOwnRowPerEpic
  BY DEF LockIInv, RowInv, OwnOpen, OneOwnRowPerEpic, OpenRows
<1>3. QED
  BY <1>1, <1>2, LockInit, TypeCorrect, PTL DEF Spec

-----------------------------------------------------------------------------
(* Only a rejected order loses its row *)

\* An opener with an order at IG knows which.
OrderInv ==
    \A o \in Openers : task[o].pc \notin {"idle", "gated"}
                       => task[o].deal \in Deals

\* IG has rejected the order an opener is about to drop.
VerdictInv ==
    \A o \in Openers : task[o].pc = "rejected"
                       => ig[task[o].deal].state = "rejected"

\* DropOnlyRejected, of a row whose dealReference names a deal.
DroppedInv ==
    \A r \in Rows : book[r].state = "deleted" =>
        /\ book[r].ref \in Deals
        /\ ig[book[r].ref].state = "rejected"

DropIInv == OrderInv /\ VerdictInv /\ DroppedInv

\* IG never takes a rejection back.
RejectionStands ==
    \A d \in Deals : ig[d].state = "rejected" => ig'[d].state = "rejected"

NoNewDrop ==
    \A r \in Rows : book'[r].state = "deleted" =>
        book[r].state = "deleted" /\ book'[r].ref = book[r].ref

\* No opener takes an order or reaches a verdict.
NoNewVerdict ==
    \A o \in Openers : task'[o].pc \notin {"idle", "gated"} =>
        /\ task[o].pc \notin {"idle", "gated"}
        /\ task'[o].deal = task[o].deal
        /\ task'[o].pc = "rejected" => task[o].pc = "rejected"

\* A step without a drop or a verdict keeps the invariant.
LEMMA DropFrame ==
    ASSUME DropIInv, RejectionStands, NoNewDrop, NoNewVerdict
    PROVE  DropIInv'
<1>1. OrderInv'
  BY DEF DropIInv, OrderInv, NoNewVerdict
<1>2. VerdictInv'
  <2> SUFFICES ASSUME NEW o \in Openers, task'[o].pc = "rejected"
               PROVE  ig'[task'[o].deal].state = "rejected"
    BY DEF VerdictInv
  <2>1. task[o].pc = "rejected" /\ task'[o].deal = task[o].deal
    BY DEF NoNewVerdict
  <2>2. task[o].deal \in Deals /\ ig[task[o].deal].state = "rejected"
    BY <2>1 DEF DropIInv, OrderInv, VerdictInv
  <2>3. QED
    BY <2>1, <2>2 DEF RejectionStands
<1>3. DroppedInv'
  BY DEF DropIInv, DroppedInv, NoNewDrop, RejectionStands
<1>4. QED
  BY <1>1, <1>2, <1>3 DEF DropIInv

LEMMA DropInit == Init => DropIInv
<1> SUFFICES ASSUME Init PROVE DropIInv
  OBVIOUS
<1>1. \A r \in Rows : book[r].state = "none"
  BY DEF Init, NoRow
<1>2. \A o \in Openers : task[o].pc = "idle"
  BY DEF Init, IdleTask
<1>3. QED
  BY <1>1, <1>2 DEF DropIInv, OrderInv, VerdictInv, DroppedInv

LEMMA DropOpener ==
    ASSUME TypeOK, DropIInv, NEW o \in Openers, OpenerStep(o)
    PROVE  DropIInv'
<1>b. book' = book => NoNewDrop
  BY DEF NoNewDrop
<1>i. ig' = ig => RejectionStands
  BY DEF RejectionStands
<1>f. Finish(o) => NoNewVerdict
  BY DEF Finish, NoNewVerdict, TypeOK, IdleTask
<1>a. ASSUME NEW d \in Deals, NEW e \in Epics, AcceptOrder(d, e)
      PROVE  RejectionStands
  BY <1>a DEF AcceptOrder, CanCreate, RejectionStands, TypeOK
<1>e. task[o].epic \in Epics
  BY DEF TypeOK, TaskType
<1>1. ASSUME NEW e \in Epics, PassGate(o, e)
      PROVE  DropIInv'
  <2>1. NoNewVerdict
    BY <1>1 DEF PassGate, NoNewVerdict, TypeOK, IdleTask
  <2>2. QED
    BY <1>1, <1>b, <1>i, <2>1, DropFrame DEF PassGate
<1>2. CASE AbandonOpen(o)
  BY <1>2, <1>b, <1>i, <1>f, DropFrame DEF AbandonOpen
<1>3. ASSUME NEW d \in Deals, PostOrder(o, d)
      PROVE  DropIInv'
  <2>1. RejectionStands
    BY <1>3, <1>a, <1>e DEF PostOrder
  <2>2. /\ task'[o].pc = "placed" /\ task'[o].deal = d
        /\ \A p \in Openers : p # o => task'[p] = task[p]
    BY <1>3 DEF PostOrder, TypeOK, TaskType
  <2>3. OrderInv'
    BY <2>2 DEF DropIInv, OrderInv
  <2>4. VerdictInv'
    <3> SUFFICES ASSUME NEW p \in Openers, task'[p].pc = "rejected"
                 PROVE  ig'[task'[p].deal].state = "rejected"
      BY DEF VerdictInv
    <3>1. task'[p] = task[p]
      BY <2>2
    <3>2. task[p].deal \in Deals /\ ig[task[p].deal].state = "rejected"
      BY <3>1 DEF DropIInv, OrderInv, VerdictInv
    <3>3. QED
      BY <2>1, <3>1, <3>2 DEF RejectionStands
  <2>5. DroppedInv'
    BY <1>3, <2>1 DEF PostOrder, DropIInv, DroppedInv, RejectionStands
  <2>6. QED
    BY <2>3, <2>4, <2>5 DEF DropIInv
<1>4. ASSUME NEW d \in Deals, PostOrderUnanswered(o, d)
      PROVE  DropIInv'
  BY <1>4, <1>a, <1>b, <1>e, <1>f, DropFrame DEF PostOrderUnanswered
<1>5. CASE RecordRow(o)
  <2> DEFINE new == First(UnusedRows)
  <2>1. new \in Rows
    BY <1>5, FirstUnused DEF RecordRow
  <2>2. book'[new].state = "OPEN" /\ \A r \in Rows : r # new => book'[r] = book[r]
    BY <1>5, <2>1 DEF RecordRow, ProvisionalRow, TypeOK
  <2>3. NoNewDrop
    BY <2>2 DEF NoNewDrop
  <2>4. NoNewVerdict
    BY <1>5 DEF RecordRow, NoNewVerdict, TypeOK, TaskType
  <2>5. QED
    BY <1>5, <1>i, <2>3, <2>4, DropFrame DEF RecordRow
<1>6. CASE ConfirmMissed(o)
  <2>1. NoNewVerdict
    BY <1>6, <1>f DEF ConfirmMissed, NoNewVerdict, TypeOK, TaskType
  <2>2. QED
    BY <1>6, <1>b, <1>i, <2>1, DropFrame DEF ConfirmMissed
<1>7. CASE ConfirmAnswered(o)
  <2>1. /\ task'[o].deal = task[o].deal
        /\ task[o].deal \in Deals
        /\ task'[o].pc = "rejected" => ig[task[o].deal].state = "rejected"
        /\ \A p \in Openers : p # o => task'[p] = task[p]
    BY <1>7 DEF ConfirmAnswered, TypeOK, TaskType, DropIInv, OrderInv
  <2>2. OrderInv'
    BY <2>1 DEF DropIInv, OrderInv
  <2>3. VerdictInv'
    BY <1>7, <2>1 DEF ConfirmAnswered, DropIInv, VerdictInv
  <2>4. DroppedInv'
    BY <1>7 DEF ConfirmAnswered, DropIInv, DroppedInv
  <2>5. QED
    BY <2>2, <2>3, <2>4 DEF DropIInv
<1>8. CASE BindDeal(o)
  <2>0. task[o].row \in Rows /\ book[task[o].row] \in RowType
    BY DEF TypeOK, TaskType
  <2>1. NoNewDrop
    BY <1>8, <2>0, BoundParts DEF BindDeal, NoNewDrop, TypeOK
  <2>2. QED
    BY <1>8, <1>f, <1>i, <2>1, DropFrame DEF BindDeal
<1>9. CASE DropRejected(o)
  <2>1. /\ task[o].row \in Rows /\ task[o].pc = "rejected"
        /\ task[o].deal \in Deals
    BY <1>9 DEF DropRejected, TypeOK, TaskType, DropIInv, OrderInv
  <2>2. ig[task[o].deal].state = "rejected"
    BY <2>1 DEF DropIInv, VerdictInv
  <2>3. /\ book'[task[o].row].ref = task[o].deal
        /\ \A r \in Rows : r # task[o].row => book'[r] = book[r]
    BY <1>9, <2>1 DEF DropRejected, NoRow, TypeOK
  <2>4. ig' = ig
    BY <1>9 DEF DropRejected
  <2>5. DroppedInv'
    BY <2>1, <2>2, <2>3, <2>4 DEF DropIInv, DroppedInv
  <2>6. NoNewVerdict
    BY <1>9, <1>f DEF DropRejected
  <2>7. OrderInv' /\ VerdictInv'
    BY <2>4, <2>6 DEF NoNewVerdict, DropIInv, OrderInv, VerdictInv
  <2>8. QED
    BY <2>5, <2>7 DEF DropIInv
<1>10. QED
  BY <1>1, <1>2, <1>3, <1>4, <1>5, <1>6, <1>7, <1>8, <1>9 DEF OpenerStep

LEMMA DropSync ==
    ASSUME TypeOK, DropIInv, SyncStep
    PROVE  DropIInv'
<1>1. ig' = ig /\ task' = task
  BY DEF SyncStep, SyncReadOpen, SyncReadKnown, SyncList, SyncListFails,
         SyncMatch, SyncMiss, SyncProbe, SyncCommit
<1>2. RejectionStands /\ NoNewVerdict
  BY <1>1 DEF RejectionStands, NoNewVerdict
<1>3. NoNewDrop
  <2>1. CASE SyncCommit
    BY <2>1, SyncCommitRows, SyncedRowKeeps DEF NoNewDrop
  <2>2. CASE book' = book
    BY <2>2 DEF NoNewDrop
  <2>3. QED
    BY <2>1, <2>2
       DEF SyncStep, SyncReadOpen, SyncReadKnown, SyncList, SyncListFails,
           SyncMatch, SyncMiss, SyncProbe
<1>4. QED
  BY <1>2, <1>3, DropFrame

LEMMA DropCloser ==
    ASSUME TypeOK, DropIInv, NEW c \in Closers, CloserStep(c)
    PROVE  DropIInv'
<1>1. NoNewVerdict /\ NoNewDrop
  BY CloserRows DEF NoNewVerdict, NoNewDrop
<1>2. RejectionStands
  <2>1. ASSUME NEW r \in Rows, SendClose(c, r)
        PROVE  RejectionStands
    <3>1. \/ ig' = ig
          \/ \E d : ig[d].state = "live" /\ ig' = [ig EXCEPT ![d].state = "closed"]
          \/ \E d : ig' = [ig EXCEPT ![d].state = IF @ = "live" THEN "closed" ELSE @]
      BY <2>1 DEF SendClose
    <3>2. QED
      BY <3>1 DEF RejectionStands, TypeOK, DealType
  <2>2. CASE ig' = ig
    BY <2>2 DEF RejectionStands
  <2>3. QED
    BY <2>1, <2>2
       DEF CloserStep, CloserWork, BeginPass, HoldRow, ResolveDeal, VerifyGone,
           ConfirmClose, CommitClose, PassBreaks
<1>3. QED
  BY <1>1, <1>2, DropFrame

LEMMA DropWorld ==
    ASSUME TypeOK, DropIInv, WorldStep
    PROVE  DropIInv'
<1>1. NoNewVerdict
  <2>1. CASE task' = task
    BY <2>1 DEF NoNewVerdict
  <2>2. CASE Crash
    BY <2>2 DEF Crash, NoNewVerdict, IdleTask
  <2>3. QED
    BY <2>1, <2>2 DEF WorldStep, SettleOrder, StopOut, OpenAtBroker, GraceEnds
<1>2. NoNewDrop
  <2>1. ASSUME NEW r \in Rows, GraceEnds(r)
        PROVE  NoNewDrop
    BY <2>1 DEF GraceEnds, NoNewDrop, TypeOK, RowType
  <2>2. CASE book' = book
    BY <2>2 DEF NoNewDrop
  <2>3. QED
    BY <2>1, <2>2 DEF WorldStep, SettleOrder, StopOut, OpenAtBroker, Crash
<1>3. RejectionStands
  <2>1. ASSUME NEW d \in Deals, SettleOrder(d)
        PROVE  RejectionStands
    BY <2>1 DEF SettleOrder, RejectionStands, TypeOK, DealType
  <2>2. ASSUME NEW d \in Deals, StopOut(d)
        PROVE  RejectionStands
    BY <2>2 DEF StopOut, RejectionStands, TypeOK, DealType
  <2>3. ASSUME NEW d \in Deals, NEW e \in Epics, OpenAtBroker(d, e)
        PROVE  RejectionStands
    BY <2>3 DEF OpenAtBroker, CanCreate, RejectionStands, TypeOK
  <2>4. CASE ig' = ig
    BY <2>4 DEF RejectionStands
  <2>5. QED
    BY <2>1, <2>2, <2>3, <2>4 DEF WorldStep, GraceEnds, Crash
<1>4. QED
  BY <1>1, <1>2, <1>3, DropFrame

\* open_position deletes a row only for an order IG rejected, never for one
\* that may still be filled.
THEOREM DropsOnlyRejected == Spec => []DropOnlyRejected
<1>1. TypeOK /\ DropIInv /\ [Next]_vars => DropIInv'
  <2> SUFFICES ASSUME TypeOK, DropIInv, [Next]_vars PROVE DropIInv'
    OBVIOUS
  <2>1. CASE UNCHANGED vars
    BY <2>1 DEF vars, DropIInv, OrderInv, VerdictInv, DroppedInv
  <2>2. CASE Next
    BY <2>2, DropOpener, DropSync, DropCloser, DropWorld DEF Next
  <2>3. QED
    BY <2>1, <2>2
<1>2. DropIInv => DropOnlyRejected
  BY DEF DropIInv, DroppedInv, DropOnlyRejected
<1>3. QED
  BY <1>1, <1>2, DropInit, TypeCorrect, PTL DEF Spec
-----------------------------------------------------------------------------
(* Deals and what their rows say of them *)

Used(d) == ig[d].state # "unused"
Sent(d, e) == d \in Deals /\ Used(d) /\ ig[d].epic = e
Filled(d, e) == d \in Deals /\ ig[d].state \in {"live", "closed"} /\ ig[d].epic = e

\* An opener's deal is its order, and its row is of the same epic.
TaskOk(o) ==
    /\ task[o].pc \notin {"idle", "gated"} => Sent(task[o].deal, task[o].epic)
    /\ task[o].pc = "accepted" => Filled(task[o].deal, task[o].epic)
    /\ task[o].pc \in {"confirming", "accepted", "rejected"} =>
         book[task[o].row].state # "none" /\ book[task[o].row].epic = task[o].epic

\* What a row refers to was an order or a fill on its epic; the two properties.
RowOk(r) ==
    /\ book[r].state # "none" => Sent(book[r].ref, book[r].epic)
    /\ book[r].deal # NoDeal => book[r].state # "none" /\ Filled(book[r].deal, book[r].epic)
    /\ book[r].state = "CLOSE" /\ book[r].reason = "closed_externally"
       => Gone(book[r].deal) \/ book[r].rebound
    /\ book[r].state = "CLOSE" /\ book[r].reason \in RealCloses
       => Gone(book[r].deal) \/ book[r].rebound \/ book[r].unread

\* A dealId someone remembers of row r is still the row's, unless the row was
\* handed another one.
Held(r, d) ==
    /\ book[r].state # "none" /\ Filled(d, book[r].epic)
    /\ book[r].state = "deleted" \/ book[r].deal = d \/ book[r].rebound

\* The row is over at IG, dropped, or no longer of the deal that was asked about.
Over(r) == book[r].state = "deleted" \/ Gone(book[r].deal) \/ book[r].rebound

SyncOk(r) ==
    /\ r \in sync.todo \cup sync.touched => book[r].state # "none"
    /\ sync.seen[r] # NoDeal => Held(r, sync.seen[r])
    /\ sync.bound[r] # NoDeal => book[r].state # "none" /\ Filled(sync.bound[r], book[r].epic)
    /\ sync.closed[r] \in {"", "never_opened", "closed_externally"}
    /\ sync.closed[r] # "" => r \in sync.touched
    /\ sync.closed[r] = "closed_externally" => Over(r)

SyncInv ==
    /\ \A d \in sync.free : Filled(d, ig[d].epic)
    /\ \A r \in Rows : SyncOk(r)
    /\ sync.pc = "probe" => sync.todo # {} /\ sync.seen[First(sync.todo)] # NoDeal

\* A closer's dealIds are still those of its rows; what it is about to commit
\* was carried out.
CloserRec(me) ==
    /\ \A r \in Rows : me.seen[r] # NoDeal => Held(r, me.seen[r])
    /\ \A r \in me.todo : book[r].state # "none"
    /\ me.pc # "idle" => me.todo # {}
    /\ me.pc \in {"resolved", "confirm", "commit", "unread"} => me.seen[First(me.todo)] # NoDeal
    /\ me.pc \in {"idle", "pass", "resolved"} => ~me.refused
    /\ me.pc = "commit" \/ (me.pc = "confirm" /\ ~me.refused) =>
         Gone(me.seen[First(me.todo)])

CloserOk(c) == CloserRec(closer[c])

TaskInv == \A o \in Openers : TaskOk(o)
RowsInv == \A r \in Rows : RowOk(r)
CloserInv == \A c \in Closers : CloserOk(c)

DealInv == TaskInv /\ RowsInv /\ SyncInv /\ CloserInv

-----------------------------------------------------------------------------
(* Frames *)

\* IG keeps what it has created and never reopens a deal.
IgSteady ==
    \A d \in Deals :
        /\ Used(d) => ig'[d].state # "unused" /\ ig'[d].epic = ig[d].epic
        /\ ig[d].state \in {"live", "closed"} => ig'[d].state \in {"live", "closed"}
        /\ ig[d].state = "closed" => ig'[d].state = "closed"

\* A row keeps its epic, and its dealId unless it is deleted or handed another.
RowSteady(r) ==
    /\ book[r].state # "none" => book'[r].state # "none" /\ book'[r].epic = book[r].epic
    /\ book[r].state = "deleted" => book'[r].state = "deleted"
    /\ book[r].state # "none" /\ book[r].rebound =>
         book'[r].state = "deleted" \/ book'[r].rebound
    /\ book[r].deal # NoDeal =>
         book'[r].state = "deleted" \/ book'[r].deal = book[r].deal \/ book'[r].rebound

BookSteady == \A r \in Rows : RowSteady(r)

LEMMA IgFrame ==
    ASSUME IgSteady
    PROVE  /\ \A d, e : Sent(d, e) => Sent(d, e)'
           /\ \A d, e : Filled(d, e) => Filled(d, e)'
           /\ \A d \in DealIds : Gone(d) => Gone(d)'
<1>1. \A d, e : Sent(d, e) => Sent(d, e)'
  BY DEF IgSteady, Sent, Used
<1>2. \A d, e : Filled(d, e) => Filled(d, e)'
  BY DEF IgSteady, Filled, Used
<1>3. \A d \in DealIds : Gone(d) => Gone(d)'
  BY DEF IgSteady, Gone, DealIds
<1> QED
  BY <1>1, <1>2, <1>3

LEMMA HeldFrame ==
    ASSUME IgSteady, NEW r, RowSteady(r), NEW d \in DealIds, Held(r, d)
    PROVE  Held(r, d)'
<1>1. Filled(d, book[r].epic) /\ book[r].state # "none" /\ d \in Deals
  BY DEF Held, Filled
<1>2. book'[r].epic = book[r].epic /\ book'[r].state # "none"
  BY <1>1 DEF RowSteady
<1>3. Filled(d, book[r].epic)'
  BY <1>1, <1>2, IgFrame DEF Filled
<1>4. book'[r].state = "deleted" \/ book'[r].deal = d \/ book'[r].rebound
  BY <1>1, BookAssumption DEF Held, RowSteady
<1> QED
  BY <1>2, <1>3, <1>4 DEF Held

LEMMA TaskFrame ==
    ASSUME TypeOK, IgSteady, BookSteady, NEW o \in Openers, TaskOk(o), task'[o] = task[o]
    PROVE  TaskOk(o)'
<1>1. task[o].row \in Rows
  BY DEF TypeOK, TaskType
<1>2. RowSteady(task[o].row)
  BY <1>1 DEF BookSteady
<1>3. task'[o].pc \notin {"idle", "gated"} => Sent(task[o].deal, task[o].epic)'
  BY IgFrame DEF TaskOk
<1>4. task'[o].pc = "accepted" => Filled(task[o].deal, task[o].epic)'
  BY IgFrame DEF TaskOk
<1> QED
  BY <1>2, <1>3, <1>4 DEF TaskOk, RowSteady, Sent, Used, Filled

LEMMA RowFrame ==
    ASSUME TypeOK, IgSteady, NEW r \in Rows, RowOk(r), book'[r] = book[r]
    PROVE  RowOk(r)'
<1>1. book[r].deal \in DealIds
  BY DEF TypeOK, RowType
<1>2. Gone(book[r].deal) => Gone(book[r].deal)'
  BY <1>1 DEF Gone, IgSteady, DealIds
<1>3. Sent(book[r].ref, book[r].epic) => Sent(book[r].ref, book[r].epic)'
  BY IgFrame DEF Sent, Used
<1>4. Filled(book[r].deal, book[r].epic) => Filled(book[r].deal, book[r].epic)'
  BY IgFrame DEF Filled
<1> QED
  <2>1. book[r].state # "none" => Sent(book[r].ref, book[r].epic)'
    BY <1>3 DEF RowOk
  <2>2. book[r].deal # NoDeal => book[r].state # "none" /\ Filled(book[r].deal, book[r].epic)'
    BY <1>4 DEF RowOk
  <2>3. book[r].state = "CLOSE" /\ book[r].reason = "closed_externally"
        => Gone(book[r].deal)' \/ book[r].rebound
    BY <1>2 DEF RowOk
  <2>4. book[r].state = "CLOSE" /\ book[r].reason \in RealCloses
        => Gone(book[r].deal)' \/ book[r].rebound \/ book[r].unread
    BY <1>2 DEF RowOk
  <2> QED
    BY <2>1, <2>2, <2>3, <2>4 DEF RowOk

LEMMA SyncFrame ==
    ASSUME TypeOK, IgSteady, BookSteady, SyncInv, sync' = sync
    PROVE  SyncInv'
<1>0. sync \in SyncType
  BY DEF TypeOK
<1>1. \A d \in sync.free : Filled(d, ig[d].epic)'
  <2> SUFFICES ASSUME NEW d \in sync.free PROVE Filled(d, ig[d].epic)'
    OBVIOUS
  <2>1. Filled(d, ig[d].epic) /\ d \in Deals
    BY DEF SyncInv, Filled
  <2> QED
    BY <2>1 DEF Filled, IgSteady
<1>2. ASSUME NEW r \in Rows
      PROVE  SyncOk(r)'
  <2>0. /\ RowSteady(r) /\ SyncOk(r) /\ sync.seen[r] \in DealIds
        /\ sync.bound[r] \in DealIds /\ book[r].deal \in DealIds
    BY <1>0 DEF BookSteady, SyncInv, SyncType, TypeOK, RowType
  <2>1. r \in sync.todo \cup sync.touched => book'[r].state # "none"
    BY <2>0 DEF SyncOk, RowSteady
  <2>2. sync.seen[r] # NoDeal => Held(r, sync.seen[r])'
    <3> SUFFICES ASSUME sync.seen[r] # NoDeal PROVE Held(r, sync.seen[r])'
      OBVIOUS
    <3>1. PICK d \in DealIds : d = sync.seen[r]
      BY <2>0
    <3>2. Held(r, d)
      BY <2>0, <3>1 DEF SyncOk
    <3>3. Held(r, d)'
      BY <2>0, <3>2, HeldFrame
    <3> QED
      BY <3>1, <3>3
  <2>3. sync.bound[r] # NoDeal =>
          book'[r].state # "none" /\ Filled(sync.bound[r], book[r].epic)'
    <3> SUFFICES ASSUME sync.bound[r] # NoDeal
                 PROVE  book'[r].state # "none" /\ Filled(sync.bound[r], book[r].epic)'
      OBVIOUS
    <3>1. book[r].state # "none" /\ Filled(sync.bound[r], book[r].epic)
      BY <2>0 DEF SyncOk
    <3>2. book'[r].state # "none" /\ book'[r].epic = book[r].epic
      BY <2>0, <3>1 DEF RowSteady
    <3> QED
      BY <3>1, <3>2 DEF Filled, IgSteady, Used
  <2>4. sync.closed[r] = "closed_externally" => Over(r)'
    BY <2>0 DEF SyncOk, Over, RowSteady, Gone, IgSteady, DealIds
  <2> QED
    BY <2>0, <2>1, <2>2, <2>3, <2>4 DEF SyncOk
<1> QED
  BY <1>1, <1>2 DEF SyncInv

LEMMA CloserFrame ==
    ASSUME TypeOK, IgSteady, BookSteady, NEW me \in CloserType, CloserRec(me)
    PROVE  CloserRec(me)'
<1>1. ASSUME NEW r \in Rows, me.seen[r] # NoDeal
      PROVE  Held(r, me.seen[r])'
  <2>1. PICK d \in DealIds : d = me.seen[r]
    BY DEF CloserType
  <2>2. Held(r, d) /\ RowSteady(r)
    BY <1>1, <2>1 DEF CloserRec, BookSteady
  <2>3. Held(r, d)'
    BY <2>2, HeldFrame
  <2> QED
    BY <2>1, <2>3
<1>2. \A r \in me.todo : book'[r].state # "none"
  BY DEF CloserRec, BookSteady, RowSteady, CloserType
<1>3. me.pc # "idle" => First(me.todo) \in Rows
  BY FirstIsMember, BookAssumption DEF CloserRec, CloserType
<1>4. me.pc # "idle" /\ Gone(me.seen[First(me.todo)]) => Gone(me.seen[First(me.todo)])'
  BY <1>3 DEF Gone, IgSteady, CloserType, DealIds
<1> QED
  BY <1>1, <1>2, <1>4 DEF CloserRec

-----------------------------------------------------------------------------
(* The deals *)

\* A new deal, or one that is settled or closed.
IgCreates ==
    \E d \in Deals, e \in Epics, s \in {"working", "live"} :
        CanCreate(d, e) /\ ig' = [ig EXCEPT ![d] = [state |-> s, epic |-> e]]

IgMoves ==
    \A d \in Deals :
        /\ ig'[d].epic = ig[d].epic
        /\ \/ ig'[d].state = ig[d].state
           \/ ig[d].state = "working" /\ ig'[d].state \in {"live", "rejected"}
           \/ ig[d].state = "live" /\ ig'[d].state = "closed"

LEMMA IgStep == TypeOK /\ [Next]_vars => IgCreates \/ IgMoves
<1> SUFFICES ASSUME TypeOK, [Next]_vars PROVE IgCreates \/ IgMoves
  OBVIOUS
<1>1. CASE ig' = ig
  BY <1>1 DEF IgMoves
<1>2. ASSUME NEW o \in Openers, NEW d \in Deals, PostOrder(o, d) \/ PostOrderUnanswered(o, d)
      PROVE  IgCreates
  <2>1. task[o].epic \in Epics
    BY DEF TypeOK, TaskType
  <2> QED
    BY <1>2, <2>1 DEF PostOrder, PostOrderUnanswered, AcceptOrder, IgCreates
<1>3. ASSUME NEW c \in Closers, NEW r \in Rows, SendClose(c, r)
      PROVE  IgMoves
  <2>1. \/ ig' = ig
        \/ \E d : ig[d].state = "live" /\ ig' = [ig EXCEPT ![d].state = "closed"]
        \/ \E d : ig' = [ig EXCEPT ![d].state = IF @ = "live" THEN "closed" ELSE @]
    BY <1>3 DEF SendClose
  <2> QED
    BY <2>1 DEF TypeOK, DealType, IgMoves
<1>4. ASSUME NEW d \in Deals, SettleOrder(d) \/ StopOut(d)
      PROVE  IgMoves
  BY <1>4 DEF SettleOrder, StopOut, TypeOK, DealType, IgMoves
<1>5. ASSUME NEW d \in Deals, NEW e \in Epics, OpenAtBroker(d, e)
      PROVE  IgCreates
  BY <1>5 DEF OpenAtBroker, IgCreates
<1>6. ASSUME NEW o \in Openers, OpenerStep(o)
      PROVE  IgCreates \/ IgMoves
  BY <1>1, <1>2, <1>6
     DEF OpenerStep, PassGate, AbandonOpen, RecordRow, ConfirmMissed, ConfirmAnswered,
         BindDeal, DropRejected
<1>7. SyncStep => ig' = ig
  BY DEF SyncStep, SyncReadOpen, SyncReadKnown, SyncList, SyncListFails, SyncMatch,
         SyncMiss, SyncProbe, SyncCommit
<1>8. ASSUME NEW c \in Closers, CloserStep(c)
      PROVE  IgCreates \/ IgMoves
  BY <1>1, <1>3, <1>8
     DEF CloserStep, CloserWork, BeginPass, HoldRow, ResolveDeal, VerifyGone,
         ConfirmClose, CommitClose, PassBreaks
<1>9. CASE WorldStep
  BY <1>1, <1>4, <1>5, <1>9 DEF WorldStep, GraceEnds, Crash
<1> QED
  BY <1>1, <1>6, <1>7, <1>8, <1>9 DEF Next, vars

LEMMA IgKeeps == TypeOK /\ [Next]_vars => IgSteady
<1> SUFFICES ASSUME TypeOK, [Next]_vars PROVE IgSteady
  OBVIOUS
<1>1. CASE IgMoves
  BY <1>1 DEF IgMoves, IgSteady, Used
<1>2. CASE IgCreates
  BY <1>2 DEF IgCreates, CanCreate, IgSteady, Used, TypeOK, DealType
<1> QED
  BY <1>1, <1>2, IgStep

-----------------------------------------------------------------------------
(* The openers *)

LEMMA BookSame ==
    ASSUME TypeOK, IgSteady, RowsInv, book' = book
    PROVE  BookSteady /\ RowsInv'
<1>1. BookSteady
  BY DEF BookSteady, RowSteady
<1> QED
  BY <1>1, RowFrame DEF RowsInv

\* Such a row keeps what its row promises.
LEMMA BoundRow ==
    ASSUME TypeOK, IgSteady, NEW r \in Rows, RowOk(r), NEW d \in Deals,
           book[r].state # "none", Filled(d, book[r].epic),
           book'[r] = Rebound(book[r], d)
    PROVE  RowSteady(r) /\ RowOk(r)'
<1>1. /\ book'[r].state = book[r].state /\ book'[r].epic = book[r].epic
      /\ book'[r].ref = book[r].ref /\ book'[r].reason = book[r].reason
      /\ book'[r].unread = book[r].unread
      /\ book'[r].deal = d /\ book[r].deal \in DealIds
      /\ book[r].rebound => book'[r].rebound
  BY BoundParts DEF TypeOK, RowType
<1>2. book[r].deal # NoDeal => book[r].deal = d \/ book'[r].rebound
  BY BoundParts DEF TypeOK
<1>3. RowSteady(r)
  BY <1>1, <1>2 DEF RowSteady
<1>4. Filled(d, book[r].epic)' /\ d # NoDeal
  <2>1. PICK e : e = book[r].epic
    OBVIOUS
  <2>2. Filled(d, e)'
    BY <2>1, IgFrame
  <2> QED
    BY <1>1, <2>1, <2>2, BookAssumption DEF Filled
<1>5. Sent(book[r].ref, book[r].epic)'
  BY <1>1 DEF RowOk, Sent, Used, IgSteady
<1>6. Gone(book[r].deal) => Gone(d)' \/ book'[r].rebound
  BY <1>1, <1>2 DEF Gone, IgSteady, DealIds
<1>7. book'[r].state = "CLOSE" /\ book'[r].reason = "closed_externally"
        => Gone(d)' \/ book'[r].rebound
  BY <1>1, <1>6 DEF RowOk
<1>8. book'[r].state = "CLOSE" /\ book'[r].reason \in RealCloses
        => Gone(d)' \/ book'[r].rebound \/ book'[r].unread
  BY <1>1, <1>6 DEF RowOk
<1> QED
  BY <1>1, <1>3, <1>4, <1>5, <1>7, <1>8 DEF RowOk, Gone

\* What a step of an opener is to establish.
OpenerKeeps(o) == BookSteady /\ RowsInv' /\ TaskOk(o)'

LEMMA OpenerDeals ==
    ASSUME TypeOK, DealInv, IgSteady, NEW o \in Openers, OpenerStep(o)
    PROVE  BookSteady /\ RowsInv' /\ TaskInv' /\ sync' = sync /\ closer' = closer
<1>0. task[o] \in TaskType /\ TaskOk(o) /\ RowsInv
  BY DEF DealInv, TaskInv, TypeOK
<1>1. sync' = sync /\ closer' = closer
  BY DEF OpenerStep, PassGate, AbandonOpen, PostOrder, PostOrderUnanswered, RecordRow,
         ConfirmMissed, ConfirmAnswered, BindDeal, DropRejected
<1>2. \A p \in Openers \ {o} : task'[p] = task[p]
  BY DEF OpenerStep, PassGate, AbandonOpen, PostOrder, PostOrderUnanswered, RecordRow,
         ConfirmMissed, ConfirmAnswered, BindDeal, DropRejected, Finish, TypeOK
<1>3. SUFFICES OpenerKeeps(o)
  BY <1>1, <1>2, TaskFrame DEF TaskInv, DealInv, OpenerKeeps
<1>f. Finish(o) => task'[o] = IdleTask /\ TaskOk(o)'
  BY DEF Finish, TypeOK, TaskOk, IdleTask
<1>b. book' = book => BookSteady /\ RowsInv'
  BY <1>0, BookSame
<1>5. ASSUME NEW e \in Epics, PassGate(o, e)
      PROVE  OpenerKeeps(o)
  <2>1. book' = book /\ task'[o].pc = "gated"
    BY <1>5 DEF PassGate, TypeOK, IdleTask
  <2> QED
    BY <1>b, <2>1 DEF TaskOk, OpenerKeeps
<1>6. CASE AbandonOpen(o)
  BY <1>6, <1>f, <1>b DEF AbandonOpen, OpenerKeeps
<1>7. ASSUME NEW d \in Deals, PostOrder(o, d)
      PROVE  OpenerKeeps(o)
  <2>1. book' = book /\ task'[o].pc = "placed" /\ task'[o].deal = d
        /\ task'[o].epic = task[o].epic
    BY <1>0, <1>7 DEF PostOrder, TypeOK, TaskType
  <2>2. ig'[d] = [state |-> "working", epic |-> task[o].epic]
    BY <1>7 DEF PostOrder, AcceptOrder, TypeOK
  <2>3. Sent(task[o].deal, task[o].epic)'
    BY <2>1, <2>2 DEF Sent, Used
  <2> QED
    BY <1>b, <2>1, <2>3 DEF TaskOk, OpenerKeeps
<1>8. ASSUME NEW d \in Deals, PostOrderUnanswered(o, d)
      PROVE  OpenerKeeps(o)
  BY <1>8, <1>f, <1>b DEF PostOrderUnanswered, OpenerKeeps
<1>9. CASE RecordRow(o)
  <2>1. PICK r \in Rows : r = First(UnusedRows) /\ book[r].state = "none"
    BY <1>9, FirstUnused DEF RecordRow
  <2>2. /\ task[o].pc = "placed" /\ ig' = ig
        /\ book' = [book EXCEPT ![r] = ProvisionalRow(task[o].epic, task[o].deal)]
        /\ task' = [task EXCEPT ![o].pc = "confirming", ![o].row = r]
    BY <1>9, <2>1 DEF RecordRow
  <2>3. /\ book'[r].state = "OPEN" /\ book'[r].epic = task[o].epic
        /\ book'[r].ref = task[o].deal /\ book'[r].deal = NoDeal
        /\ \A q \in Rows \ {r} : book'[q] = book[q]
    BY <2>2 DEF ProvisionalRow, NoRow, TypeOK
  <2>4. /\ task'[o].pc = "confirming" /\ task'[o].row = r
        /\ task'[o].deal = task[o].deal /\ task'[o].epic = task[o].epic
    BY <1>0, <2>2 DEF TypeOK, TaskType
  <2>5. Sent(task[o].deal, task[o].epic)
    BY <1>0, <2>2 DEF TaskOk
  <2>6. RowSteady(r) /\ RowOk(r)'
    <3>1. book[r].deal = NoDeal
      BY <1>0, <2>1 DEF RowsInv, RowOk
    <3>2. Sent(book[r].ref, book[r].epic)'
      BY <2>2, <2>3, <2>5 DEF Sent, Used
    <3> QED
      BY <2>1, <2>3, <3>1, <3>2 DEF RowSteady, RowOk
  <2>7. \A q \in Rows \ {r} : RowSteady(q) /\ RowOk(q)'
    BY <1>0, <2>3, RowFrame DEF RowsInv, RowSteady
  <2>8. TaskOk(o)'
    BY <2>2, <2>3, <2>4, <2>5 DEF TaskOk, Sent, Used
  <2> QED
    BY <2>6, <2>7, <2>8 DEF OpenerKeeps, BookSteady, RowsInv
<1>10. CASE ConfirmMissed(o)
  <2>1. book' = book
    BY <1>10 DEF ConfirmMissed
  <2>2. CASE Finish(o)
    BY <1>b, <1>f, <2>1, <2>2 DEF OpenerKeeps
  <2>3. CASE ~Finish(o)
    <3>1. PICK n : n = task[o].tries + 1
      OBVIOUS
    <3>2. task' = [task EXCEPT ![o].tries = n] /\ ig' = ig
      BY <1>10, <2>3, <3>1 DEF ConfirmMissed
    <3>3. /\ task'[o].pc = task[o].pc /\ task'[o].row = task[o].row
          /\ task'[o].deal = task[o].deal /\ task'[o].epic = task[o].epic
      BY <1>0, <3>2 DEF TypeOK, TaskType
    <3>4. TaskOk(o)'
      BY <1>0, <2>1, <3>2, <3>3 DEF TaskOk, Sent, Used, Filled
    <3> QED
      BY <1>b, <2>1, <3>4 DEF OpenerKeeps
  <2> QED
    BY <2>2, <2>3
<1>11. CASE ConfirmAnswered(o)
  <2>1. /\ book' = book /\ ig' = ig /\ task[o].pc = "confirming"
        /\ \/ /\ ig[task[o].deal].state \in {"live", "closed"}
              /\ task' = [task EXCEPT ![o].pc = "accepted"]
           \/ task' = [task EXCEPT ![o].pc = "rejected"]
    BY <1>11 DEF ConfirmAnswered
  <2>2. /\ task'[o].pc \in {"accepted", "rejected"} /\ task'[o].row = task[o].row
        /\ task'[o].deal = task[o].deal /\ task'[o].epic = task[o].epic
        /\ task'[o].pc = "accepted" => ig[task[o].deal].state \in {"live", "closed"}
    BY <1>0, <2>1 DEF TypeOK, TaskType
  <2>3. TaskOk(o)'
    BY <1>0, <2>1, <2>2 DEF TaskOk, Sent, Used, Filled
  <2> QED
    BY <1>b, <2>1, <2>3 DEF OpenerKeeps
<1>12. CASE BindDeal(o)
  <2>1. PICK r \in Rows, d \in Deals : r = task[o].row /\ d = task[o].deal
    BY <1>0, <1>12 DEF BindDeal, TaskOk, TaskType, Filled
  <2>2. book' = [book EXCEPT ![r] = Rebound(@, d)] /\ task[o].pc = "accepted"
    BY <1>12, <2>1 DEF BindDeal
  <2>3. book[r].state # "none" /\ Filled(d, book[r].epic)
    BY <1>0, <2>1, <2>2 DEF TaskOk
  <2>4. RowSteady(r) /\ RowOk(r)'
    BY <1>0, <2>2, <2>3, BoundRow DEF RowsInv, TypeOK
  <2>5. \A q \in Rows \ {r} : RowSteady(q) /\ RowOk(q)'
    BY <1>0, <2>2, RowFrame DEF RowsInv, RowSteady, TypeOK
  <2> QED
    BY <1>f, <1>12, <2>4, <2>5 DEF BindDeal, OpenerKeeps, BookSteady, RowsInv
<1>13. CASE DropRejected(o)
  <2>1. PICK r \in Rows : r = task[o].row
    BY <1>0 DEF TaskType
  <2>2. /\ task[o].pc = "rejected" /\ ig' = ig
        /\ book' = [book EXCEPT ![r] = [NoRow EXCEPT !.state = "deleted",
                       !.epic = task[o].epic, !.ref = task[o].deal]]
    BY <1>13, <2>1 DEF DropRejected
  <2>3. /\ book'[r].state = "deleted" /\ book'[r].epic = task[o].epic
        /\ book'[r].ref = task[o].deal /\ book'[r].deal = NoDeal
        /\ \A q \in Rows \ {r} : book'[q] = book[q]
    BY <2>2 DEF NoRow, TypeOK
  <2>4. book[r].epic = task[o].epic /\ Sent(task[o].deal, task[o].epic)
    BY <1>0, <2>1, <2>2 DEF TaskOk
  <2>5. RowSteady(r) /\ RowOk(r)'
    BY <2>2, <2>3, <2>4 DEF RowSteady, RowOk, Sent, Used
  <2>6. \A q \in Rows \ {r} : RowSteady(q) /\ RowOk(q)'
    BY <1>0, <2>3, RowFrame DEF RowsInv, RowSteady
  <2> QED
    BY <1>f, <1>13, <2>5, <2>6 DEF DropRejected, OpenerKeeps, BookSteady, RowsInv
<1> QED
  BY <1>5, <1>6, <1>7, <1>8, <1>9, <1>10, <1>11, <1>12, <1>13 DEF OpenerStep

-----------------------------------------------------------------------------
(* The sync *)

\* What the sync keeps of a row, when the step only goes on from it.
SyncGoesOn(r) ==
    /\ sync'.seen[r] \in {NoDeal, sync.seen[r]}
    /\ sync'.bound[r] = sync.bound[r] /\ sync'.closed[r] = sync.closed[r]
    /\ r \in sync'.todo \cup sync'.touched => r \in sync.todo \cup sync.touched
    /\ r \in sync.touched => r \in sync'.touched

LEMMA SyncRowSame ==
    ASSUME NEW r \in Rows, SyncOk(r), SyncGoesOn(r), book' = book, ig' = ig
    PROVE  SyncOk(r)'
<1>1. sync'.seen[r] # NoDeal => Held(r, sync.seen[r])' /\ sync'.seen[r] = sync.seen[r]
  BY DEF SyncOk, SyncGoesOn, Held, Filled
<1>2. sync'.bound[r] # NoDeal =>
        book'[r].state # "none" /\ Filled(sync.bound[r], book[r].epic)'
  BY DEF SyncOk, SyncGoesOn, Filled
<1>3. sync'.closed[r] = "closed_externally" => Over(r)'
  BY DEF SyncOk, SyncGoesOn, Over, Gone
<1> QED
  BY <1>1, <1>2, <1>3 DEF SyncOk, SyncGoesOn

\* The next row of the walk.
LEMMA NextRow ==
    ASSUME TypeOK, NEW r \in Rows, sync.todo # {}, r = First(sync.todo)
    PROVE  r \in sync.todo
BY FirstIsMember, BookAssumption DEF TypeOK, SyncType

\* The free deals are still what they were.
SyncFreeSame == sync'.free \subseteq sync.free /\ ig' = ig

LEMMA FreeSame ==
    ASSUME SyncInv, SyncFreeSame
    PROVE  \A d \in sync'.free : Filled(d, ig[d].epic)'
BY DEF SyncInv, SyncFreeSame, Filled

\* A candidate for a row is a fill on the row's epic.
LEMMA CandidateFills ==
    ASSUME TypeOK, SyncInv, RowsInv, NEW r \in Rows, r \in sync.todo, NEW d \in Candidates(r)
    PROVE  d \in Deals /\ Filled(d, book[r].epic)
<1>0. sync \in SyncType /\ SyncOk(r) /\ RowOk(r)
  BY DEF TypeOK, SyncInv, RowsInv
<1>1. d \in sync.free /\ book[r].state # "none"
  BY <1>0 DEF Candidates, SyncOk
<1>2. Filled(d, ig[d].epic) /\ d \in Deals /\ d # NoDeal
  BY <1>1, BookAssumption DEF SyncInv, Filled
<1>3. CASE d = sync.seen[r]
  BY <1>0, <1>2, <1>3 DEF SyncOk, Held
<1>4. CASE d = book[r].ref
  BY <1>0, <1>1, <1>2, <1>4 DEF RowOk, Sent, Filled
<1>5. CASE ig[d].epic = book[r].epic
  BY <1>2, <1>5
<1> QED
  BY <1>2, <1>3, <1>4, <1>5 DEF Candidates

\* What the sync holds after a row of the walk.
LEMMA WalkedParts ==
    ASSUME TypeOK, NEW r \in Rows
    PROVE  /\ Walked(r).pc = "walk" /\ Walked(r).todo = sync.todo \ {r}
           /\ Walked(r).free = sync.free /\ Walked(r).touched = sync.touched
           /\ Walked(r).bound = sync.bound /\ Walked(r).closed = sync.closed
           /\ Walked(r).seen[r] = NoDeal
           /\ \A q \in Rows \ {r} : Walked(r).seen[q] = sync.seen[q]
BY DEF Walked, TypeOK, SyncType

LEMMA WrittenOffParts ==
    ASSUME TypeOK, NEW r \in Rows, NEW why
    PROVE  /\ WrittenOff(r, why).pc = "walk" /\ WrittenOff(r, why).todo = sync.todo \ {r}
           /\ WrittenOff(r, why).free = sync.free
           /\ WrittenOff(r, why).touched = sync.touched \cup {r}
           /\ WrittenOff(r, why).bound = sync.bound
           /\ WrittenOff(r, why).seen[r] = NoDeal
           /\ WrittenOff(r, why).closed[r] = why
           /\ \A q \in Rows \ {r} : /\ WrittenOff(r, why).seen[q] = sync.seen[q]
                                    /\ WrittenOff(r, why).closed[q] = sync.closed[q]
BY DEF WrittenOff, Walked, TypeOK, SyncType

\* A row written off keeps the walk's promises.
LEMMA WriteOff ==
    ASSUME TypeOK, SyncInv, book' = book, ig' = ig, NEW r \in Rows, r \in sync.todo,
           NEW why \in {"never_opened", "closed_externally"}, sync' = WrittenOff(r, why),
           why = "closed_externally" => Over(r)
    PROVE  SyncInv'
<1>1. \A q \in Rows \ {r} : SyncOk(q)'
  <2> SUFFICES ASSUME NEW q \in Rows \ {r} PROVE SyncOk(q)'
    OBVIOUS
  <2>1. SyncGoesOn(q)
    BY WrittenOffParts DEF SyncGoesOn
  <2> QED
    BY <2>1, SyncRowSame DEF SyncInv
<1>2. SyncOk(r)'
  <2>1. SyncOk(r)
    BY DEF SyncInv
  <2>2. PICK b : b = sync.bound[r]
    OBVIOUS
  <2>3. /\ sync'.bound[r] = b /\ sync'.seen[r] = NoDeal /\ sync'.closed[r] = why
        /\ sync'.touched = sync.touched \cup {r} /\ book'[r].state # "none"
    <3>1. r \in sync.todo => book[r].state # "none"
      BY <2>1 DEF SyncOk
    <3>2. /\ sync'.bound = sync.bound /\ sync'.seen[r] = NoDeal
          /\ sync'.closed[r] = why /\ sync'.touched = sync.touched \cup {r}
      BY WrittenOffParts
    <3> QED
      BY <2>2, <3>1, <3>2
  <2>4. b # NoDeal => Filled(b, book[r].epic)'
    BY <2>1, <2>2 DEF SyncOk, Filled
  <2>5. sync'.closed[r] = "closed_externally" => Over(r)'
    BY <2>3 DEF Gone, Over
  <2> QED
    BY <2>3, <2>4, <2>5 DEF SyncOk
<1>3. SyncFreeSame
  BY WrittenOffParts DEF SyncFreeSame
<1> QED
  BY <1>1, <1>2, <1>3, FreeSame, WrittenOffParts DEF SyncInv

\* A row the walk leaves as it is.
LEMMA WalkPast ==
    ASSUME TypeOK, SyncInv, book' = book, ig' = ig, NEW r \in Rows, sync' = Walked(r)
    PROVE  SyncInv'
<1>1. \A q \in Rows : SyncGoesOn(q)
  BY WalkedParts DEF SyncGoesOn
<1>2. SyncFreeSame
  BY WalkedParts DEF SyncFreeSame
<1> QED
  BY <1>1, <1>2, SyncRowSame, FreeSame, WalkedParts DEF SyncInv

LEMMA SyncIdle ==
    ASSUME sync' \in {IdleSync, RestartedSync}
    PROVE  SyncInv'
<1>1. /\ sync'.pc # "probe" /\ sync'.todo = {} /\ sync'.touched = {} /\ sync'.free = {}
      /\ \A r \in Rows : /\ sync'.seen[r] = NoDeal /\ sync'.bound[r] = NoDeal
                         /\ sync'.closed[r] = ""
  <2>1. CASE sync' = IdleSync
    BY <2>1 DEF IdleSync
  <2>2. CASE sync' = RestartedSync
    BY <2>2 DEF RestartedSync, IdleSync
  <2> QED
    BY <2>1, <2>2
<1> QED
  BY <1>1 DEF SyncInv, SyncOk

LEMMA SyncMatchKeeps ==
    ASSUME TypeOK, SyncInv, RowsInv, NEW r \in Rows, SyncMatch(r)
    PROVE  SyncInv'
<1>1. r \in sync.todo /\ book' = book /\ ig' = ig
  BY NextRow DEF SyncMatch
<1>2. PICK d \in Candidates(r) :
        sync' = [Walked(r) EXCEPT !.free = @ \ {d}, !.touched = @ \cup {r},
                    !.bound[r] = IF d = sync.seen[r] THEN NoDeal ELSE d]
  BY DEF SyncMatch
<1>3. PICK b : b = IF d = sync.seen[r] THEN NoDeal ELSE d
  OBVIOUS
<1>4. d \in Deals /\ Filled(d, book[r].epic)
  BY <1>1, CandidateFills
<1>5. Walked(r) \in SyncType
  BY SyncTypes
<1>6. /\ sync'.pc = "walk" /\ sync'.todo = sync.todo \ {r}
      /\ sync'.free = sync.free \ {d} /\ sync'.touched = sync.touched \cup {r}
      /\ sync'.closed = sync.closed /\ sync'.seen[r] = NoDeal /\ sync'.bound[r] = b
  BY <1>2, <1>3, <1>5, WalkedParts DEF SyncType
<1>7. \A q \in Rows \ {r} : sync'.seen[q] = sync.seen[q] /\ sync'.bound[q] = sync.bound[q]
  BY <1>2, <1>5, WalkedParts DEF SyncType
<1>8. \A q \in Rows \ {r} : SyncOk(q)'
  <2> SUFFICES ASSUME NEW q \in Rows \ {r} PROVE SyncOk(q)'
    OBVIOUS
  <2>1. SyncGoesOn(q)
    BY <1>6, <1>7 DEF SyncGoesOn
  <2> QED
    BY <1>1, <2>1, SyncRowSame DEF SyncInv
<1>9. SyncOk(r)'
  <2>1. SyncOk(r)
    BY DEF SyncInv
  <2>2. book'[r].state # "none"
    BY <1>1, <2>1 DEF SyncOk
  <2>3. b # NoDeal => Filled(b, book[r].epic)'
    BY <1>1, <1>3, <1>4 DEF Filled
  <2>4. sync'.closed[r] = "closed_externally" => Over(r)'
    BY <1>1, <1>6, <2>1 DEF SyncOk, Gone, Over
  <2>5. sync'.closed[r] \in {"", "never_opened", "closed_externally"}
    BY <1>6, <2>1 DEF SyncOk
  <2> QED
    BY <1>6, <2>2, <2>3, <2>4, <2>5 DEF SyncOk
<1>10. SyncFreeSame
  BY <1>1, <1>6 DEF SyncFreeSame
<1> QED
  BY <1>6, <1>8, <1>9, <1>10, FreeSame DEF SyncInv

LEMMA SyncMissKeeps ==
    ASSUME TypeOK, SyncInv, RowsInv, NEW r \in Rows, SyncMiss(r)
    PROVE  SyncInv'
<1>1. r \in sync.todo /\ r = First(sync.todo) /\ book' = book /\ ig' = ig
  BY NextRow DEF SyncMiss
<1>2. CASE sync' = Walked(r)
  BY <1>1, <1>2, WalkPast
<1>3. CASE sync' = WrittenOff(r, "never_opened")
  BY <1>1, <1>3, WriteOff
<1>4. CASE book[r].deal # NoDeal
           /\ sync' = [sync EXCEPT !.pc = "probe", !.seen[r] = book[r].deal]
  <2>1. PICK d : d = book[r].deal
    OBVIOUS
  <2>2. sync' = [sync EXCEPT !.pc = "probe", !.seen[r] = d] /\ d # NoDeal
    BY <1>4, <2>1
  <2>3. /\ sync'.pc = "probe" /\ sync'.todo = sync.todo /\ sync'.free = sync.free
        /\ sync'.touched = sync.touched /\ sync'.bound = sync.bound
        /\ sync'.closed = sync.closed /\ sync'.seen[r] = d
        /\ \A q \in Rows \ {r} : sync'.seen[q] = sync.seen[q]
    BY <2>2 DEF TypeOK, SyncType
  <2>4. \A q \in Rows \ {r} : SyncOk(q)'
    <3> SUFFICES ASSUME NEW q \in Rows \ {r} PROVE SyncOk(q)'
      OBVIOUS
    <3>1. SyncGoesOn(q)
      BY <2>3 DEF SyncGoesOn
    <3> QED
      BY <1>1, <3>1, SyncRowSame DEF SyncInv
  <2>5. SyncOk(r)'
    <3>1. SyncOk(r) /\ RowOk(r)
      BY DEF SyncInv, RowsInv
    <3>2. Held(r, d)'
      BY <1>1, <2>1, <2>2, <3>1 DEF RowOk, Held, Filled
    <3>3. \A b : b = sync.bound[r] /\ b # NoDeal =>
            book'[r].state # "none" /\ Filled(b, book[r].epic)'
      BY <1>1, <3>1 DEF SyncOk, Filled
    <3>4. sync'.closed[r] = "closed_externally" => Over(r)'
      BY <1>1, <2>3, <3>1 DEF SyncOk, Gone, Over
    <3>5. /\ r \in sync'.todo \cup sync'.touched => book'[r].state # "none"
          /\ sync'.closed[r] \in {"", "never_opened", "closed_externally"}
          /\ sync'.closed[r] # "" => r \in sync'.touched
      BY <1>1, <2>3, <3>1 DEF SyncOk
    <3> QED
      BY <2>3, <3>2, <3>3, <3>4, <3>5 DEF SyncOk
  <2>6. SyncFreeSame
    BY <1>1, <2>3 DEF SyncFreeSame
  <2> QED
    BY <1>1, <2>2, <2>3, <2>4, <2>5, <2>6, FreeSame DEF SyncInv
<1> QED
  BY <1>2, <1>3, <1>4 DEF SyncMiss

LEMMA SyncProbeKeeps ==
    ASSUME TypeOK, SyncInv, RowsInv, NEW r \in Rows, SyncProbe(r)
    PROVE  SyncInv'
<1>1. /\ sync.todo # {} /\ r = First(sync.todo) /\ sync.seen[r] # NoDeal
      /\ book' = book /\ ig' = ig
  BY DEF SyncProbe, SyncInv
<1>2. r \in sync.todo
  BY <1>1, NextRow
<1>3. CASE sync' = Walked(r)
  BY <1>1, <1>3, WalkPast
<1>4. CASE ig[sync.seen[r]].state # "live" /\ sync' = WrittenOff(r, "closed_externally")
  <2>1. Held(r, sync.seen[r])
    BY <1>1 DEF SyncInv, SyncOk
  <2>2. Over(r)
    BY <1>1, <1>4, <2>1 DEF Held, Filled, Gone, Over
  <2> QED
    BY <1>1, <1>2, <1>4, <2>2, WriteOff
<1> QED
  BY <1>3, <1>4 DEF SyncProbe

\* What the commit makes of a row of the walk, field by field.
LEMMA SyncedParts ==
    ASSUME TypeOK, NEW r \in Rows
    PROVE  /\ SyncedRow(r).epic = book[r].epic /\ SyncedRow(r).ref = book[r].ref
           /\ SyncedRow(r).unread = book[r].unread
           /\ book[r].rebound => SyncedRow(r).rebound
           /\ \/ SyncedRow(r).deal = book[r].deal \/ book[r].deal = NoDeal
              \/ SyncedRow(r).rebound
           /\ SyncedRow(r).deal = IF sync.bound[r] # NoDeal THEN sync.bound[r]
                                  ELSE book[r].deal
           /\ IF sync.closed[r] # ""
              THEN SyncedRow(r).state = "CLOSE" /\ SyncedRow(r).reason = sync.closed[r]
              ELSE SyncedRow(r).state = book[r].state /\ SyncedRow(r).reason = book[r].reason
<1>1. PICK row : row = IF sync.bound[r] # NoDeal THEN Rebound(book[r], sync.bound[r])
                       ELSE book[r]
  OBVIOUS
<1>2. book[r] \in RowType /\ DOMAIN row = DOMAIN book[r]
  BY <1>1 DEF TypeOK, RowType, Rebound
<1>3. /\ row.epic = book[r].epic /\ row.ref = book[r].ref /\ row.unread = book[r].unread
      /\ row.state = book[r].state /\ row.reason = book[r].reason
      /\ book[r].rebound => row.rebound
      /\ row.deal = IF sync.bound[r] # NoDeal THEN sync.bound[r] ELSE book[r].deal
      /\ row.deal = book[r].deal \/ book[r].deal = NoDeal \/ row.rebound
  BY <1>1, <1>2, BoundParts
<1>4. SyncedRow(r) = IF sync.closed[r] # "" THEN ClosedRow(row, sync.closed[r]) ELSE row
  BY <1>1 DEF SyncedRow
<1> QED
  BY <1>2, <1>3, <1>4 DEF ClosedRow, RowType

LEMMA SyncedRowOk ==
    ASSUME TypeOK, SyncInv, RowsInv, ig' = ig, NEW r \in Rows,
           sync.closed[r] # "" => book[r].state # "deleted",
           book'[r] = SyncedRow(r)
    PROVE  RowSteady(r) /\ RowOk(r)'
<1>1. SyncOk(r) /\ RowOk(r)
  BY DEF SyncInv, RowsInv
<1>2. PICK b, why : b = sync.bound[r] /\ why = sync.closed[r]
  OBVIOUS
<1>3. /\ book'[r].epic = book[r].epic /\ book'[r].ref = book[r].ref
      /\ book'[r].deal = IF b # NoDeal THEN b ELSE book[r].deal
      /\ book'[r].unread = book[r].unread /\ (book[r].rebound => book'[r].rebound)
      /\ IF why # "" THEN book'[r].state = "CLOSE" /\ book'[r].reason = why
         ELSE book'[r].state = book[r].state /\ book'[r].reason = book[r].reason
  BY <1>2, SyncedParts
<1>4. why # "" => book[r].state \notin {"none", "deleted"}
  BY <1>1, <1>2 DEF SyncOk
<1>5. book[r].deal # NoDeal => book'[r].deal = book[r].deal \/ book'[r].rebound
  BY SyncedParts
<1>6. RowSteady(r)
  BY <1>3, <1>4, <1>5 DEF RowSteady
<1>7. PICK d : d = book'[r].deal
  OBVIOUS
<1>8. d # NoDeal => book[r].state # "none" /\ Filled(d, book[r].epic)'
  BY <1>1, <1>2, <1>3, <1>7 DEF SyncOk, RowOk, Filled
<1>9. Gone(book[r].deal) => Gone(d)' \/ book'[r].rebound
  BY <1>5, <1>7 DEF Gone
<1>10. why = "closed_externally" => Gone(d)' \/ book'[r].rebound
  BY <1>1, <1>2, <1>3, <1>4, <1>9 DEF SyncOk, Over
<1>11. why \notin RealCloses
  BY <1>1, <1>2 DEF SyncOk, RealCloses
<1>12. Sent(book[r].ref, book[r].epic) => Sent(book[r].ref, book[r].epic)'
  BY <1>3 DEF Sent, Used
<1>13. book'[r].state # "none" => Sent(book[r].ref, book[r].epic)'
  BY <1>1, <1>3, <1>4, <1>12 DEF RowOk
<1>14. book'[r].state # "none" <=> book[r].state # "none"
  BY <1>3, <1>4
<1>15. book'[r].state = "CLOSE" /\ book'[r].reason = "closed_externally"
         => Gone(d)' \/ book'[r].rebound
  BY <1>1, <1>3, <1>9, <1>10 DEF RowOk
<1>16. book'[r].state = "CLOSE" /\ book'[r].reason \in RealCloses
         => Gone(d)' \/ book'[r].rebound \/ book'[r].unread
  BY <1>1, <1>3, <1>9, <1>11 DEF RowOk
<1> QED
  BY <1>3, <1>6, <1>7, <1>8, <1>13, <1>14, <1>15, <1>16 DEF RowOk

LEMMA SyncCommitKeeps ==
    ASSUME TypeOK, SyncInv, RowsInv, SyncCommit
    PROVE  BookSteady /\ RowsInv'
<1>1. ig' = ig /\ IgSteady
  BY DEF SyncCommit, IgSteady, Used
<1>2. CASE book' = book
  BY <1>1, <1>2, BookSame
<1>3. CASE book' # book
  <2>1. \A r \in sync.touched : book[r].state # "deleted"
    BY <1>3 DEF SyncCommit
  <2>2. PICK f \in NewKeys(ToAdopt) :
          book' = [r \in Rows |->
                     IF \E d \in ToAdopt : f[d] = r
                     THEN AdoptedRow(CHOOSE d \in ToAdopt : f[d] = r)
                     ELSE SyncedRow(r)]
    BY <1>3 DEF SyncCommit
  <2>3. f \in [ToAdopt -> UnusedRows]
    BY <2>2 DEF NewKeys, Injection
  <2>4. SUFFICES ASSUME NEW r \in Rows
                 PROVE  RowSteady(r) /\ RowOk(r)'
    BY DEF BookSteady, RowsInv
  <2>5. ASSUME NEW d \in ToAdopt, f[d] = r, book'[r] = AdoptedRow(d)
        PROVE  RowSteady(r) /\ RowOk(r)'
    <3>1. book[r].state = "none" /\ book[r].deal = NoDeal
      BY <2>3, <2>5 DEF UnusedRows, RowsInv, RowOk
    <3>2. d \in Deals /\ Filled(d, ig[d].epic)
      BY DEF ToAdopt, SyncInv, Filled
    <3>3. /\ book'[r].state = "OPEN" /\ book'[r].epic = ig[d].epic
          /\ book'[r].ref = d /\ book'[r].deal = d
      <4>1. /\ AdoptedRow(d).state = "OPEN" /\ AdoptedRow(d).epic = ig[d].epic
            /\ AdoptedRow(d).ref = d /\ AdoptedRow(d).deal = d
        BY DEF AdoptedRow, NoRow
      <4> QED
        BY <2>5, <4>1
    <3>4. Filled(d, book[r].epic)' /\ Sent(d, book[r].epic)'
      BY <1>1, <3>2, <3>3 DEF Filled, Sent, Used
    <3> QED
      BY <3>1, <3>3, <3>4 DEF RowSteady, RowOk
  <2>6. CASE \E d \in ToAdopt : f[d] = r
    BY <2>2, <2>5, <2>6
  <2>7. CASE ~\E d \in ToAdopt : f[d] = r
    <3>1. book'[r] = SyncedRow(r)
      BY <2>2, <2>7
    <3>2. sync.closed[r] # "" => book[r].state # "deleted"
      BY <2>1 DEF SyncInv, SyncOk
    <3> QED
      BY <1>1, <3>1, <3>2, SyncedRowOk
  <2> QED
    BY <2>6, <2>7
<1> QED
  BY <1>2, <1>3

\* What a step of the sync is to establish.
SyncKeeps == BookSteady /\ RowsInv' /\ SyncInv'

LEMMA SyncDeals ==
    ASSUME TypeOK, DealInv, SyncStep
    PROVE  BookSteady /\ RowsInv' /\ SyncInv' /\ task' = task /\ closer' = closer
<1>0. SyncInv /\ RowsInv
  BY DEF DealInv
<1>1. task' = task /\ closer' = closer /\ ig' = ig
  BY DEF SyncStep, SyncReadOpen, SyncReadKnown, SyncList, SyncListFails, SyncMatch,
         SyncMiss, SyncProbe, SyncCommit
<1>2. SUFFICES SyncKeeps
  BY <1>1 DEF SyncKeeps
<1>b. book' = book => BookSteady /\ RowsInv'
  <2>1. IgSteady
    BY <1>1 DEF IgSteady, Used
  <2> QED
    BY <1>0, <2>1, BookSame
<1>3. CASE SyncReadOpen
  <2>1. PICK s : s = [r \in Rows |-> IF r \in OpenRows THEN book[r].deal ELSE NoDeal]
    OBVIOUS
  <2>2. book' = book /\ sync' = [sync EXCEPT !.pc = "opened", !.todo = OpenRows, !.seen = s]
    BY <1>3, <2>1 DEF SyncReadOpen
  <2>3. /\ sync'.pc = "opened" /\ sync'.todo = OpenRows /\ sync'.seen = s
        /\ sync'.free = sync.free /\ sync'.touched = sync.touched
        /\ sync'.bound = sync.bound /\ sync'.closed = sync.closed
    BY <2>2 DEF TypeOK, SyncType
  <2>4. ASSUME NEW r \in Rows
        PROVE  SyncOk(r)'
    <3>1. SyncOk(r) /\ RowOk(r)
      BY <1>0 DEF SyncInv, RowsInv
    <3>2. \A d : d = s[r] /\ d # NoDeal => Held(r, d)'
      BY <1>1, <2>1, <2>2, <3>1 DEF RowOk, Held, Filled
    <3>3. \A b : b = sync.bound[r] /\ b # NoDeal =>
            book'[r].state # "none" /\ Filled(b, book[r].epic)'
      BY <1>1, <2>2, <3>1 DEF SyncOk, Filled
    <3>4. sync'.closed[r] = "closed_externally" => Over(r)'
      BY <1>1, <2>2, <2>3, <3>1 DEF SyncOk, Gone, Over
    <3>5. /\ r \in sync'.todo \cup sync'.touched => book'[r].state # "none"
          /\ sync'.closed[r] \in {"", "never_opened", "closed_externally"}
          /\ sync'.closed[r] # "" => r \in sync'.touched
      BY <2>2, <2>3, <3>1 DEF SyncOk, OpenRows
    <3> QED
      BY <2>3, <3>2, <3>3, <3>4, <3>5 DEF SyncOk
  <2>5. SyncFreeSame
    BY <1>1, <2>3 DEF SyncFreeSame
  <2> QED
    BY <1>0, <1>b, <2>2, <2>3, <2>4, <2>5, FreeSame DEF SyncInv, SyncKeeps
<1>4. CASE SyncReadKnown
  <2>1. /\ book' = book /\ sync'.pc = "known" /\ sync'.todo = sync.todo
        /\ sync'.free = sync.free /\ sync'.touched = sync.touched
        /\ sync'.bound = sync.bound /\ sync'.closed = sync.closed
        /\ sync'.seen = sync.seen
    BY <1>4 DEF SyncReadKnown, TypeOK, SyncType
  <2>2. \A r \in Rows : SyncGoesOn(r)
    BY <2>1 DEF SyncGoesOn
  <2>3. SyncFreeSame
    BY <1>1, <2>1 DEF SyncFreeSame
  <2> QED
    BY <1>0, <1>1, <1>b, <2>1, <2>2, <2>3, FreeSame, SyncRowSame DEF SyncInv, SyncKeeps
<1>5. CASE SyncList
  <2>1. PICK L \in SUBSET LiveDeals : sync' = [sync EXCEPT !.pc = "walk", !.free = L]
    BY <1>5 DEF SyncList
  <2>2. /\ book' = book /\ sync'.pc = "walk" /\ sync'.todo = sync.todo
        /\ sync'.free = L /\ sync'.touched = sync.touched
        /\ sync'.bound = sync.bound /\ sync'.closed = sync.closed
        /\ sync'.seen = sync.seen
    BY <1>5, <2>1 DEF SyncList, TypeOK, SyncType
  <2>3. \A r \in Rows : SyncGoesOn(r)
    BY <2>2 DEF SyncGoesOn
  <2>4. \A d \in L : Filled(d, ig[d].epic)'
    BY <1>1 DEF LiveDeals, Filled
  <2> QED
    BY <1>0, <1>1, <1>b, <2>2, <2>3, <2>4, SyncRowSame DEF SyncInv, SyncKeeps
<1>6. CASE SyncListFails
  BY <1>6, <1>b, SyncIdle DEF SyncListFails, SyncKeeps
<1>7. ASSUME NEW r \in Rows, SyncMatch(r) \/ SyncMiss(r) \/ SyncProbe(r)
      PROVE  SyncKeeps
  <2>1. book' = book
    BY <1>7 DEF SyncMatch, SyncMiss, SyncProbe
  <2> QED
    BY <1>0, <1>7, <1>b, <2>1, SyncMatchKeeps, SyncMissKeeps, SyncProbeKeeps DEF SyncKeeps
<1>8. CASE SyncCommit
  BY <1>0, <1>8, SyncCommitKeeps, SyncIdle DEF SyncCommit, SyncKeeps
<1> QED
  BY <1>3, <1>4, <1>5, <1>6, <1>7, <1>8 DEF SyncStep

-----------------------------------------------------------------------------
(* The closers *)

LEMMA IdleRec == CloserRec(IdleCloser)'
BY DEF CloserRec, IdleCloser

LEMMA PastRec ==
    ASSUME NEW me \in CloserType, CloserRec(me)', NEW r \in Rows, r \in me.todo
    PROVE  CloserRec(PastRow(me, r))'
<1>1. CASE me.todo = {r}
  BY <1>1, IdleRec DEF PastRow
<1>2. CASE me.todo # {r}
  <2>1. PICK past : past = PastRow(me, r)
    OBVIOUS
  <2>2. past = [me EXCEPT !.pc = "pass", !.todo = @ \ {r}, !.seen[r] = NoDeal,
                          !.refused = FALSE]
    BY <1>2, <2>1 DEF PastRow
  <2>3. /\ past.pc = "pass" /\ past.todo = me.todo \ {r} /\ past.refused = FALSE
        /\ past.seen[r] = NoDeal /\ \A q \in Rows \ {r} : past.seen[q] = me.seen[q]
    BY <2>2 DEF CloserType
  <2>4. ASSUME NEW q \in Rows, past.seen[q] # NoDeal
        PROVE  Held(q, past.seen[q])'
    <3>1. PICK d : d = me.seen[q]
      OBVIOUS
    <3>2. past.seen[q] = d /\ Held(q, d)'
      BY <2>3, <2>4, <3>1 DEF CloserRec
    <3> QED
      BY <3>2
  <2>5. past.todo # {}
    BY <1>2, <2>3
  <2>6. \A q \in past.todo : book'[q].state # "none"
    BY <2>3 DEF CloserRec
  <2>7. CloserRec(past)'
    BY <2>3, <2>4, <2>5, <2>6 DEF CloserRec
  <2> QED
    BY <2>1, <2>7
<1> QED
  BY <1>1, <1>2

\* A closer on its way: at a point where it promises no more than its rows.
LEMMA GoneOnRec ==
    ASSUME NEW me \in CloserType, CloserRec(me)', me.pc # "idle",
           NEW w \in {"verify", "phantom"}
    PROVE  CloserRec([me EXCEPT !.pc = w])'
<1>1. PICK next : next = [me EXCEPT !.pc = w]
  OBVIOUS
<1>2. /\ next.pc = w /\ next.todo = me.todo /\ next.seen = me.seen
  BY <1>1 DEF CloserType
<1> QED
  BY <1>1, <1>2 DEF CloserRec

\* What a step of a closer is to establish.
CloserKeeps(c) == BookSteady /\ RowsInv' /\ CloserOk(c)'

\* A row that is closed, its deal being over if the reason says so.
LEMMA ClosedRowOk ==
    ASSUME TypeOK, IgSteady, RowsInv, NEW r \in Rows, book[r].state \notin {"none", "deleted"},
           NEW why \in RealCloses \cup {"not_found_in_ig"}, NEW unread \in BOOLEAN,
           why \in RealCloses => Gone(book[r].deal) \/ book[r].rebound \/ unread,
           book' = [book EXCEPT ![r] = [ClosedRow(@, why) EXCEPT !.unread = unread]]
    PROVE  BookSteady /\ RowsInv'
<1>1. /\ book'[r].state = "CLOSE" /\ book'[r].reason = why /\ book'[r].epic = book[r].epic
      /\ book'[r].ref = book[r].ref /\ book'[r].deal = book[r].deal
      /\ book'[r].rebound = book[r].rebound /\ book'[r].unread = unread
      /\ \A q \in Rows \ {r} : book'[q] = book[q]
  BY DEF ClosedRow, TypeOK, RowType
<1>2. RowOk(r) /\ why # "closed_externally" /\ book[r].deal \in DealIds
  BY DEF RowsInv, RealCloses, TypeOK, RowType
<1>3. RowSteady(r) /\ \A q \in Rows \ {r} : RowSteady(q)
  BY <1>1 DEF RowSteady
<1>4. PICK d, e, f : d = book[r].deal /\ e = book[r].epic /\ f = book[r].ref
  OBVIOUS
<1>5. Sent(f, e)' /\ (d # NoDeal => Filled(d, e)')
  BY <1>2, <1>4, IgFrame DEF RowOk
<1>6. why \in RealCloses => Gone(d)' \/ book'[r].rebound \/ unread
  BY <1>1, <1>2, <1>4, IgFrame
<1>7. RowOk(r)'
  BY <1>1, <1>2, <1>4, <1>5, <1>6 DEF RowOk
<1>8. \A q \in Rows \ {r} : RowOk(q)'
  BY <1>1, RowFrame DEF RowsInv
<1> QED
  BY <1>3, <1>7, <1>8 DEF BookSteady, RowsInv

LEMMA CloserDeals ==
    ASSUME TypeOK, DealInv, IgSteady, NEW c \in Closers, CloserStep(c)
    PROVE  BookSteady /\ RowsInv' /\ CloserInv' /\ task' = task /\ sync' = sync
<1>0. /\ RowsInv /\ CloserInv
      /\ closer[c] \in CloserType /\ CloserOk(c)
  BY DEF DealInv, CloserInv, TypeOK
<1>1. task' = task /\ sync' = sync
  BY DEF CloserStep, CloserWork, BeginPass, HoldRow, ResolveDeal, SendClose, VerifyGone,
         ConfirmClose, CommitClose, PassBreaks
<1>2. \A p \in Closers \ {c} : closer'[p] = closer[p]
  BY DEF CloserStep, CloserWork, BeginPass, HoldRow, ResolveDeal, SendClose, VerifyGone,
         ConfirmClose, CommitClose, PassBreaks, MoveOn, GoTo, TypeOK
<1>3. SUFFICES CloserKeeps(c)
  <2>1. ASSUME CloserKeeps(c), NEW p \in Closers \ {c}
        PROVE  CloserOk(p)'
    <3>1. PICK me \in CloserType : me = closer[p]
      BY DEF TypeOK
    <3>2. CloserRec(me)'
      BY <1>0, <2>1, <3>1, CloserFrame DEF CloserInv, CloserOk, CloserKeeps
    <3> QED
      BY <1>2, <3>1, <3>2 DEF CloserOk
  <2> QED
    BY <1>1, <2>1 DEF CloserInv, CloserKeeps
<1>4. PICK me \in CloserType : me = closer[c]
  BY <1>0
<1>5. CloserRec(me)
  BY <1>0, <1>4 DEF CloserOk
<1>b. book' = book => BookSteady /\ RowsInv'
  BY <1>0, BookSame
<1>f. BookSteady => CloserRec(me)'
  BY <1>5, CloserFrame
<1>n. ASSUME NEW next, closer'[c] = next, CloserRec(next)'
      PROVE  CloserOk(c)'
  BY <1>n DEF CloserOk
<1>r. ASSUME NEW r \in Rows, me.pc # "idle", r = First(me.todo)
      PROVE  r \in me.todo
  BY <1>5, <1>r, FirstIsMember, BookAssumption DEF CloserRec, CloserType
<1>m. ASSUME NEW r \in Rows, MoveOn(c, r), BookSteady, r \in me.todo
      PROVE  CloserOk(c)'
  <2>1. closer'[c] = PastRow(me, r)
    BY <1>4, <1>m DEF MoveOn, TypeOK
  <2>2. CloserRec(PastRow(me, r))'
    BY <1>f, <1>m, PastRec
  <2> QED
    BY <1>n, <2>1, <2>2
<1>g. ASSUME NEW w \in {"verify", "phantom"}, GoTo(c, w), BookSteady, me.pc # "idle"
      PROVE  CloserOk(c)'
  <2>1. closer'[c] = [me EXCEPT !.pc = w]
    BY <1>4, <1>g DEF GoTo, TypeOK
  <2>2. CloserRec([me EXCEPT !.pc = w])'
    BY <1>f, <1>g, GoneOnRec
  <2> QED
    BY <1>n, <2>1, <2>2
<1>6. CASE BeginPass(c)
  <2>1. PICK S \in SUBSET OpenRows : S # {} /\ closer' = [closer EXCEPT ![c] = Snapshot(S)]
    BY <1>6 DEF BeginPass
  <2>2. PICK snap : snap = Snapshot(S)
    OBVIOUS
  <2>3. /\ snap.pc = "pass" /\ snap.todo = S /\ snap.refused = FALSE
        /\ \A r \in Rows : snap.seen[r] = IF r \in S THEN book[r].deal ELSE NoDeal
    BY <2>2 DEF Snapshot, IdleCloser
  <2>4. book' = book
    BY <1>6 DEF BeginPass
  <2>5. ASSUME NEW r \in Rows, snap.seen[r] # NoDeal
        PROVE  Held(r, snap.seen[r])'
    <3>1. PICK d : d = snap.seen[r]
      OBVIOUS
    <3>2. d = book[r].deal /\ Held(r, d)
      BY <1>0, <2>3, <2>5, <3>1 DEF RowsInv, RowOk, Held
    <3>3. RowSteady(r) /\ d \in DealIds
      BY <2>4, <3>2 DEF RowSteady, TypeOK, RowType
    <3>4. Held(r, d)'
      BY <3>2, <3>3, HeldFrame
    <3> QED
      BY <3>1, <3>4
  <2>6. CloserRec(snap)'
    BY <2>1, <2>3, <2>4, <2>5 DEF CloserRec, OpenRows
  <2>7. closer'[c] = snap
    BY <2>1, <2>2 DEF TypeOK
  <2> QED
    BY <1>b, <1>n, <2>4, <2>6, <2>7 DEF CloserKeeps
<1>7. ASSUME NEW r \in Rows, HoldRow(c, r)
      PROVE  CloserKeeps(c)
  <2>1. MoveOn(c, r) /\ book' = book /\ me.pc = "pass" /\ r = First(me.todo)
    BY <1>4, <1>7 DEF HoldRow, At
  <2> QED
    BY <1>b, <1>m, <1>r, <2>1 DEF CloserKeeps
<1>8. ASSUME NEW r \in Rows, ResolveDeal(c, r)
      PROVE  CloserKeeps(c)
  <2>0. me.pc = "pass" /\ r = First(me.todo) /\ ig' = ig
    BY <1>4, <1>8 DEF ResolveDeal, At
  <2>1. CASE GoTo(c, "phantom") /\ book' = book
    BY <1>b, <1>g, <2>0, <2>1 DEF CloserKeeps
  <2>2. ASSUME NEW d \in LiveDeals, ig[d].epic = book[r].epic,
               closer' = [closer EXCEPT ![c].pc = "resolved", ![c].seen[r] = d],
               book' = [book EXCEPT ![r] = Rebound(@, d)]
        PROVE  CloserKeeps(c)
    <3>1. book[r].state # "none" /\ Filled(d, book[r].epic) /\ d \in Deals /\ d # NoDeal
      BY <1>5, <1>r, <2>0, <2>2, BookAssumption DEF CloserRec, LiveDeals, Filled
    <3>2. /\ book'[r] = Rebound(book[r], d)
          /\ \A q \in Rows \ {r} : book'[q] = book[q]
      BY <2>2 DEF TypeOK
    <3>3. RowSteady(r) /\ RowOk(r)'
      BY <1>0, <3>1, <3>2, BoundRow DEF RowsInv
    <3>4. \A q \in Rows \ {r} : RowSteady(q) /\ RowOk(q)'
      BY <1>0, <3>2, RowFrame DEF RowsInv, RowSteady
    <3>5. BookSteady /\ RowsInv'
      BY <3>3, <3>4 DEF BookSteady, RowsInv
    <3>6. CloserRec(me)'
      BY <1>f, <3>5
    <3>7. PICK next : next = closer'[c]
      OBVIOUS
    <3>8. /\ next.pc = "resolved" /\ next.todo = me.todo /\ next.refused = me.refused
          /\ next.seen[r] = d /\ \A q \in Rows \ {r} : next.seen[q] = me.seen[q]
      BY <1>4, <2>2, <3>7 DEF CloserType, TypeOK
    <3>9. Held(r, d)'
      <4>1. book'[r].deal = d /\ book'[r].state = book[r].state /\ book'[r].epic = book[r].epic
        BY <3>2, BoundParts DEF TypeOK
      <4> QED
        BY <2>0, <3>1, <4>1 DEF Held, Filled
    <3>10. \A q \in Rows : \A k : k = next.seen[q] /\ k # NoDeal => Held(q, k)'
      BY <3>6, <3>8, <3>9 DEF CloserRec
    <3>11. me.todo # {} /\ ~me.refused /\ \A q \in me.todo : book'[q].state # "none"
      BY <1>5, <2>0, <3>6 DEF CloserRec
    <3>12. CloserRec(next)'
      BY <2>0, <3>1, <3>8, <3>10, <3>11 DEF CloserRec
    <3> QED
      BY <1>n, <3>5, <3>7, <3>12 DEF CloserKeeps
  <2> QED
    BY <1>8, <2>1, <2>2 DEF ResolveDeal
<1>9. ASSUME NEW r \in Rows, SendClose(c, r)
      PROVE  CloserKeeps(c)
  <2>0. /\ me.pc \in {"pass", "resolved"} /\ r = First(me.todo) /\ book' = book
        /\ me.pc = "pass" => me.seen[r] # NoDeal
    BY <1>4, <1>9 DEF SendClose, At
  <2>1. r \in me.todo /\ me.seen[r] # NoDeal /\ ~me.refused
    BY <1>5, <1>r, <2>0 DEF CloserRec
  <2>2. CloserRec(me)' /\ BookSteady /\ RowsInv'
    BY <1>b, <1>f, <2>0
  <2>3. CASE GoTo(c, "confirm") /\ ig' = [ig EXCEPT ![me.seen[r]].state = "closed"]
             /\ ig[me.seen[r]].state = "live"
    <3>1. PICK d \in Deals : d = me.seen[r]
      BY <1>5, <2>1 DEF CloserRec, Held, Filled
    <3>2. Gone(d)' /\ d # NoDeal
      BY <2>1, <2>3, <3>1 DEF Gone, TypeOK, DealType
    <3>3. PICK next : next = [me EXCEPT !.pc = "confirm"]
      OBVIOUS
    <3>4. /\ next.pc = "confirm" /\ next.todo = me.todo /\ next.seen = me.seen
          /\ next.refused = me.refused
      BY <3>3 DEF CloserType
    <3>5. CloserRec(next)'
      BY <2>0, <2>1, <2>2, <3>1, <3>2, <3>4 DEF CloserRec
    <3>6. closer'[c] = next
      BY <1>4, <2>3, <3>3 DEF GoTo, TypeOK
    <3> QED
      BY <1>n, <2>2, <3>5, <3>6 DEF CloserKeeps
  <2>4. CASE closer' = [closer EXCEPT ![c].pc = "confirm", ![c].refused = TRUE]
    <3>1. PICK next : next = closer'[c]
      OBVIOUS
    <3>2. /\ next.pc = "confirm" /\ next.todo = me.todo /\ next.seen = me.seen
          /\ next.refused = TRUE
      BY <1>4, <2>4, <3>1 DEF CloserType, TypeOK
    <3>3. CloserRec(next)'
      BY <2>0, <2>1, <2>2, <3>2 DEF CloserRec
    <3> QED
      BY <1>n, <2>2, <3>1, <3>3 DEF CloserKeeps
  <2>5. CASE GoTo(c, "verify")
    BY <1>g, <2>0, <2>2, <2>5 DEF CloserKeeps
  <2>6. CASE MoveOn(c, r)
    BY <1>m, <2>1, <2>2, <2>6 DEF CloserKeeps
  <2> QED
    BY <1>4, <1>9, <2>3, <2>4, <2>5, <2>6 DEF SendClose
<1>10. ASSUME NEW r \in Rows, VerifyGone(c, r)
       PROVE  CloserKeeps(c)
  <2>1. me.pc = "verify" /\ r = First(me.todo) /\ book' = book
    BY <1>4, <1>10 DEF VerifyGone, At
  <2>2. GoTo(c, "phantom") \/ MoveOn(c, r)
    BY <1>10 DEF VerifyGone
  <2> QED
    BY <1>b, <1>g, <1>m, <1>r, <2>1, <2>2 DEF CloserKeeps
<1>11. ASSUME NEW r \in Rows, ConfirmClose(c, r)
       PROVE  CloserKeeps(c)
  <2>1. me.pc = "confirm" /\ r = First(me.todo) /\ book' = book
    BY <1>4, <1>11 DEF ConfirmClose, At
  <2>2. CASE MoveOn(c, r)
    BY <1>b, <1>m, <1>r, <2>1, <2>2 DEF CloserKeeps
  <2>3. ASSUME NEW w, GoTo(c, w), w = "unread" \/ (w = "commit" /\ ~me.refused)
        PROVE  CloserKeeps(c)
    <3>1. CloserRec(me)' /\ BookSteady /\ RowsInv'
      BY <1>b, <1>f, <2>1
    <3>2. PICK next : next = [me EXCEPT !.pc = w]
      OBVIOUS
    <3>3. /\ next.pc = w /\ next.todo = me.todo /\ next.seen = me.seen
      BY <3>2 DEF CloserType
    <3>5. CloserRec(next)'
      BY <2>1, <2>3, <3>1, <3>3 DEF CloserRec
    <3>6. closer'[c] = next
      BY <1>4, <2>3, <3>2 DEF GoTo, TypeOK
    <3> QED
      BY <1>n, <3>1, <3>5, <3>6 DEF CloserKeeps
  <2> QED
    BY <1>4, <1>11, <2>2, <2>3 DEF ConfirmClose
<1>12. ASSUME NEW r \in Rows, CommitClose(c, r)
       PROVE  CloserKeeps(c)
  <2>1. /\ me.pc \in {"commit", "unread", "phantom"} /\ r = First(me.todo) /\ MoveOn(c, r)
        /\ book[r].state # "deleted"
    BY <1>4, <1>12 DEF CommitClose, At
  <2>2. r \in me.todo /\ book[r].state # "none"
    BY <1>5, <1>r, <2>1 DEF CloserRec
  <2>3. PICK why \in Reasons, unread \in BOOLEAN :
           /\ why = IF me.pc = "phantom" THEN "not_found_in_ig" ELSE CloseReason(c)
           /\ unread <=> me.pc = "unread"
           /\ book' = [book EXCEPT ![r] = [ClosedRow(@, why) EXCEPT !.unread = unread]]
    BY <1>4, <1>12, CommitParts
  <2>5. why \in RealCloses \cup {"not_found_in_ig"}
    BY <2>3 DEF CloseReason, RealCloses
  <2>6. why \in RealCloses => Gone(book[r].deal) \/ book[r].rebound \/ unread
    <3>1. SUFFICES ASSUME me.pc = "commit" PROVE Gone(book[r].deal) \/ book[r].rebound
      BY <2>1, <2>3 DEF RealCloses
    <3>2. Gone(me.seen[r]) /\ me.seen[r] # NoDeal
      BY <1>5, <2>1, <3>1 DEF CloserRec
    <3>3. Held(r, me.seen[r])
      BY <1>5, <3>2 DEF CloserRec
    <3> QED
      BY <2>1, <3>2, <3>3 DEF Held
  <2>7. BookSteady /\ RowsInv'
    BY <1>0, <2>1, <2>2, <2>3, <2>5, <2>6, ClosedRowOk
  <2> QED
    BY <1>m, <2>1, <2>2, <2>7 DEF CloserKeeps
<1>13. ASSUME NEW r \in Rows, PassBreaks(c, r)
       PROVE  CloserKeeps(c)
  <2>1. closer'[c] = IdleCloser /\ book' = book
    BY <1>13 DEF PassBreaks, TypeOK
  <2> QED
    BY <1>b, <1>n, <2>1, IdleRec DEF CloserKeeps
<1> QED
  BY <1>6, <1>7, <1>8, <1>9, <1>10, <1>11, <1>12, <1>13 DEF CloserStep, CloserWork

-----------------------------------------------------------------------------
(* The world, and every step *)

LEMMA GraceKeeps ==
    ASSUME TypeOK, IgSteady, RowsInv, NEW r \in Rows, GraceEnds(r)
    PROVE  BookSteady /\ RowsInv'
<1>1. /\ book'[r].state = book[r].state /\ book'[r].epic = book[r].epic
      /\ book'[r].ref = book[r].ref /\ book'[r].deal = book[r].deal
      /\ book'[r].reason = book[r].reason /\ ig' = ig
      /\ book'[r].rebound = book[r].rebound /\ book'[r].unread = book[r].unread
      /\ \A q \in Rows \ {r} : book'[q] = book[q]
  BY DEF GraceEnds, TypeOK, RowType
<1>2. BookSteady
  BY <1>1 DEF BookSteady, RowSteady
<1>3. RowOk(r)'
  BY <1>1 DEF RowsInv, RowOk, Sent, Used, Filled, Gone
<1>4. \A q \in Rows \ {r} : RowOk(q)'
  BY <1>1, RowFrame DEF RowsInv
<1> QED
  BY <1>2, <1>3, <1>4 DEF RowsInv

LEMMA CrashKeeps ==
    ASSUME Crash
    PROVE  TaskInv' /\ SyncInv' /\ CloserInv'
<1>1. TaskInv'
  BY DEF Crash, TaskInv, TaskOk, IdleTask
<1>2. SyncInv'
  BY SyncIdle DEF Crash
<1>3. CloserInv'
  BY IdleRec DEF Crash, CloserInv, CloserOk
<1> QED
  BY <1>1, <1>2, <1>3

LEMMA DealInit == Init => DealInv
<1> SUFFICES ASSUME Init PROVE DealInv
  OBVIOUS
<1>2. TaskInv
  BY DEF Init, TaskInv, TaskOk, IdleTask
<1>3. RowsInv
  BY DEF Init, RowsInv, RowOk, NoRow
<1>4. SyncInv
  BY DEF Init, SyncInv, SyncOk, IdleSync
<1>5. CloserInv
  BY DEF Init, CloserInv, CloserOk, CloserRec, IdleCloser
<1> QED
  BY <1>2, <1>3, <1>4, <1>5 DEF DealInv

LEMMA DealNext ==
    ASSUME TypeOK, DealInv, [Next]_vars
    PROVE  DealInv'
<1>1. IgSteady /\ RowsInv
  BY IgKeeps DEF DealInv
<1>t. task' = task /\ BookSteady => TaskInv'
  BY <1>1, TaskFrame DEF DealInv, TaskInv
<1>s. sync' = sync /\ BookSteady => SyncInv'
  BY <1>1, SyncFrame DEF DealInv
<1>c. closer' = closer /\ BookSteady => CloserInv'
  <2> SUFFICES ASSUME closer' = closer, BookSteady, NEW c \in Closers
               PROVE  CloserOk(c)'
    BY DEF CloserInv
  <2>1. PICK me \in CloserType : me = closer[c]
    BY DEF TypeOK
  <2>2. CloserRec(me)
    BY <2>1 DEF DealInv, CloserInv, CloserOk
  <2>3. CloserRec(me)'
    BY <1>1, <2>2, CloserFrame
  <2> QED
    BY <2>1, <2>3 DEF CloserOk
<1>b. book' = book => BookSteady /\ RowsInv'
  BY <1>1, BookSame
<1>2. ASSUME NEW o \in Openers, OpenerStep(o)
      PROVE  DealInv'
  BY <1>1, <1>2, <1>s, <1>c, OpenerDeals DEF DealInv
<1>3. CASE SyncStep
  BY <1>1, <1>3, <1>t, <1>c, SyncDeals DEF DealInv
<1>4. ASSUME NEW c \in Closers, CloserStep(c)
      PROVE  DealInv'
  BY <1>1, <1>4, <1>t, <1>s, CloserDeals DEF DealInv
<1>5. ASSUME NEW r \in Rows, GraceEnds(r)
      PROVE  DealInv'
  BY <1>1, <1>5, <1>t, <1>s, <1>c, GraceKeeps DEF DealInv, GraceEnds
<1>6. CASE Crash
  BY <1>1, <1>6, <1>b, CrashKeeps DEF DealInv, Crash
<1>7. CASE UNCHANGED <<book, task, sync, closer>>
  BY <1>1, <1>7, <1>b, <1>t, <1>s, <1>c DEF DealInv
<1>8. CASE WorldStep
  BY <1>5, <1>6, <1>7, <1>8 DEF WorldStep, SettleOrder, StopOut, OpenAtBroker
<1>9. CASE UNCHANGED vars
  BY <1>7, <1>9 DEF vars
<1> QED
  BY <1>2, <1>3, <1>4, <1>8, <1>9 DEF Next

\* A row the sync closed as closed_externally carries a deal that is over at
\* IG, whatever IG, the network and the other tasks did: _ig_position_gone closes
\* it on a definitive answer about that deal alone.  Only a row that a match by
\* epic had handed a second deal may carry one that is not.
THEOREM ExternalCloses == Spec => []ClosedExternallyIsGone
<1>1. Init => DealInv
  BY DealInit
<1>2. TypeOK /\ DealInv /\ [Next]_vars => DealInv'
  BY DealNext
<1>3. DealInv => ClosedExternallyIsGone
  BY DEF DealInv, RowsInv, RowOk, ClosedExternallyIsGone
<1> QED
  BY <1>1, <1>2, <1>3, TypeCorrect, PTL DEF Spec

\* A row closed with a reason of the bot's or the user's own carries a deal IG
\* really closed, but for the two ways out: a second deal handed to the row, and a
\* confirmation of the close nobody could read, which _fetch_close_result takes
\* for an executed close.
THEOREM OwnCloses == Spec => []RealCloseIsReal
<1>1. Init => DealInv
  BY DealInit
<1>2. TypeOK /\ DealInv /\ [Next]_vars => DealInv'
  BY DealNext
<1>3. DealInv => RealCloseIsReal
  BY DEF DealInv, RowsInv, RowOk, RealCloseIsReal
<1> QED
  BY <1>1, <1>2, <1>3, TypeCorrect, PTL DEF Spec
=============================================================================
