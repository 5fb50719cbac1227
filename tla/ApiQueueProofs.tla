--------------------------- MODULE ApiQueueProofs ---------------------------
(***************************************************************************)
(* Theorems about the API queue, for any number of calls and attempts:     *)
(*   TypeCorrect     the type invariant;                                   *)
(*   OvertakenBound  a waiting call is overtaken at most once;             *)
(*   KeepsContract   the queue implements CallOnce.                        *)
(***************************************************************************)
EXTENDS ApiQueue, TLAPS

LEMMA TypeInit == Init => TypeOK
<1> SUFFICES ASSUME Init PROVE TypeOK
  OBVIOUS
<1>1. (CHOOSE req \in Requests : TRUE) \in Requests
  BY QueueAssumption
<1>2. request \in [Calls -> Requests]
  BY <1>1 DEF Init
<1>3. worker \in WorkerType
  BY DEF Init, IdleWorker, WorkerType
<1>4. 0 \in 0..MaxAttempts
  BY QueueAssumption
<1>5. QED
  BY <1>2, <1>3, <1>4 DEF Init, TypeOK

\* What the invariants say of the worker's bookkeeping: strikes are counted
\* when an attempt starts, and a call that may start one has strikes left.
StrikeInv ==
    /\ worker.pc \notin {"idle", "stopped"} => worker.on \in Calls
    /\ \A c \in Calls :
        /\ c \in queue \/ status[c] = "new" => attempts[c] < MaxAttempts
        /\ c \in queue \/ worker.on = c => status[c] # "new"
        /\ worker.on = c =>
            /\ c \notin queue
            /\ worker.pc \in {"held", "cooldown"} => attempts[c] < MaxAttempts
            /\ worker.pc \in {"sent", "answered"} => attempts[c] > 0

LEMMA StrikeInit == Init => StrikeInv
  BY QueueAssumption DEF Init, StrikeInv, IdleWorker

LEMMA TypeNext ==
    ASSUME TypeOK, StrikeInv, [Next]_vars
    PROVE  TypeOK' /\ StrikeInv'
<1> USE QueueAssumption
<1>1. ASSUME NEW c \in Calls, NEW req \in Requests, Submit(c, req)
      PROVE  TypeOK' /\ StrikeInv'
  BY <1>1 DEF Submit, TypeOK, StrikeInv
<1>2. ASSUME NEW c \in Calls, Cancel(c)
      PROVE  TypeOK' /\ StrikeInv'
  BY <1>2 DEF Cancel, TypeOK, StrikeInv
<1>3. ASSUME NEW c \in Calls, Take(c)
      PROVE  TypeOK' /\ StrikeInv'
  <2>1. worker' \in WorkerType
    BY <1>3 DEF Take, TypeOK, WorkerType
  <2>2. TypeOK'
    BY <1>3, <2>1 DEF Take, TypeOK, StrikeInv
  <2>3. StrikeInv'
    BY <1>3 DEF Take, TypeOK, StrikeInv, WorkerType
  <2>4. QED
    BY <2>2, <2>3
<1>4. ASSUME NEW c \in Calls, Dispatch(c)
      PROVE  TypeOK' /\ StrikeInv'
  BY <1>4 DEF Dispatch, TypeOK, StrikeInv, WorkerType
<1>5. ASSUME NEW c \in Calls,
             NEW reply \in {"ok", "quota", "refused", "failed"},
             IgAnswers(c, reply)
      PROVE  TypeOK' /\ StrikeInv'
  <2>1. worker' \in WorkerType
    BY <1>5 DEF IgAnswers, TypeOK, WorkerType
  <2>2. TypeOK'
    BY <1>5, <2>1 DEF IgAnswers, TypeOK, StrikeInv
  <2>3. StrikeInv'
    BY <1>5 DEF IgAnswers, TypeOK, StrikeInv, WorkerType
  <2>4. QED
    BY <2>2, <2>3
<1>6. ASSUME NEW c \in Calls, Succeed(c)
      PROVE  TypeOK' /\ StrikeInv'
  BY <1>6 DEF Succeed, Answered, Resolve, IdleWorker, TypeOK, StrikeInv, WorkerType
<1>7. ASSUME NEW c \in Calls, RateLimited(c)
      PROVE  TypeOK' /\ StrikeInv'
  <2>1. worker' \in WorkerType
    BY <1>7 DEF RateLimited, Answered, TypeOK, WorkerType
  <2>2. TypeOK'
    BY <1>7, <2>1 DEF RateLimited, Answered, TypeOK, StrikeInv
  <2>3. StrikeInv'
    BY <1>7 DEF RateLimited, Answered, TypeOK, StrikeInv, WorkerType
  <2>4. QED
    BY <2>2, <2>3
<1>8. ASSUME NEW c \in Calls, CooldownEnds(c)
      PROVE  TypeOK' /\ StrikeInv'
  BY <1>8 DEF CooldownEnds, IdleWorker, TypeOK, StrikeInv, WorkerType
<1>9. ASSUME NEW c \in Calls, Retry(c)
      PROVE  TypeOK' /\ StrikeInv'
  BY <1>9 DEF Retry, Retriable, IdleWorker, TypeOK, StrikeInv, WorkerType
<1>10. ASSUME NEW c \in Calls, Abandon(c)
       PROVE  TypeOK' /\ StrikeInv'
  BY <1>10 DEF Abandon, Answered, Resolve, IdleWorker, TypeOK, StrikeInv, WorkerType
<1>11. CASE Stop
  <2>1. worker' \in WorkerType
    BY <1>11 DEF Stop, IdleWorker, TypeOK, WorkerType
  <2>2. TypeOK'
    BY <1>11, <2>1 DEF Stop, IdleWorker, TypeOK, StrikeInv
  <2>3. StrikeInv'
    BY <1>11 DEF Stop, IdleWorker, TypeOK, StrikeInv, WorkerType
  <2>4. QED
    BY <2>2, <2>3
<1>12. ASSUME NEW c \in Calls, LateEffect(c)
       PROVE  TypeOK' /\ StrikeInv'
  BY <1>12 DEF LateEffect, TypeOK, StrikeInv
<1>13. CASE UNCHANGED vars
  BY <1>13 DEF vars, TypeOK, StrikeInv
<1>14. QED
  BY <1>1, <1>2, <1>3, <1>4, <1>5, <1>6, <1>7, <1>8, <1>9, <1>10, <1>11,
     <1>12, <1>13
     DEF Next, WorkerStep, Handle, IgStep

LEMMA Invariants == Spec => [](TypeOK /\ StrikeInv)
  BY TypeInit, StrikeInit, TypeNext, PTL DEF Spec

\* Every reachable state is well typed: no call is attempted more than
\* MaxAttempts times, quota errors apart.
THEOREM TypeCorrect == Spec => []TypeOK
  BY Invariants, PTL

-----------------------------------------------------------------------------
(* A waiting call is overtaken at most once *)

\* A call that may still be overtaken by the held call has not been yet, and a
\* call that is not waiting any more is overtaken by nobody.
OvertakeInv ==
    \A c \in Calls :
        /\ overtaken[c] <= 1
        /\ status[c] = "new" => overtaken[c] = 0
        /\ c \in queue /\ worker.pc = "held" /\ Ahead(c, worker.on)
           => overtaken[c] = 0

LEMMA OvertakeInit == Init => OvertakeInv
  BY DEF Init, OvertakeInv

\* The order of the queue is strict.
LEMMA AheadIsStrict ==
    ASSUME TypeOK, NEW c \in Calls, NEW d \in Calls, Ahead(c, d)
    PROVE  ~Ahead(d, c)
<1>1. /\ c \in Nat /\ d \in Nat
      /\ request[c].priority \in Nat /\ request[d].priority \in Nat
  BY QueueAssumption DEF TypeOK
<1>2. QED
  BY <1>1 DEF Ahead

LEMMA OvertakeNext ==
    ASSUME TypeOK, StrikeInv, OvertakeInv, [Next]_vars
    PROVE  OvertakeInv'
<1>1. ASSUME NEW c \in Calls, NEW req \in Requests, Submit(c, req)
      PROVE  OvertakeInv'
  <2> SUFFICES ASSUME NEW d \in Calls
               PROVE  /\ overtaken'[d] <= 1
                      /\ status'[d] = "new" => overtaken'[d] = 0
                      /\ d \in queue' /\ worker'.pc = "held"
                         /\ Ahead(d, worker.on)'
                         => overtaken'[d] = 0
    BY <1>1 DEF OvertakeInv, Submit, Ahead
  <2>1. overtaken' = overtaken /\ worker' = worker
    BY <1>1 DEF Submit
  <2>2. CASE d = c
    BY <1>1, <2>1, <2>2 DEF Submit, OvertakeInv
  <2>3. CASE d # c
    <3>1. request'[d] = request[d] /\ status'[d] = status[d]
          /\ (d \in queue' => d \in queue)
      BY <1>1, <2>3 DEF Submit, TypeOK
    <3>2. worker.pc = "held" => worker.on # c /\ worker.on \in Calls
      BY <1>1 DEF Submit, StrikeInv
    <3>3. worker.pc = "held" => request'[worker.on] = request[worker.on]
      BY <1>1, <3>2 DEF Submit, TypeOK
    <3>4. QED
      BY <2>1, <3>1, <3>3 DEF OvertakeInv, Ahead
  <2>4. QED
    BY <2>2, <2>3
<1>2. ASSUME NEW c \in Calls, Cancel(c)
      PROVE  OvertakeInv'
  BY <1>2 DEF Cancel, OvertakeInv, Ahead
<1>3. ASSUME NEW c \in Calls, Take(c)
      PROVE  OvertakeInv'
  <2>1. /\ worker'.on = c /\ request' = request /\ status' = status
        /\ overtaken' = overtaken /\ queue' = queue \ {c}
    BY <1>3 DEF Take, TypeOK, WorkerType
  <2>2. \A d \in queue' : ~Ahead(d, c)
    BY <1>3, AheadIsStrict DEF Take, TypeOK
  <2>3. QED
    BY <2>1, <2>2 DEF OvertakeInv, Ahead
<1>4. ASSUME NEW c \in Calls, Dispatch(c)
      PROVE  OvertakeInv'
  <2>1. worker'.pc = "sent" /\ worker.pc = "held" /\ worker.on = c
    BY <1>4 DEF Dispatch, TypeOK, WorkerType
  <2>2. \A d \in Calls : overtaken'[d] = overtaken[d] +
                           IF d \in queue /\ Ahead(d, c) THEN 1 ELSE 0
    BY <1>4 DEF Dispatch
  <2>3. \A d \in Calls : status'[d] = "new" => status[d] = "new" /\ d \notin queue
    BY <1>4 DEF Dispatch, TypeOK, StrikeInv
  <2>4. \A d \in Calls : overtaken[d] \in Nat
    BY DEF TypeOK
  <2>5. QED
    BY <2>1, <2>2, <2>3, <2>4 DEF OvertakeInv
<1>5. ASSUME NEW c \in Calls,
             NEW reply \in {"ok", "quota", "refused", "failed"},
             IgAnswers(c, reply)
      PROVE  OvertakeInv'
  BY <1>5 DEF IgAnswers, OvertakeInv, TypeOK, WorkerType
<1>6. ASSUME NEW c \in Calls, Handle(c) \/ CooldownEnds(c)
      PROVE  OvertakeInv'
  <2> DEFINE Settled ==
               /\ overtaken' = overtaken
               /\ worker'.pc # "held"
               /\ \A d \in Calls : status'[d] = "new" => status[d] = "new"
  <2>1. CASE Succeed(c)
    <3>1. Settled
      BY <2>1 DEF Succeed, IdleWorker, TypeOK
    <3>2. QED
      BY <3>1 DEF OvertakeInv
  <2>2. CASE RateLimited(c)
    <3>1. Settled
      BY <2>2 DEF RateLimited, TypeOK, WorkerType
    <3>2. QED
      BY <3>1 DEF OvertakeInv
  <2>3. CASE Retry(c)
    <3>1. Settled
      BY <2>3 DEF Retry, IdleWorker, TypeOK
    <3>2. QED
      BY <3>1 DEF OvertakeInv
  <2>4. CASE Abandon(c)
    <3>1. Settled
      BY <2>4 DEF Abandon, IdleWorker, TypeOK
    <3>2. QED
      BY <3>1 DEF OvertakeInv
  <2>5. CASE CooldownEnds(c)
    <3>1. Settled
      BY <2>5 DEF CooldownEnds, IdleWorker, TypeOK
    <3>2. QED
      BY <3>1 DEF OvertakeInv
  <2>6. QED
    BY <1>6, <2>1, <2>2, <2>3, <2>4, <2>5 DEF Handle
<1>7. CASE Stop
  BY <1>7 DEF Stop, OvertakeInv, IdleWorker
<1>8. ASSUME NEW c \in Calls, LateEffect(c)
      PROVE  OvertakeInv'
  BY <1>8 DEF LateEffect, OvertakeInv, Ahead
<1>9. CASE UNCHANGED vars
  BY <1>9 DEF vars, OvertakeInv, Ahead
<1>10. QED
  BY <1>1, <1>2, <1>3, <1>4, <1>5, <1>6, <1>7, <1>8, <1>9
     DEF Next, WorkerStep, IgStep

\* At most one attempt of a later or less urgent call goes out before a
\* waiting call, however long the guard blocks.
THEOREM OvertakenBound == Spec => []OvertakenOnce
<1>1. OvertakeInv => OvertakenOnce
  BY DEF OvertakeInv, OvertakenOnce
<1>2. QED
  BY <1>1, OvertakeInit, OvertakeNext, Invariants, PTL DEF Spec

-----------------------------------------------------------------------------
(* The queue implements CallOnce *)

\* The calls IG has certainly not carried out yet: queued, held, sent, cooling
\* down, or answered without success; a write without an answer is in doubt.
Undone(c) ==
    \/ c \in queue
    \/ /\ worker.on = c /\ ~Answered("ok")
       /\ Answered("failed") => ~request[c].write

\* What is known of call c at any time.
CallInv(c) ==
    /\ promise[c] = "none" <=> status[c] = "new"
    /\ status[c] = "new" => effects[c] = 0 /\ c \notin doubt
    /\ c \in queue \/ worker.on = c => promise[c] \in {"pending", "cancelled"}
    /\ Undone(c) => effects[c] = 0
    /\ c \in doubt => /\ effects[c] = 0
                      /\ request[c].write
                      /\ promise[c] \in {"pending", "cancelled", "unknown"}
                      /\ c \notin queue
                      /\ worker.on = c => Answered("failed")
    /\ Answered("ok") /\ worker.on = c => effects[c] = 1

ContractInv == \A c \in Calls : CallInv(c)

LEMMA ContractInit == Init => ContractInv /\ Contract!Init
<1> SUFFICES ASSUME Init PROVE ContractInv /\ Contract!Init
  OBVIOUS
<1>1. \A c \in Calls : worker.on # c
  BY QueueAssumption DEF Init, IdleWorker
<1>2. ContractInv
  BY <1>1 DEF Init, ContractInv, CallInv, Undone, Answered, IdleWorker
<1>3. QED
  BY <1>2 DEF Init, Contract!Init

\* Every step keeps the invariant and is a step of CallOnce or a stutter.
LEMMA ContractNext ==
    ASSUME TypeOK, StrikeInv, ContractInv, [Next]_vars
    PROVE  ContractInv' /\ [Contract!Next]_<<promise, effects>>
<1> USE QueueAssumption
<1>1. ASSUME NEW c \in Calls, NEW req \in Requests, Submit(c, req)
      PROVE  ContractInv' /\ [Contract!Next]_<<promise, effects>>
  <2>1. ContractInv'
    BY <1>1 DEF Submit, TypeOK, StrikeInv, ContractInv, CallInv, Undone, Answered
  <2>2. Contract!Submit(c)
    BY <1>1 DEF Submit, ContractInv, CallInv, Contract!Submit
  <2>3. QED
    BY <2>1, <2>2 DEF Contract!Next
<1>2. ASSUME NEW c \in Calls, Cancel(c)
      PROVE  ContractInv' /\ [Contract!Next]_<<promise, effects>>
  <2>1. ContractInv'
    BY <1>2 DEF Cancel, TypeOK, ContractInv, CallInv, Undone, Answered
  <2>2. Contract!Cancel(c)
    BY <1>2 DEF Cancel, Contract!Cancel
  <2>3. QED
    BY <2>1, <2>2 DEF Contract!Next
<1>3. ASSUME NEW c \in Calls, Take(c)
      PROVE  ContractInv' /\ [Contract!Next]_<<promise, effects>>
  <2>1. ContractInv'
    BY <1>3 DEF Take, TypeOK, WorkerType, ContractInv, CallInv, Undone, Answered
  <2>2. QED
    BY <1>3, <2>1 DEF Take
<1>4. ASSUME NEW c \in Calls, Dispatch(c)
      PROVE  ContractInv' /\ [Contract!Next]_<<promise, effects>>
  <2>1. ContractInv'
    BY <1>4 DEF Dispatch, TypeOK, WorkerType, StrikeInv, ContractInv, CallInv,
                Undone, Answered
  <2>2. QED
    BY <1>4, <2>1 DEF Dispatch
<1>5. ASSUME NEW c \in Calls,
             NEW reply \in {"ok", "quota", "refused", "failed"},
             IgAnswers(c, reply)
      PROVE  ContractInv' /\ [Contract!Next]_<<promise, effects>>
  <2>1. /\ worker.pc = "sent" /\ worker.on = c
        /\ worker'.pc = "answered" /\ worker'.on = c /\ worker'.reply = reply
        /\ c \notin queue /\ queue' = queue /\ promise' = promise
        /\ status' = status /\ request' = request
    BY <1>5 DEF IgAnswers, TypeOK, WorkerType, StrikeInv
  <2>2. /\ promise[c] \in {"pending", "cancelled"} /\ effects[c] = 0
        /\ c \notin doubt
    BY <2>1 DEF ContractInv, CallInv, Undone, Answered
  <2>3. /\ effects'[c] = IF reply = "ok" THEN 1 ELSE 0
        /\ \A d \in Calls : d # c => /\ effects'[d] = effects[d]
                                     /\ d \in doubt' <=> d \in doubt
        /\ c \in doubt' <=> (reply = "failed" /\ request[c].write)
    BY <1>5, <2>2 DEF IgAnswers, TypeOK
  <2>4. ASSUME NEW d \in Calls
        PROVE  CallInv(d)'
    <3>1. CASE d = c
      BY <2>1, <2>2, <2>3, <3>1 DEF ContractInv, CallInv, Undone, Answered
    <3>2. CASE d # c
      BY <2>1, <2>3, <3>2 DEF ContractInv, CallInv, Undone, Answered
    <3>3. QED
      BY <3>1, <3>2
  <2>5. CASE reply = "ok"
    <3>1. effects' = [effects EXCEPT ![c] = 1]
      BY <1>5, <2>2, <2>5 DEF IgAnswers, TypeOK
    <3>2. Contract!CarryOut(c)
      BY <2>1, <2>2, <3>1 DEF Contract!CarryOut
    <3>3. QED
      BY <2>4, <3>2 DEF ContractInv, Contract!Next
  <2>6. CASE reply # "ok"
    <3>1. effects' = effects
      BY <1>5, <2>6 DEF IgAnswers, TypeOK
    <3>2. QED
      BY <2>1, <2>4, <3>1 DEF ContractInv
  <2>7. QED
    BY <2>5, <2>6
<1>6. ASSUME NEW c \in Calls, Succeed(c)
      PROVE  ContractInv' /\ [Contract!Next]_<<promise, effects>>
  <2>1. ContractInv'
    BY <1>6 DEF Succeed, Resolve, IdleWorker, TypeOK, WorkerType, StrikeInv,
                ContractInv, CallInv, Undone, Answered
  <2>2. promise' = promise \/ Contract!Answer(c, "ok")
    BY <1>6 DEF Succeed, Resolve, TypeOK, ContractInv, CallInv,
                Contract!Answer
  <2>3. QED
    BY <1>6, <2>1, <2>2 DEF Succeed, Contract!Next, Contract!Answers
<1>7. ASSUME NEW c \in Calls, RateLimited(c) \/ CooldownEnds(c) \/ Retry(c)
      PROVE  ContractInv' /\ [Contract!Next]_<<promise, effects>>
  <2>1. CASE RateLimited(c)
    BY <2>1 DEF RateLimited, TypeOK, WorkerType, StrikeInv, ContractInv,
                CallInv, Undone, Answered
  <2>2. CASE CooldownEnds(c)
    BY <2>2 DEF CooldownEnds, IdleWorker, TypeOK, WorkerType, StrikeInv,
                ContractInv, CallInv, Undone, Answered
  <2>3. CASE Retry(c)
    BY <2>3 DEF Retry, Retriable, IdleWorker, TypeOK, WorkerType, StrikeInv,
                ContractInv, CallInv, Undone, Answered
  <2>4. QED
    BY <1>7, <2>1, <2>2, <2>3
<1>8. ASSUME NEW c \in Calls, Abandon(c)
      PROVE  ContractInv' /\ [Contract!Next]_<<promise, effects>>
  <2>1. ContractInv'
    BY <1>8 DEF Abandon, Resolve, IdleWorker, TypeOK, WorkerType, StrikeInv,
                ContractInv, CallInv, Undone, Answered
  <2>2. \/ promise' = promise
        \/ Contract!Answer(c, "refused")
        \/ Contract!Answer(c, "unknown")
    BY <1>8 DEF Abandon, Resolve, TypeOK, ContractInv, CallInv, Undone,
                Answered, Contract!Answer
  <2>3. QED
    BY <1>8, <2>1, <2>2 DEF Abandon, Contract!Next, Contract!Answers
<1>9. CASE Stop
  <2>1. ContractInv'
    BY <1>9 DEF Stop, IdleWorker, TypeOK, WorkerType, StrikeInv,
                ContractInv, CallInv, Undone, Answered
  <2>2. QED
    BY <1>9, <2>1 DEF Stop
<1>10. ASSUME NEW c \in Calls, LateEffect(c)
       PROVE  ContractInv' /\ [Contract!Next]_<<promise, effects>>
  <2>1. /\ c \in doubt /\ effects[c] = 0 /\ c \notin queue /\ request[c].write
        /\ promise[c] \in {"pending", "cancelled", "unknown"}
        /\ worker.on = c => Answered("failed")
    BY <1>10 DEF LateEffect, ContractInv, CallInv
  <2>2. /\ doubt' = doubt \ {c} /\ effects' = [effects EXCEPT ![c] = 1]
        /\ UNCHANGED <<request, status, queue, worker, promise>>
    BY <1>10, <2>1 DEF LateEffect, TypeOK
  <2>3. CallInv(c)'
    BY <2>1, <2>2 DEF TypeOK, WorkerType, ContractInv, CallInv, Undone, Answered
  <2>4. ASSUME NEW d \in Calls, d # c
        PROVE  CallInv(d)'
    <3>1. effects'[d] = effects[d] /\ (d \in doubt' <=> d \in doubt)
      BY <2>2, <2>4 DEF TypeOK
    <3>2. QED
      BY <2>2, <3>1 DEF ContractInv, CallInv, Undone, Answered
  <2>5. Contract!CarryOut(c)
    BY <2>1, <2>2 DEF Contract!CarryOut
  <2>6. QED
    BY <2>3, <2>4, <2>5 DEF ContractInv, Contract!Next
<1>11. CASE UNCHANGED vars
  BY <1>11 DEF vars, ContractInv, CallInv, Undone, Answered
<1>12. QED
  BY <1>1, <1>2, <1>3, <1>4, <1>5, <1>6, <1>7, <1>8, <1>9, <1>10, <1>11
     DEF Next, WorkerStep, Handle, IgStep

\* Whatever the queue retries, waits for or leaves behind at shutdown, it keeps
\* the promise of CallOnce: one answer, a true one, and no call carried out
\* twice.
THEOREM KeepsContract == Spec => CallOnceSpec
<1>1. ContractInv /\ TypeOK /\ StrikeInv /\ [Next]_vars
      => ContractInv' /\ [Contract!Next]_<<promise, effects>>
  BY ContractNext
<1>2. QED
  BY <1>1, ContractInit, Invariants, PTL
     DEF Spec, CallOnceSpec, Contract!Spec
=============================================================================
