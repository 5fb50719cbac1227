------------------------------ MODULE ApiQueue ------------------------------
(***************************************************************************)
(* APIQueue: every IG call of the bot goes through one worker, most urgent *)
(* first, first come first served within a priority.                       *)
(*                                                                         *)
(* A call is its seq, the number it is submitted under.  What happens at   *)
(* one await of the worker is one action: the guard letting the held call  *)
(* go, IG's answer, the code that runs on it, the end of a quota wait.     *)
(* The guard (APIGuard) has the worker as its only user, so after          *)
(* wait_until_ready its own check lets the call pass, and a quota block    *)
(* lasts exactly as long as the worker's wait: neither needs a variable.   *)
(* The counters, the ring buffers and the logs are left out.               *)
(***************************************************************************)
EXTENDS Naturals, FiniteSets

CONSTANTS
    Calls,         \* seqs
    Requests,      \* what a producer may submit: [write, probe, priority]
    MaxAttempts,   \* queue_max_attempts
    NoCall,
    Events         \* what may happen in this instance

(***************************************************************************)
(* Events: "cancel" (a task is cancelled while it awaits its call: catch-up*)
(* and the jobs at shutdown), "stop" (APIQueue.stop).                      *)
(***************************************************************************)
ASSUME QueueAssumption ==
    /\ Calls \subseteq Nat
    /\ NoCall \notin Calls
    /\ Requests \subseteq [write : BOOLEAN, probe : BOOLEAN, priority : Nat]
    /\ Requests # {}
    /\ MaxAttempts \in Nat \ {0}
    /\ Events \subseteq {"cancel", "stop"}

VARIABLES
    request,    \* [Calls -> Requests], meaningful once submitted
    status,     \* [Calls -> QueueStatus, or "new"]
    attempts,   \* [Calls -> strikes so far, the running attempt included]
    queue,      \* the calls in the PriorityQueue
    worker,     \* [pc, on, reply]: what the worker does, with which call
    promise,    \* [Calls -> what the caller knows]: the future
    effects,    \* [Calls -> how often IG carried the call out]
    doubt,      \* writes sent without an answer, IG may still carry them out
    overtaken   \* history: [Calls -> calls served before it out of turn]

vars == <<request, status, attempts, queue, worker, promise, effects, doubt,
          overtaken>>

WorkerType == [pc : {"idle", "held", "sent", "answered", "cooldown",
                     "stopped"},
               on : Calls \cup {NoCall},
               reply : {"none", "ok", "quota", "refused", "failed"}]

IdleWorker == [pc |-> "idle", on |-> NoCall, reply |-> "none"]

\* The order of the PriorityQueue: (priority, seq).
Ahead(c, d) ==
    \/ request[c].priority < request[d].priority
    \/ request[c].priority = request[d].priority /\ c < d

Answered(reply) == worker.pc = "answered" /\ worker.reply = reply

-----------------------------------------------------------------------------
(* Producers *)

\* _submit: seqs are handed out in order.
Submit(c, req) ==
    /\ status[c] = "new"
    /\ \A d \in Calls : d < c => status[d] # "new"
    /\ request' = [request EXCEPT ![c] = req]
    /\ status' = [status EXCEPT ![c] = "pending"]
    /\ queue' = queue \cup {c}
    /\ promise' = [promise EXCEPT ![c] = "pending"]
    /\ UNCHANGED <<attempts, worker, effects, doubt, overtaken>>

\* The awaiting task is cancelled, and the future with it.  The queue does not
\* notice: the call keeps its turn.
Cancel(c) ==
    /\ "cancel" \in Events
    /\ promise[c] = "pending"
    /\ promise' = [promise EXCEPT ![c] = "cancelled"]
    /\ UNCHANGED <<request, status, attempts, queue, worker, effects, doubt,
                   overtaken>>

-----------------------------------------------------------------------------
(* The worker *)

\* _run_worker takes the first call and holds it while the guard has no room.
Take(c) ==
    /\ worker.pc = "idle"
    /\ c \in queue
    /\ \A d \in queue \ {c} : Ahead(c, d)
    /\ queue' = queue \ {c}
    /\ worker' = [worker EXCEPT !.pc = "held", !.on = c]
    /\ UNCHANGED <<request, status, attempts, promise, effects, doubt,
                   overtaken>>

\* wait_until_ready returns: one attempt of the held call starts.
Dispatch(c) ==
    /\ worker.pc = "held" /\ worker.on = c
    /\ status' = [status EXCEPT ![c] = "running"]
    /\ attempts' = [attempts EXCEPT ![c] = @ + 1]
    /\ worker' = [worker EXCEPT !.pc = "sent"]
    /\ overtaken' = [d \in Calls |->
                       overtaken[d] + IF d \in queue /\ Ahead(d, c) THEN 1
                                      ELSE 0]
    /\ UNCHANGED <<request, queue, promise, effects, doubt>>

\* IG's answer, or none.  A quota error, a 4xx and a failed token refresh mean
\* that nothing was done; a 5xx and a network error leave it open.
IgAnswers(c, reply) ==
    /\ worker.pc = "sent" /\ worker.on = c
    /\ worker' = [worker EXCEPT !.pc = "answered", !.reply = reply]
    /\ effects' = [effects EXCEPT ![c] = IF reply = "ok" THEN @ + 1 ELSE @]
    /\ doubt' = IF reply = "failed" /\ request[c].write THEN doubt \cup {c}
                ELSE doubt
    /\ UNCHANGED <<request, status, attempts, queue, promise, overtaken>>

\* The future gets its result unless its caller is gone.
Resolve(c, answer) ==
    promise' = [promise EXCEPT ![c] = IF @ = "pending" THEN answer ELSE @]

Succeed(c) ==
    /\ Answered("ok") /\ worker.on = c
    /\ status' = [status EXCEPT ![c] = "done"]
    /\ Resolve(c, "ok")
    /\ worker' = IdleWorker
    /\ UNCHANGED <<request, attempts, queue, effects, doubt, overtaken>>

\* A quota error is no strike: the worker sits out the guard's cooldown.
RateLimited(c) ==
    /\ Answered("quota") /\ worker.on = c
    /\ attempts' = [attempts EXCEPT ![c] = @ - 1]
    /\ worker' = [worker EXCEPT !.pc = "cooldown", !.reply = "none"]
    /\ UNCHANGED <<request, status, queue, promise, effects, doubt, overtaken>>

\* Mutant: the call that hit the quota is not put back.
CooldownForgets(c) ==
    /\ worker.pc = "cooldown" /\ worker.on = c
    /\ status' = [status EXCEPT ![c] = "pending"]
    /\ worker' = IdleWorker
    /\ UNCHANGED <<request, attempts, queue, promise, effects, doubt, overtaken>>

\* _enqueue: the call comes back under its own seq.
CooldownEnds(c) ==
    /\ worker.pc = "cooldown" /\ worker.on = c
    /\ status' = [status EXCEPT ![c] = "pending"]
    /\ queue' = queue \cup {c}
    /\ worker' = IdleWorker
    /\ UNCHANGED <<request, attempts, promise, effects, doubt, overtaken>>

\* Mutant: every call that got no answer is retried.
RetriableAny(c) ==
    /\ ~request[c].probe
    /\ worker.reply = "failed"
    /\ attempts[c] < MaxAttempts

\* Mutant: one attempt too many.
RetriableOnceMore(c) ==
    /\ ~request[c].write /\ ~request[c].probe
    /\ worker.reply = "failed"
    /\ attempts[c] <= MaxAttempts

\* Only a GET that is no probe, and only after a transient failure.
Retriable(c) ==
    /\ ~request[c].write /\ ~request[c].probe
    /\ worker.reply = "failed"
    /\ attempts[c] < MaxAttempts

\* Mutant: the worker keeps the call and tries again at once.
RetryAtOnce(c) ==
    /\ worker.pc = "answered" /\ worker.on = c
    /\ Retriable(c)
    /\ status' = [status EXCEPT ![c] = "pending"]
    /\ worker' = [worker EXCEPT !.pc = "held", !.reply = "none"]
    /\ UNCHANGED <<request, attempts, queue, promise, effects, doubt, overtaken>>

Retry(c) ==
    /\ worker.pc = "answered" /\ worker.on = c
    /\ Retriable(c)
    /\ status' = [status EXCEPT ![c] = "pending"]
    /\ queue' = queue \cup {c}
    /\ worker' = IdleWorker
    /\ UNCHANGED <<request, attempts, promise, effects, doubt, overtaken>>

Abandon(c) ==
    /\ Answered("refused") \/ Answered("failed")
    /\ worker.on = c
    /\ ~Retriable(c)
    /\ status' = [status EXCEPT ![c] = "error"]
    /\ Resolve(c, IF worker.reply = "refused" THEN "refused" ELSE "unknown")
    /\ worker' = IdleWorker
    /\ UNCHANGED <<request, attempts, queue, effects, doubt, overtaken>>

\* stop: the worker is cancelled, the calls it has not finished keep their
\* futures pending for ever.
Stop ==
    /\ "stop" \in Events
    /\ worker.pc # "stopped"
    /\ doubt' = IF worker.pc = "sent" /\ request[worker.on].write
                THEN doubt \cup {worker.on} ELSE doubt
    /\ worker' = [IdleWorker EXCEPT !.pc = "stopped"]
    /\ UNCHANGED <<request, status, attempts, queue, promise, effects,
                   overtaken>>

\* A request nobody waits for any more reaches IG after all.
LateEffect(c) ==
    /\ c \in doubt
    /\ doubt' = doubt \ {c}
    /\ effects' = [effects EXCEPT ![c] = @ + 1]
    /\ UNCHANGED <<request, status, attempts, queue, worker, promise, overtaken>>

-----------------------------------------------------------------------------
Init ==
    /\ request \in [Calls -> {CHOOSE req \in Requests : TRUE}]
    /\ status = [c \in Calls |-> "new"]
    /\ attempts = [c \in Calls |-> 0]
    /\ queue = {}
    /\ worker = IdleWorker
    /\ promise = [c \in Calls |-> "none"]
    /\ effects = [c \in Calls |-> 0]
    /\ doubt = {}
    /\ overtaken = [c \in Calls |-> 0]

Handle(c) == \/ Succeed(c) \/ RateLimited(c) \/ Retry(c) \/ Abandon(c)
WorkerStep(c) == \/ Take(c) \/ Dispatch(c) \/ Handle(c) \/ CooldownEnds(c)
IgStep(c) == \E reply \in {"ok", "quota", "refused", "failed"} :
                 IgAnswers(c, reply)

Next ==
    \/ \E c \in Calls : \/ \E req \in Requests : Submit(c, req)
                        \/ Cancel(c) \/ WorkerStep(c) \/ IgStep(c)
                        \/ LateEffect(c)
    \/ Stop

Spec == Init /\ [][Next]_vars

\* The worker keeps running, httpx gives up after 30 s, the guard's windows
\* and blocks expire, and IG does not answer with a quota error for ever.
Fairness ==
    \A c \in Calls :
        /\ WF_vars(WorkerStep(c)) /\ WF_vars(IgStep(c))
        /\ SF_vars(IgStep(c) /\ worker'.reply # "quota")

FairSpec == Spec /\ Fairness

-----------------------------------------------------------------------------
(* Properties *)

\* Every variable stays in its type; a call is never attempted more than
\* MaxAttempts times, quota errors apart.
TypeOK ==
    /\ request \in [Calls -> Requests]
    /\ status \in [Calls -> {"new", "pending", "running", "done", "error"}]
    /\ attempts \in [Calls -> 0..MaxAttempts]
    /\ queue \in SUBSET Calls
    /\ worker \in WorkerType
    /\ promise \in [Calls -> {"none", "pending", "cancelled", "ok", "refused",
                              "unknown"}]
    /\ effects \in [Calls -> Nat]
    /\ doubt \in SUBSET Calls
    /\ overtaken \in [Calls -> Nat]

\* However long the guard blocks and however often calls are retried, at most
\* one attempt of a later or less urgent call goes out before a waiting call:
\* the one the worker already holds (APIQueue, "urgent calls jump ahead").
OvertakenOnce == \A c \in Calls : overtaken[c] <= 1

\* The queue keeps the promise of CallOnce: a write is never re-sent, so a
\* retry, a quota wait or a shutdown never opens or closes a position twice,
\* and a call answered with a 4xx was not carried out.
Contract == INSTANCE CallOnce WITH Calls <- Calls, promise <- promise, effects <- effects
CallOnceSpec == Contract!Spec

\* Every call is answered in the end, unless its caller left or the queue was
\* stopped, however many calls are ahead and however often IG is over quota.
EveryCallAnswered ==
    \A c \in Calls : promise[c] = "pending"
                    ~> (promise[c] # "pending" \/ worker.pc = "stopped")

=============================================================================
