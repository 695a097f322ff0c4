------------------------------ MODULE ChatJobs ------------------------------
(***************************************************************************)
(* The background chat jobs of src/src/pcketlm/app/web/main.py: a table of *)
(* jobs behind one lock, one daemon thread per queued job, and the threads *)
(* of ThreadingHTTPServer that start, cancel and poll jobs.                *)
(*                                                                         *)
(* Every mutation of a job is made under _CHAT_JOBS_LOCK, and a section    *)
(* whose effect no other thread can see in part is one action.  What a     *)
(* worker publishes when it ends is seen in part: a handler builds its     *)
(* JSON answer from the job object after it has released the lock.  So the *)
(* publication is two actions, with the lock held between them, and the    *)
(* answer is built in two reads.                                           *)
(***************************************************************************)
EXTENDS Integers

CONSTANTS
  Jobs,      \* the job ids uuid4 may hand out
  Handlers,  \* the request threads of the HTTP server
  TTL,       \* CHAT_JOB_TTL_SECONDS, in ticks
  MaxClock,  \* bounds the clock
  Free,      \* the lock is not held
  None       \* no job, no result

ASSUME ConstantsAssumption ==
  /\ TTL \in Nat /\ MaxClock \in Nat
  /\ Free \notin Jobs /\ None \notin Jobs
  /\ None \notin {"full", "partial"}

VARIABLES
  clock,      \* time.time(), in ticks
  table,      \* the keys of _CHAT_JOBS
  status,     \* ChatJob.status, "absent" before the job is inserted
  cancelReq,  \* ChatJob.cancel_requested
  result,     \* ChatJob.result: what the run returned
  updatedAt,  \* ChatJob.updated_at
  lock,       \* the worker that holds _CHAT_JOBS_LOCK between two steps
  worker,     \* where the thread of each job is
  outcome,    \* what the run of the job returned to its worker
  handler     \* what each request thread is doing, and what it has answered

jobVars == <<table, status, cancelReq, result, updatedAt>>
threadVars == <<lock, worker, outcome>>
vars == <<clock, jobVars, threadVars, handler>>

Terminal == {"completed", "failed", "canceled"}
Statuses == {"absent", "queued", "running"} \cup Terminal
Results == {"full", "partial", None}

\* A request thread between two requests.
Idle == [at |-> "idle", job |-> None, status |-> "absent", result |-> None]

TypeOK ==
  /\ clock \in 0..MaxClock
  /\ table \subseteq Jobs
  /\ status \in [Jobs -> Statuses]
  /\ cancelReq \in [Jobs -> BOOLEAN]
  /\ result \in [Jobs -> Results]
  /\ updatedAt \in [Jobs -> 0..MaxClock]
  /\ lock \in Jobs \cup {Free}
  /\ worker \in [Jobs -> {"none", "spawned", "fetched", "running", "returned",
                          "raised", "publishing", "done"}]
  /\ outcome \in [Jobs -> Results]
  /\ handler \in [Handlers ->
       [at : {"idle", "starting", "inserted", "read", "answered"},
        job : Jobs \cup {None}, status : Statuses, result : Results]]

Init ==
  /\ clock = 0
  /\ table = {}
  /\ status = [j \in Jobs |-> "absent"]
  /\ cancelReq = [j \in Jobs |-> FALSE]
  /\ result = [j \in Jobs |-> None]
  /\ updatedAt = [j \in Jobs |-> 0]
  /\ lock = Free
  /\ worker = [j \in Jobs |-> "none"]
  /\ outcome = [j \in Jobs |-> None]
  /\ handler = [h \in Handlers |-> Idle]

Between(h) == handler[h].at \in {"idle", "answered"}

Goto(h, where, j) ==
  handler' = [handler EXCEPT ![h] = [Idle EXCEPT !.at = where, !.job = j]]

-----------------------------------------------------------------------------
(* Mutants: variants of the definitions below that a plausible bug would    *)
(* leave in the code.  No specification uses them.                          *)

\* The cleanup forgets to test for a final status.
ExpiredAnyStatus == {j \in table : clock - updatedAt[j] > TTL}

\* Cancel marks the job whatever its status.
CancelAnyStatus(h, j) ==
  /\ Between(h) /\ lock = Free
  /\ j \in table
  /\ cancelReq' = [cancelReq EXCEPT ![j] = TRUE]
  /\ updatedAt' = [updatedAt EXCEPT ![j] = clock]
  /\ status' = [status EXCEPT ![j] = "canceled"]
  /\ Goto(h, "read", j)
  /\ UNCHANGED <<clock, table, result, threadVars>>

\* The worker does not look at the flag before it starts the run.
ClaimUnchecked(j) ==
  /\ worker[j] = "fetched" /\ lock = Free
  /\ updatedAt' = [updatedAt EXCEPT ![j] = clock]
  /\ status' = [status EXCEPT ![j] = "running"]
  /\ worker' = [worker EXCEPT ![j] = "running"]
  /\ UNCHANGED <<clock, table, cancelReq, result, lock, outcome, handler>>

\* The canceled branch forgets job.result = None after an early assignment.
PublishResultAlways(j) ==
  /\ worker[j] = "publishing"
  /\ result' = [result EXCEPT ![j] = outcome[j]]
  /\ updatedAt' = [updatedAt EXCEPT ![j] = clock]
  /\ lock' = Free
  /\ worker' = [worker EXCEPT ![j] = "done"]
  /\ UNCHANGED <<clock, table, status, cancelReq, outcome, handler>>

\* The exception handler records no status.
PublishFailureSilently(j) ==
  /\ worker[j] = "raised" /\ lock = Free
  /\ updatedAt' = [updatedAt EXCEPT ![j] = clock]
  /\ worker' = [worker EXCEPT ![j] = "done"]
  /\ UNCHANGED <<clock, table, status, cancelReq, result, lock, outcome, handler>>

\* The exception handler records a status no client knows.
PublishFailureAsError(j) ==
  /\ worker[j] = "raised" /\ lock = Free
  /\ status' = [status EXCEPT ![j] = "error"]
  /\ updatedAt' = [updatedAt EXCEPT ![j] = clock]
  /\ worker' = [worker EXCEPT ![j] = "done"]
  /\ UNCHANGED <<clock, table, cancelReq, result, lock, outcome, handler>>

-----------------------------------------------------------------------------
(* Requests                                                                *)

\* Jobs _cleanup_chat_jobs drops: final, and untouched for longer than TTL.
Expired == {j \in table : status[j] \in Terminal /\ clock - updatedAt[j] > TTL}

\* _start_chat_job, first half: clean the table, then make a ChatJob object no
\* other thread can see yet.
StartChatJob(h, j) ==
  /\ Between(h) /\ lock = Free
  /\ status[j] = "absent"
  /\ \A g \in Handlers : handler[g].job # j
  /\ table' = table \ Expired
  /\ Goto(h, "starting", j)
  /\ UNCHANGED <<clock, status, cancelReq, result, updatedAt, threadVars>>

\* The instant answer (a guard, a local fact, a cached response) raised: the
\* request is answered with an error and the job is never inserted.
StartRaises(h) ==
  /\ handler[h].at = "starting"
  /\ Goto(h, "idle", None)
  /\ UNCHANGED <<clock, jobVars, threadVars>>

\* An instant answer: the job enters the table completed and has no thread.
InsertAnswered(h) ==
  LET j == handler[h].job IN
  /\ handler[h].at = "starting" /\ lock = Free
  /\ table' = table \cup {j}
  /\ status' = [status EXCEPT ![j] = "completed"]
  /\ result' = [result EXCEPT ![j] = "full"]
  /\ updatedAt' = [updatedAt EXCEPT ![j] = clock]
  /\ Goto(h, "read", j)
  /\ UNCHANGED <<clock, cancelReq, threadVars>>

InsertQueued(h) ==
  LET j == handler[h].job IN
  /\ handler[h].at = "starting" /\ lock = Free
  /\ table' = table \cup {j}
  /\ status' = [status EXCEPT ![j] = "queued"]
  /\ updatedAt' = [updatedAt EXCEPT ![j] = clock]
  /\ Goto(h, "inserted", j)
  /\ UNCHANGED <<clock, cancelReq, result, threadVars>>

\* threading.Thread(target=_chat_job_worker).start(), after the lock is released.
SpawnWorker(h) ==
  LET j == handler[h].job IN
  /\ handler[h].at = "inserted"
  /\ worker' = [worker EXCEPT ![j] = "spawned"]
  /\ Goto(h, "read", j)
  /\ UNCHANGED <<clock, jobVars, lock, outcome>>

\* GET /api/chat/status: look the job up under the lock, read it afterwards.
PollChatJob(h, j) ==
  /\ Between(h) /\ lock = Free
  /\ j \in table
  /\ Goto(h, "read", j)
  /\ UNCHANGED <<clock, jobVars, threadVars>>

\* _cancel_chat_job.  The flag is raised whatever the status; only a queued job
\* changes status here.
CancelChatJob(h, j) ==
  /\ Between(h) /\ lock = Free
  /\ j \in table
  /\ cancelReq' = [cancelReq EXCEPT ![j] = TRUE]
  /\ updatedAt' = [updatedAt EXCEPT ![j] = clock]
  /\ status' = IF status[j] = "queued" THEN [status EXCEPT ![j] = "canceled"]
                                       ELSE status
  /\ Goto(h, "read", j)
  /\ UNCHANGED <<clock, table, result, threadVars>>

\* _chat_job_payload reads the fields one after the other, without the lock:
\* first status ...
ReadStatus(h) ==
  LET j == handler[h].job IN
  /\ handler[h].at = "read" /\ handler[h].status = "absent"
  /\ handler' = [handler EXCEPT ![h].status = status[j]]
  /\ UNCHANGED <<clock, jobVars, threadVars>>

\* ... then result; the answer is sent.
ReadResult(h) ==
  LET j == handler[h].job IN
  /\ handler[h].at = "read" /\ handler[h].status # "absent"
  /\ handler' = [handler EXCEPT ![h].result = result[j], ![h].at = "answered"]
  /\ UNCHANGED <<clock, jobVars, threadVars>>

-----------------------------------------------------------------------------
(* The worker thread of job j: _chat_job_worker                            *)

\* A job that was canceled while queued may have expired before its thread runs.
WorkerFetch(j) ==
  /\ worker[j] = "spawned" /\ lock = Free
  /\ worker' = [worker EXCEPT ![j] = IF j \in table THEN "fetched" ELSE "done"]
  /\ UNCHANGED <<clock, jobVars, lock, outcome, handler>>

WorkerClaim(j) ==
  /\ worker[j] = "fetched" /\ lock = Free
  /\ updatedAt' = [updatedAt EXCEPT ![j] = clock]
  /\ \/ /\ cancelReq[j]
        /\ status' = [status EXCEPT ![j] = "canceled"]
        /\ worker' = [worker EXCEPT ![j] = "done"]
     \/ /\ ~cancelReq[j]
        /\ status' = [status EXCEPT ![j] = "running"]
        /\ worker' = [worker EXCEPT ![j] = "running"]
  /\ UNCHANGED <<clock, table, cancelReq, result, lock, outcome, handler>>

\* _run_chat_payload returns.  The decode loop reads the flag between layers and
\* tokens, so a run may stop early once the flag is up, or miss it.
RunReturns(j) ==
  /\ worker[j] = "running"
  /\ \E r \in {"full"} \cup (IF cancelReq[j] THEN {"partial"} ELSE {}) :
       outcome' = [outcome EXCEPT ![j] = r]
  /\ worker' = [worker EXCEPT ![j] = "returned"]
  /\ UNCHANGED <<clock, jobVars, lock, handler>>

RunRaises(j) ==
  /\ worker[j] = "running"
  /\ worker' = [worker EXCEPT ![j] = "raised"]
  /\ UNCHANGED <<clock, jobVars, lock, outcome, handler>>

\* The last section of the worker, up to its first visible assignment: the flag
\* is read under the lock, so no cancel falls between the test and the status.
PublishStatus(j) ==
  /\ worker[j] = "returned" /\ lock = Free
  /\ status' = [status EXCEPT ![j] = IF cancelReq[j] THEN "canceled" ELSE "completed"]
  /\ lock' = j
  /\ worker' = [worker EXCEPT ![j] = "publishing"]
  /\ UNCHANGED <<clock, table, cancelReq, result, updatedAt, outcome, handler>>

PublishResult(j) ==
  /\ worker[j] = "publishing"
  /\ result' = [result EXCEPT ![j] = IF cancelReq[j] THEN None ELSE outcome[j]]
  /\ updatedAt' = [updatedAt EXCEPT ![j] = clock]
  /\ lock' = Free
  /\ worker' = [worker EXCEPT ![j] = "done"]
  /\ UNCHANGED <<clock, table, status, cancelReq, outcome, handler>>

\* A run that raised fails its job, canceled or not.
PublishFailure(j) ==
  /\ worker[j] = "raised" /\ lock = Free
  /\ status' = [status EXCEPT ![j] = "failed"]
  /\ updatedAt' = [updatedAt EXCEPT ![j] = clock]
  /\ worker' = [worker EXCEPT ![j] = "done"]
  /\ UNCHANGED <<clock, table, cancelReq, result, lock, outcome, handler>>

Tick ==
  /\ clock < MaxClock
  /\ clock' = clock + 1
  /\ UNCHANGED <<jobVars, threadVars, handler>>

-----------------------------------------------------------------------------
HandlerStep(h) ==
  \/ StartRaises(h) \/ InsertAnswered(h) \/ InsertQueued(h) \/ SpawnWorker(h)
  \/ ReadStatus(h) \/ ReadResult(h)
  \/ \E j \in Jobs : StartChatJob(h, j) \/ PollChatJob(h, j) \/ CancelChatJob(h, j)

WorkerStep(j) ==
  \/ WorkerFetch(j) \/ WorkerClaim(j) \/ RunReturns(j) \/ RunRaises(j)
  \/ PublishStatus(j) \/ PublishResult(j) \/ PublishFailure(j)

Next ==
  \/ Tick
  \/ \E h \in Handlers : HandlerStep(h)
  \/ \E j \in Jobs : WorkerStep(j)

\* Users may stop asking; threads that exist are scheduled, and a request that
\* inserted a job gets to start its thread.
Fairness ==
  /\ \A j \in Jobs : WF_vars(WorkerStep(j))
  /\ \A h \in Handlers : WF_vars(SpawnWorker(h))

Spec == Init /\ [][Next]_vars /\ Fairness

-----------------------------------------------------------------------------
(* Properties                                                              *)

\* A thread has claimed the job and has not ended.
Busy(j) == worker[j] \in {"running", "returned", "raised", "publishing"}

\* Whenever the lock is free, a job carries a result if and only if it is
\* completed, and the result is that of a run no cancel cut short: neither a
\* cancel that lands as the run returns nor one it notices too late leaks one.
SettledOutcome ==
  lock = Free =>
    \A j \in Jobs : IF status[j] = "completed" THEN result[j] = "full"
                                               ELSE result[j] = None

\* _cleanup_chat_jobs never takes away a job that is waiting or being run, so a
\* client that polls an accepted job gets no 404 before the job is final, and a
\* job that is gone (canceled in the queue, expired) never starts to run.
LiveJobsStayListed ==
  \A j \in Jobs : status[j] \in {"queued", "running"} \/ Busy(j) => j \in table

\* An answer built without the lock may be old but is never wrong about the
\* end: a final status, once sent, is the job's status from then on, and a
\* job reported canceled is reported with no result.
FinalAnswersStand ==
  \A h \in Handlers :
    handler[h].status \in Terminal =>
      /\ status[handler[h].job] = handler[h].status
      /\ handler[h].status = "canceled" => handler[h].result = None

\* The lock, the flag and the threads implement the promise of ChatLifecycle.
Lifecycle == INSTANCE ChatLifecycle WITH phase <- status, cancelAsked <- cancelReq

\* Every step is a step of the promised lifecycle or none of its business: in
\* particular no job asked to stop while it waited or ran ever completes.
KeepsThePromise == Lifecycle!LifeSpec

\* A job that was accepted becomes final, whatever is canceled, raised or
\* cleaned up meanwhile.
EveryJobEnds ==
  \A j \in Jobs : (status[j] = "queued") ~> (status[j] \in Terminal)
=============================================================================
