--------------------------- MODULE ChatJobs_proofs ---------------------------
(***************************************************************************)
(* Proofs about ChatJobs for any number of jobs and request threads, any   *)
(* TTL and any clock.  One inductive invariant, Inv, ties together what    *)
(* the lock, the flag, the table and the threads say of each job; type     *)
(* correctness, the safety properties of the module and its refinement of  *)
(* ChatLifecycle follow from it.                                           *)
(***************************************************************************)
EXTENDS ChatJobs, TLAPS

\* What holds of one job at every moment.
JobInv(j) ==
  /\ status[j] = "absent" => worker[j] = "none" /\ ~cancelReq[j]
  /\ status[j] = "absent" => j \notin table
  /\ status[j] = "queued" => ~cancelReq[j] /\ worker[j] \in {"none", "spawned", "fetched"}
  /\ status[j] \in {"queued", "running"} => j \in table
  /\ status[j] = "running" <=> worker[j] \in {"running", "returned", "raised"}
  /\ status[j] = "canceled" => cancelReq[j]
  /\ worker[j] \in {"spawned", "fetched"} => status[j] \in {"queued", "canceled"}
  /\ worker[j] = "done" => status[j] \in Terminal
  /\ worker[j] = "publishing" <=> lock = j
  /\ worker[j] = "publishing" =>
       /\ j \in table
       /\ status[j] = IF cancelReq[j] THEN "canceled" ELSE "completed"
       /\ result[j] = None
  /\ worker[j] # "publishing" =>
       result[j] = IF status[j] = "completed" THEN "full" ELSE None
  /\ worker[j] \in {"returned", "publishing"} /\ ~cancelReq[j] => outcome[j] = "full"

\* What holds of one request thread at every moment.
HandlerInv(h) ==
  LET r == handler[h] IN
  /\ r.at # "idle" => r.job \in Jobs
  /\ r.at \in {"idle", "starting", "inserted"} => r.status = "absent"
  /\ r.at # "answered" => r.result = None
  /\ r.at = "starting" => status[r.job] = "absent"
  /\ r.at = "inserted" => status[r.job] \in {"queued", "canceled"} /\ worker[r.job] = "none"
  /\ r.at \in {"read", "answered"} => status[r.job] # "absent"
  /\ r.status \in Terminal => status[r.job] = r.status
  /\ r.status = "canceled" => r.result = None

\* No two request threads are starting the same job.
OneStarter ==
  \A g, h \in Handlers :
    /\ g # h
    /\ handler[g].at \in {"starting", "inserted"}
    /\ handler[h].at \in {"starting", "inserted"}
    => handler[g].job # handler[h].job

Inv ==
  /\ TypeOK
  /\ \A j \in Jobs : JobInv(j)
  /\ \A h \in Handlers : HandlerInv(h)
  /\ OneStarter

-----------------------------------------------------------------------------
(* The invariant holds initially and every step keeps it                   *)

LEMMA InitInv == Init => Inv
  BY ConstantsAssumption
  DEF Init, Inv, TypeOK, Statuses, Terminal, Results, Idle, JobInv, HandlerInv, OneStarter

\* Thread h has gone to a new place with nothing read yet; no other has moved.
Moved(h, where, j) ==
  /\ handler' \in [Handlers ->
       [at : {"idle", "starting", "inserted", "read", "answered"},
        job : Jobs \cup {None}, status : Statuses, result : Results]]
  /\ handler'[h] = [at |-> where, job |-> j, status |-> "absent", result |-> None]
  /\ \A g \in Handlers : g # h => handler'[g] = handler[g]

LEMMA GotoType ==
  ASSUME Inv, NEW h \in Handlers, NEW j \in Jobs \cup {None},
         NEW where \in {"idle", "starting", "inserted", "read", "answered"},
         Goto(h, where, j)
  PROVE  Moved(h, where, j)
  BY DEF Moved, Inv, TypeOK, Goto, Idle, Statuses, Results

LEMMA StartChatJobInv ==
  ASSUME Inv, NEW h \in Handlers, NEW j \in Jobs, StartChatJob(h, j)
  PROVE  Inv'
<1> USE DEF StartChatJob, jobVars, threadVars
<1>1. Moved(h, "starting", j)
  BY GotoType
<1>2. TypeOK'
  BY <1>1 DEF Moved, Inv, TypeOK
<1>3. \A i \in Jobs : JobInv(i)'
  BY ConstantsAssumption DEF Inv, JobInv, Expired, Terminal
<1>4. \A g \in Handlers : HandlerInv(g)'
  BY <1>1 DEF Moved, Inv, HandlerInv, Terminal
<1>5. OneStarter'
  BY <1>1 DEF Moved, Inv, OneStarter
<1> QED BY <1>2, <1>3, <1>4, <1>5 DEF Inv

LEMMA InsertQueuedInv ==
  ASSUME Inv, NEW h \in Handlers, InsertQueued(h)
  PROVE  Inv'
<1> DEFINE j == handler[h].job
<1> USE DEF InsertQueued, threadVars
<1>0. j \in Jobs /\ status[j] = "absent" /\ worker[j] = "none"
  BY DEF Inv, HandlerInv, JobInv
<1>1. Moved(h, "inserted", j)
  BY <1>0, GotoType
<1>2. TypeOK'
  BY <1>0, <1>1 DEF Moved, Inv, TypeOK, Statuses
<1>3. \A i \in Jobs : JobInv(i)'
  BY <1>0, ConstantsAssumption DEF Inv, TypeOK, JobInv, Terminal
<1>4. \A g \in Handlers : HandlerInv(g)'
  BY <1>0, <1>1 DEF Moved, Inv, TypeOK, HandlerInv, OneStarter, Terminal
<1>5. OneStarter'
  BY <1>1 DEF Moved, Inv, OneStarter
<1> QED BY <1>2, <1>3, <1>4, <1>5 DEF Inv

LEMMA InsertAnsweredInv ==
  ASSUME Inv, NEW h \in Handlers, InsertAnswered(h)
  PROVE  Inv'
<1> DEFINE j == handler[h].job
<1> USE DEF InsertAnswered, threadVars
<1>0. j \in Jobs /\ status[j] = "absent" /\ worker[j] = "none"
  BY DEF Inv, HandlerInv, JobInv
<1>1. Moved(h, "read", j)
  BY <1>0, GotoType
<1>2. TypeOK'
  BY <1>0, <1>1 DEF Moved, Inv, TypeOK, Statuses, Terminal, Results
<1>3. \A i \in Jobs : JobInv(i)'
  BY <1>0, ConstantsAssumption DEF Inv, TypeOK, JobInv, Terminal
<1>4. \A g \in Handlers : HandlerInv(g)'
  BY <1>0, <1>1 DEF Moved, Inv, TypeOK, HandlerInv, OneStarter, Terminal
<1>5. OneStarter'
  BY <1>1 DEF Moved, Inv, OneStarter
<1> QED BY <1>2, <1>3, <1>4, <1>5 DEF Inv

LEMMA StartRaisesInv ==
  ASSUME Inv, NEW h \in Handlers, StartRaises(h)
  PROVE  Inv'
<1> USE DEF StartRaises, jobVars, threadVars
<1>1. Moved(h, "idle", None)
  BY GotoType
<1>2. TypeOK'
  BY <1>1 DEF Moved, Inv, TypeOK
<1>3. \A i \in Jobs : JobInv(i)'
  BY DEF Inv, JobInv
<1>4. \A g \in Handlers : HandlerInv(g)'
  BY <1>1 DEF Moved, Inv, HandlerInv, Terminal
<1>5. OneStarter'
  BY <1>1 DEF Moved, Inv, OneStarter
<1> QED BY <1>2, <1>3, <1>4, <1>5 DEF Inv

LEMMA SpawnWorkerInv ==
  ASSUME Inv, NEW h \in Handlers, SpawnWorker(h)
  PROVE  Inv'
<1> DEFINE j == handler[h].job
<1> USE DEF SpawnWorker, jobVars
<1>0. j \in Jobs /\ status[j] \in {"queued", "canceled"} /\ worker[j] = "none"
  BY DEF Inv, HandlerInv
<1>1. Moved(h, "read", j)
  BY <1>0, GotoType
<1>2. TypeOK'
  BY <1>0, <1>1 DEF Moved, Inv, TypeOK
<1>3. \A i \in Jobs : JobInv(i)'
  BY <1>0 DEF Inv, TypeOK, JobInv, Terminal
<1>4. \A g \in Handlers : HandlerInv(g)'
  BY <1>0, <1>1 DEF Moved, Inv, TypeOK, HandlerInv, OneStarter, Terminal
<1>5. OneStarter'
  BY <1>1 DEF Moved, Inv, OneStarter
<1> QED BY <1>2, <1>3, <1>4, <1>5 DEF Inv

LEMMA PollChatJobInv ==
  ASSUME Inv, NEW h \in Handlers, NEW j \in Jobs, PollChatJob(h, j)
  PROVE  Inv'
<1> USE DEF PollChatJob, jobVars, threadVars
<1>1. Moved(h, "read", j)
  BY GotoType
<1>2. TypeOK'
  BY <1>1 DEF Moved, Inv, TypeOK
<1>3. \A i \in Jobs : JobInv(i)'
  BY DEF Inv, JobInv
<1>4. \A g \in Handlers : HandlerInv(g)'
  BY <1>1 DEF Moved, Inv, JobInv, HandlerInv, Terminal
<1>5. OneStarter'
  BY <1>1 DEF Moved, Inv, OneStarter
<1> QED BY <1>2, <1>3, <1>4, <1>5 DEF Inv

LEMMA CancelChatJobInv ==
  ASSUME Inv, NEW h \in Handlers, NEW j \in Jobs, CancelChatJob(h, j)
  PROVE  Inv'
<1> USE DEF CancelChatJob, threadVars
<1>1. Moved(h, "read", j)
  BY GotoType
<1>2. TypeOK'
  BY <1>1 DEF Moved, Inv, TypeOK, Statuses, Terminal
<1>3. \A i \in Jobs : JobInv(i)'
  BY ConstantsAssumption DEF Inv, TypeOK, JobInv, Terminal
<1>4. \A g \in Handlers : HandlerInv(g)'
  BY <1>1 DEF Moved, Inv, TypeOK, JobInv, HandlerInv, Terminal
<1>5. OneStarter'
  BY <1>1 DEF Moved, Inv, OneStarter
<1> QED BY <1>2, <1>3, <1>4, <1>5 DEF Inv

\* Reading status: a job that is being read was inserted, so its status is known.

LEMMA ReadStatusInv ==
  ASSUME Inv, NEW h \in Handlers, ReadStatus(h)
  PROVE  Inv'
<1> DEFINE j == handler[h].job
<1> USE DEF ReadStatus, jobVars, threadVars
<1>0. j \in Jobs
  BY DEF Inv, HandlerInv
<1>1. /\ handler' = [handler EXCEPT ![h] = [handler[h] EXCEPT !.status = status[j]]]
      /\ status[j] \in Statuses
  BY <1>0 DEF Inv, TypeOK
<1>2. TypeOK'
  BY <1>0, <1>1 DEF Inv, TypeOK
<1>3. \A i \in Jobs : JobInv(i)'
  BY DEF Inv, JobInv
<1>4. \A g \in Handlers : HandlerInv(g)'
  BY <1>0, <1>1 DEF Inv, TypeOK, HandlerInv
<1>5. OneStarter'
  BY <1>1 DEF Inv, TypeOK, OneStarter
<1> QED BY <1>2, <1>3, <1>4, <1>5 DEF Inv

\* Reading result: a canceled job never carries one, not even while its worker
\* is publishing.

LEMMA ReadResultInv ==
  ASSUME Inv, NEW h \in Handlers, ReadResult(h)
  PROVE  Inv'
<1> DEFINE j == handler[h].job
<1> USE DEF ReadResult, jobVars, threadVars
<1>0. j \in Jobs
  BY DEF Inv, HandlerInv
<1>1. /\ handler' = [handler EXCEPT ![h] = [handler[h] EXCEPT !.result = result[j], !.at = "answered"]]
      /\ result[j] \in Results
      /\ status[j] = "canceled" => result[j] = None
  BY <1>0 DEF Inv, TypeOK, JobInv
<1>2. TypeOK'
  BY <1>0, <1>1 DEF Inv, TypeOK
<1>3. \A i \in Jobs : JobInv(i)'
  BY DEF Inv, JobInv
<1>4. \A g \in Handlers : HandlerInv(g)'
  BY <1>0, <1>1 DEF Inv, TypeOK, HandlerInv, Terminal
<1>5. OneStarter'
  BY <1>1 DEF Inv, TypeOK, OneStarter
<1> QED BY <1>2, <1>3, <1>4, <1>5 DEF Inv

LEMMA WorkerFetchInv ==
  ASSUME Inv, NEW j \in Jobs, WorkerFetch(j)
  PROVE  Inv'
<1> USE DEF WorkerFetch, jobVars
<1>1. TypeOK'
  BY DEF Inv, TypeOK, Statuses, Terminal, Results
<1>2. \A i \in Jobs : JobInv(i)'
  BY ConstantsAssumption DEF Inv, TypeOK, JobInv, Terminal
<1>3. \A h \in Handlers : HandlerInv(h)'
  BY DEF Inv, TypeOK, JobInv, HandlerInv, Terminal
<1>4. OneStarter'
  BY DEF Inv, OneStarter
<1> QED BY <1>1, <1>2, <1>3, <1>4 DEF Inv

LEMMA WorkerClaimInv ==
  ASSUME Inv, NEW j \in Jobs, WorkerClaim(j)
  PROVE  Inv'
<1> USE DEF WorkerClaim
<1>1. TypeOK'
  BY DEF Inv, TypeOK, Statuses, Terminal, Results
<1>2. \A i \in Jobs : JobInv(i)'
  BY ConstantsAssumption DEF Inv, TypeOK, JobInv, Terminal
<1>3. \A h \in Handlers : HandlerInv(h)'
  BY DEF Inv, TypeOK, JobInv, HandlerInv, Terminal
<1>4. OneStarter'
  BY DEF Inv, OneStarter
<1> QED BY <1>1, <1>2, <1>3, <1>4 DEF Inv

LEMMA RunReturnsInv ==
  ASSUME Inv, NEW j \in Jobs, RunReturns(j)
  PROVE  Inv'
<1> USE DEF RunReturns, jobVars
<1>1. TypeOK'
  BY DEF Inv, TypeOK, Statuses, Terminal, Results
<1>2. \A i \in Jobs : JobInv(i)'
  BY ConstantsAssumption DEF Inv, TypeOK, JobInv, Terminal
<1>3. \A h \in Handlers : HandlerInv(h)'
  BY DEF Inv, TypeOK, JobInv, HandlerInv, Terminal
<1>4. OneStarter'
  BY DEF Inv, OneStarter
<1> QED BY <1>1, <1>2, <1>3, <1>4 DEF Inv

LEMMA RunRaisesInv ==
  ASSUME Inv, NEW j \in Jobs, RunRaises(j)
  PROVE  Inv'
<1> USE DEF RunRaises, jobVars
<1>1. TypeOK'
  BY DEF Inv, TypeOK, Statuses, Terminal, Results
<1>2. \A i \in Jobs : JobInv(i)'
  BY ConstantsAssumption DEF Inv, TypeOK, JobInv, Terminal
<1>3. \A h \in Handlers : HandlerInv(h)'
  BY DEF Inv, TypeOK, JobInv, HandlerInv, Terminal
<1>4. OneStarter'
  BY DEF Inv, OneStarter
<1> QED BY <1>1, <1>2, <1>3, <1>4 DEF Inv

LEMMA PublishStatusInv ==
  ASSUME Inv, NEW j \in Jobs, PublishStatus(j)
  PROVE  Inv'
<1> USE DEF PublishStatus
<1>1. TypeOK'
  BY DEF Inv, TypeOK, Statuses, Terminal, Results
<1>2. \A i \in Jobs : JobInv(i)'
  BY ConstantsAssumption DEF Inv, TypeOK, JobInv, Terminal
<1>3. \A h \in Handlers : HandlerInv(h)'
  BY DEF Inv, TypeOK, JobInv, HandlerInv, Terminal
<1>4. OneStarter'
  BY DEF Inv, OneStarter
<1> QED BY <1>1, <1>2, <1>3, <1>4 DEF Inv

LEMMA PublishResultInv ==
  ASSUME Inv, NEW j \in Jobs, PublishResult(j)
  PROVE  Inv'
<1> USE DEF PublishResult
<1>1. TypeOK'
  BY DEF Inv, TypeOK, Statuses, Terminal, Results
<1>2. \A i \in Jobs : JobInv(i)'
  BY ConstantsAssumption DEF Inv, TypeOK, JobInv, Terminal
<1>3. \A h \in Handlers : HandlerInv(h)'
  BY DEF Inv, TypeOK, JobInv, HandlerInv, Terminal
<1>4. OneStarter'
  BY DEF Inv, OneStarter
<1> QED BY <1>1, <1>2, <1>3, <1>4 DEF Inv

LEMMA PublishFailureInv ==
  ASSUME Inv, NEW j \in Jobs, PublishFailure(j)
  PROVE  Inv'
<1> USE DEF PublishFailure
<1>1. TypeOK'
  BY DEF Inv, TypeOK, Statuses, Terminal, Results
<1>2. \A i \in Jobs : JobInv(i)'
  BY ConstantsAssumption DEF Inv, TypeOK, JobInv, Terminal
<1>3. \A h \in Handlers : HandlerInv(h)'
  BY DEF Inv, TypeOK, JobInv, HandlerInv, Terminal
<1>4. OneStarter'
  BY DEF Inv, OneStarter
<1> QED BY <1>1, <1>2, <1>3, <1>4 DEF Inv

LEMMA TickInv ==
  ASSUME Inv, Tick
  PROVE  Inv'
<1> USE DEF Tick, jobVars, threadVars
<1>1. TypeOK'
  BY ConstantsAssumption DEF Inv, TypeOK
<1>2. (\A i \in Jobs : JobInv(i)') /\ (\A h \in Handlers : HandlerInv(h)') /\ OneStarter'
  BY DEF Inv, JobInv, HandlerInv, OneStarter
<1> QED BY <1>1, <1>2 DEF Inv

LEMMA StutterInv ==
  ASSUME Inv, UNCHANGED vars
  PROVE  Inv'
BY DEF vars, jobVars, threadVars, Inv, TypeOK, JobInv, HandlerInv, OneStarter

LEMMA NextInv == Inv /\ [Next]_vars => Inv'
<1> SUFFICES ASSUME Inv, [Next]_vars PROVE Inv'
  OBVIOUS
<1>1. CASE Tick
  BY <1>1, TickInv
<1>2. CASE \E h \in Handlers : HandlerStep(h)
  <2>1. PICK h \in Handlers : HandlerStep(h)
    BY <1>2
  <2> QED
    BY <2>1, StartRaisesInv, InsertAnsweredInv, InsertQueuedInv, SpawnWorkerInv, ReadStatusInv,
       ReadResultInv, StartChatJobInv, PollChatJobInv, CancelChatJobInv
    DEF HandlerStep
<1>3. CASE \E j \in Jobs : WorkerStep(j)
  <2>1. PICK j \in Jobs : WorkerStep(j)
    BY <1>3
  <2> QED
    BY <2>1, WorkerFetchInv, WorkerClaimInv, RunReturnsInv, RunRaisesInv, PublishStatusInv,
       PublishResultInv, PublishFailureInv
    DEF WorkerStep
<1>4. CASE UNCHANGED vars
  BY <1>4, StutterInv
<1> QED BY <1>1, <1>2, <1>3, <1>4 DEF Next

\* Every state the server can reach satisfies Inv.
THEOREM Invariance == Spec => []Inv
BY InitInv, NextInv, PTL DEF Spec

-----------------------------------------------------------------------------
(* What follows                                                            *)

\* Every variable stays in its type: no thread and no answer ever holds a job
\* or a status that _CHAT_JOBS and the status API do not know.
THEOREM TypeCorrect == Spec => []TypeOK
BY Invariance, PTL DEF Inv

\* Whenever the lock is free, exactly the completed jobs carry a result, and it
\* is never the partial result of a canceled run (_chat_job_worker).
THEOREM OutcomesSettle == Spec => []SettledOutcome
<1>1. Inv => SettledOutcome
  BY ConstantsAssumption DEF Inv, JobInv, SettledOutcome
<1> QED BY <1>1, Invariance, PTL

\* The cleanup never drops a job that waits or runs (_cleanup_chat_jobs).
THEOREM LiveJobsListed == Spec => []LiveJobsStayListed
<1>1. Inv => LiveJobsStayListed
  BY DEF Inv, JobInv, LiveJobsStayListed, Busy
<1> QED BY <1>1, Invariance, PTL

\* A final status, once sent to a client, is the status of the job from then on
\* (_chat_job_payload, built without the lock).
THEOREM AnswersStand == Spec => []FinalAnswersStand
<1>1. Inv => FinalAnswersStand
  BY DEF Inv, HandlerInv, FinalAnswersStand
<1> QED BY <1>1, Invariance, PTL

-----------------------------------------------------------------------------
(* The job table implements the lifecycle it promises                      *)

LEMMA InitLife == Init => Lifecycle!Init
BY DEF Init, Lifecycle!Init

LEMMA HandlerStepLife ==
  ASSUME Inv, NEW h \in Handlers, HandlerStep(h)
  PROVE  Lifecycle!Next \/ UNCHANGED Lifecycle!lifeVars
<1> DEFINE j == handler[h].job
<1>1. CASE InsertAnswered(h)
  <2>1. j \in Jobs /\ status[j] = "absent"
    BY <1>1 DEF InsertAnswered, Inv, HandlerInv
  <2>2. Lifecycle!Answer(j)
    BY <1>1, <2>1 DEF InsertAnswered, Lifecycle!Answer, Lifecycle!Move
  <2> QED BY <2>1, <2>2 DEF Lifecycle!Next
<1>2. CASE InsertQueued(h)
  <2>1. j \in Jobs /\ status[j] = "absent"
    BY <1>2 DEF InsertQueued, Inv, HandlerInv
  <2>2. Lifecycle!Accept(j)
    BY <1>2, <2>1 DEF InsertQueued, Lifecycle!Accept, Lifecycle!Move
  <2> QED BY <2>1, <2>2 DEF Lifecycle!Next
<1>3. ASSUME NEW i \in Jobs, CancelChatJob(h, i) PROVE Lifecycle!Next
  <2>1. status[i] # "absent"
    BY <1>3 DEF CancelChatJob, Inv, JobInv
  <2>2. Lifecycle!Cancel(i)
    BY <1>3, <2>1 DEF CancelChatJob, Lifecycle!Cancel
  <2> QED BY <2>2 DEF Lifecycle!Next
<1>4. ASSUME NEW i \in Jobs, StartChatJob(h, i) \/ PollChatJob(h, i)
      PROVE  UNCHANGED Lifecycle!lifeVars
  BY <1>4 DEF StartChatJob, PollChatJob, jobVars, Lifecycle!lifeVars
<1>5. CASE StartRaises(h) \/ SpawnWorker(h) \/ ReadStatus(h) \/ ReadResult(h)
  BY <1>5 DEF StartRaises, SpawnWorker, ReadStatus, ReadResult, jobVars, Lifecycle!lifeVars
<1> QED BY <1>1, <1>2, <1>3, <1>4, <1>5 DEF HandlerStep

LEMMA WorkerStepLife ==
  ASSUME Inv, NEW j \in Jobs, WorkerStep(j)
  PROVE  Lifecycle!Next \/ UNCHANGED Lifecycle!lifeVars
<1>0. JobInv(j)
  BY DEF Inv
<1>1. CASE WorkerClaim(j)
  <2>1. CASE cancelReq[j]
    <3>1. status[j] = "canceled"
      BY <1>0, <1>1, <2>1 DEF WorkerClaim, JobInv
    <3>2. status \in [Jobs -> Statuses]
      BY DEF Inv, TypeOK
    <3>3. status' = [status EXCEPT ![j] = "canceled"]
      BY <1>1, <2>1 DEF WorkerClaim
    <3>4. status' = [i \in Jobs |-> status[i]]
      BY <3>1, <3>2, <3>3
    <3>5. status' = status
      BY <3>2, <3>4
    <3> QED BY <1>1, <3>5 DEF WorkerClaim, Lifecycle!lifeVars
  <2>2. CASE ~cancelReq[j]
    <3>1. status[j] = "queued"
      BY <1>0, <1>1, <2>2 DEF WorkerClaim, JobInv
    <3>2. Lifecycle!Begin(j)
      BY <1>1, <2>2, <3>1 DEF WorkerClaim, Lifecycle!Begin, Lifecycle!Move
    <3> QED BY <3>2 DEF Lifecycle!Next
  <2> QED BY <2>1, <2>2
<1>2. CASE PublishStatus(j)
  <2>1. status[j] = "running"
    BY <1>0, <1>2 DEF PublishStatus, JobInv
  <2>2. Lifecycle!Abort(j) \/ Lifecycle!Complete(j)
    BY <1>2, <2>1 DEF PublishStatus, Lifecycle!Abort, Lifecycle!Complete, Lifecycle!Move
  <2> QED BY <2>2 DEF Lifecycle!Next
<1>3. CASE PublishFailure(j)
  <2>1. status[j] = "running"
    BY <1>0, <1>3 DEF PublishFailure, JobInv
  <2>2. Lifecycle!Fail(j)
    BY <1>3, <2>1 DEF PublishFailure, Lifecycle!Fail, Lifecycle!Move
  <2> QED BY <2>2 DEF Lifecycle!Next
<1>4. CASE WorkerFetch(j) \/ RunReturns(j) \/ RunRaises(j) \/ PublishResult(j)
  BY <1>4 DEF WorkerFetch, RunReturns, RunRaises, PublishResult, jobVars, Lifecycle!lifeVars
<1> QED BY <1>1, <1>2, <1>3, <1>4 DEF WorkerStep

LEMMA StepLife == Inv /\ [Next]_vars => [Lifecycle!Next]_Lifecycle!lifeVars
<1> SUFFICES ASSUME Inv, [Next]_vars
             PROVE  Lifecycle!Next \/ UNCHANGED Lifecycle!lifeVars
  OBVIOUS
<1>1. CASE Tick \/ UNCHANGED vars
  BY <1>1 DEF Tick, vars, jobVars, Lifecycle!lifeVars
<1>2. CASE \E h \in Handlers : HandlerStep(h)
  BY <1>2, HandlerStepLife
<1>3. CASE \E j \in Jobs : WorkerStep(j)
  BY <1>3, WorkerStepLife
<1> QED BY <1>1, <1>2, <1>3 DEF Next

\* Whatever the threads do, a client sees a job go from queued to running to one
\* final status, and a job asked to stop before it was final never complete.
THEOREM Implements == Spec => KeepsThePromise
BY InitLife, Invariance, StepLife, PTL DEF Spec, KeepsThePromise, Lifecycle!LifeSpec
=============================================================================
