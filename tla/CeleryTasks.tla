----------------------------- MODULE CeleryTasks -----------------------------
(***************************************************************************)
(* The Celery dispatcher: the requests that submit packages                *)
(* (views.analyze_api), the broker queue "analysis", the workers that      *)
(* execute run_dynamic_analysis, and the periodic check_timeouts and       *)
(* cleanup_old_tasks (package_analysis/tasks.py).                          *)
(*                                                                         *)
(* A step is one database transaction, one autocommitted statement or one  *)
(* exchange with the broker.  PostgreSQL runs at READ COMMITTED, so a      *)
(* transaction that first reads and later writes is two steps: the first   *)
(* sees what is committed, the second commits.  In between the rows it     *)
(* has locked (select_for_update, or an UPDATE not yet committed) cannot   *)
(* be locked or written by others.  task.save() writes every column of the *)
(* object in memory, however old: obj[w] is that object.                   *)
(***************************************************************************)
EXTENDS AnalysisTable

CONSTANTS
    Workers,     \* Celery worker processes that consume the queue "analysis"
    MaxFaults    \* bound on the crashes and time limits of a behaviour

ASSUME CeleryAssumption == MaxFaults \in Nat

VARIABLES
    db,          \* AnalysisTask rows
    reports,     \* packages that have a ReportDynamicAnalysis row
    latest,      \* package of the report with the greatest id
    queue,       \* number of messages waiting in the broker, per message
    pc,          \* per worker: the next step of run_dynamic_analysis
    job,         \* per worker: task_id of the message it holds unacknowledged
    tries,       \* per worker: self.request.retries of that message
    obj,         \* per worker: the AnalysisTask object in memory
    cause,       \* per worker: the exception being handled
    cached,      \* per worker process: packages with a result in LocMemCache
    orphans,     \* tasks with a container that no worker waits for any more
    beat,        \* progress of check_timeouts
    snap,        \* the timed out rows as check_timeouts read them
    expired,     \* tasks whose started_at is more than timeout_minutes ago
    rpc,         \* per request: the next step of analyze_api
    draft,       \* per request: the AnalysisTask object in memory
    ticks,       \* number of rows that were queued so far, orders queued_at
    faults       \* crashes and time limits so far

tableVars  == <<db, reports, latest>>
workerVars == <<pc, job, tries, obj, cause, cached>>
beatVars   == <<beat, snap, expired>>
webVars    == <<rpc, draft, ticks>>
envVars    == <<orphans, faults>>
vars       == <<tableVars, queue, workerVars, beatVars, webVars, envVars>>

-----------------------------------------------------------------------------
(* @shared_task(max_retries=1): a message carries the task id and how often
   it was retried.                                                         *)
MaxRetries == 1

Messages == Requests \X (0 .. MaxRetries)

\* Where a worker is in run_dynamic_analysis: waiting for a message, in the
\* first transaction ("start", "claim"), or past it.
AfterClaim == {"cache", "analyze", "heartbeat", "save", "link", "publish",
               "next", "handler", "fail", "retry"}

WorkerSteps == {"idle", "start", "claim"} \cup AfterClaim

\* The exceptions that reach the handler: no such row, another task is running,
\* the report of another task cannot be reused, the analysis failed, its report
\* is a duplicate, the soft time limit.
Causes == {"none", "missing", "busy", "reuse", "analysis", "unique", "timelimit"}

WebSteps == {"idle", "active", "key", "create", "enqueue", "publish",
             "done", "dead"}

\* Rows locked by a transaction that has not committed: by a worker between
\* select_for_update and its commit, or by check_timeouts after its UPDATEs.
LockedByWorker(t) == \E w \in Workers : pc[w] = "claim" /\ job[w] = t
LockedByBeat(t) == beat = "written" /\ snap[t].status # "absent"
Unlocked(t) == ~LockedByWorker(t) /\ ~LockedByBeat(t)

\* A worker executes t, and its time limits have not ended it.
Executing(t) == \E w \in Workers : pc[w] \in AfterClaim /\ job[w] = t

\* apply_async: one more message for every task of S.
Send(q, S, retries) ==
    [m \in Messages |-> IF m[1] \in S /\ m[2] = retries THEN q[m] + 1 ELSE q[m]]

-----------------------------------------------------------------------------
(* _process_next_queued_task publishes a message for the head of the queue
   unless a row is running.  When the head has a completed result it would
   be given the report of another row: the UNIQUE constraint on report
   refuses that, the exception is logged, and nothing is published (so
   _update_queue_positions and the recursive call are never reached).      *)
ToDispatch(table) ==
    {t \in HeadOfQueue(table) :
        WithStatus(table, "running") = {} /\ OtherResults(table, t) = {}}

ProcessNext(table, q) == Send(q, ToDispatch(table), 0)

-----------------------------------------------------------------------------
Init ==
    /\ db = [t \in Requests |-> NoRow]
    /\ reports = {}
    /\ latest = NoReport
    /\ queue = [m \in Messages |-> 0]
    /\ pc = [w \in Workers |-> "idle"]
    /\ job = [w \in Workers |-> NoTask]
    /\ tries = [w \in Workers |-> 0]
    /\ obj = [w \in Workers |-> NoRow]
    /\ cause = [w \in Workers |-> "none"]
    /\ cached = [w \in Workers |-> {}]
    /\ orphans = {}
    /\ beat = "idle"
    /\ snap = [t \in Requests |-> NoRow]
    /\ expired = {}
    /\ rpc = [r \in Requests |-> "idle"]
    /\ draft = [r \in Requests |-> NoRow]
    /\ ticks = 0
    /\ faults = 0

-----------------------------------------------------------------------------
(* views.analyze_api.  Every query is a transaction of its own.            *)

Respond(r) ==
    /\ rpc' = [rpc EXCEPT ![r] = "done"]
    /\ draft' = [draft EXCEPT ![r] = NoRow]

WebGoto(r, step) ==
    /\ rpc' = [rpc EXCEPT ![r] = step]
    /\ UNCHANGED draft

\* task.save(): every column of the object in memory is written.
WebSave(r, row, step) ==
    /\ db' = [db EXCEPT ![r] = row]
    /\ draft' = [draft EXCEPT ![r] = row]
    /\ rpc' = [rpc EXCEPT ![r] = step]

\* Any completed task for this purl is returned as the cached result.
LookupCompleted(r) ==
    /\ rpc[r] = "idle"
    /\ LET found == {t \in Requests : PurlOf[t] = PurlOf[r] /\ HasResult(db, t)}
       IN  \/ found # {} /\ Respond(r)
           \/ found = {} /\ WebGoto(r, "active")
    /\ UNCHANGED <<tableVars, queue, workerVars, beatVars, envVars, ticks>>

\* Otherwise a pending, queued or running task for this purl is returned.
\* The "final check" repeats the same query for the last minute, and only
\* finds a task that this query would have found had it run a moment later.
LookupActive(r) ==
    /\ rpc[r] = "active"
    /\ LET found == {t \in Requests :
                        /\ PurlOf[t] = PurlOf[r]
                        /\ db[t].status \in {"pending", "queued", "running"}}
       IN  \/ found # {} /\ Respond(r)
           \/ found = {} /\ WebGoto(r, IF KeyOf[r] = NoKey THEN "create" ELSE "key")
    /\ UNCHANGED <<tableVars, queue, workerVars, beatVars, envVars, ticks>>

\* Rows created with the idempotency key of r.
SameKey(r) == {t \in Requests : db[t].status # "absent" /\ KeyOf[t] = KeyOf[r]}

\* Otherwise the task created with this idempotency key is returned.
LookupKey(r) ==
    /\ rpc[r] = "key"
    /\ \/ SameKey(r) # {} /\ Respond(r)
       \/ SameKey(r) = {} /\ WebGoto(r, "create")
    /\ UNCHANGED <<tableVars, queue, workerVars, beatVars, envVars, ticks>>

\* Otherwise a row is created; unique_api_key_idempotency_key may refuse it,
\* and the response is an error.
Create(r) ==
    /\ rpc[r] = "create"
    /\ \/ /\ KeyOf[r] # NoKey /\ SameKey(r) # {}
          /\ Respond(r)
          /\ UNCHANGED db
       \/ /\ KeyOf[r] = NoKey \/ SameKey(r) = {}
          /\ WebSave(r, [NoRow EXCEPT !.status = "pending"], "enqueue")
    /\ UNCHANGED <<reports, latest, queue, workerVars, beatVars, envVars, ticks>>

\* The row is marked queued, behind the rows queued now.
Enqueue(r) ==
    /\ rpc[r] = "enqueue"
    /\ WebSave(r, [draft[r] EXCEPT !.status = "queued",
                        !.pos = Cardinality(WithStatus(db, "queued")) + 1,
                        !.qat = ticks + 1], "publish")
    /\ ticks' = ticks + 1
    /\ UNCHANGED <<reports, latest, queue, workerVars, beatVars, envVars>>

\* apply_async, then the response with the new task.
Publish(r) ==
    /\ rpc[r] = "publish"
    /\ queue' = Send(queue, {r}, 0)
    /\ Respond(r)
    /\ UNCHANGED <<tableVars, workerVars, beatVars, envVars, ticks>>

\* apply_async raises: the object in memory, unchanged since Enqueue, is
\* saved as failed, with its queue_position, whatever the row holds by now.
PublishFails(r) ==
    /\ rpc[r] = "publish"
    /\ Unlocked(r)
    /\ db' = [db EXCEPT ![r] = [draft[r] EXCEPT !.status = "failed"]]
    /\ Respond(r)
    /\ UNCHANGED <<reports, latest, queue, workerVars, beatVars, envVars, ticks>>

\* The web process dies in the middle of a request.
WebDies(r) ==
    /\ rpc[r] \in {"enqueue", "publish"}
    /\ faults < MaxFaults
    /\ faults' = faults + 1
    /\ WebGoto(r, "dead")
    /\ UNCHANGED <<tableVars, queue, workerVars, beatVars, orphans, ticks>>

Web(r) ==
    \/ LookupCompleted(r) \/ LookupActive(r) \/ LookupKey(r)
    \/ Create(r) \/ Enqueue(r) \/ Publish(r) \/ PublishFails(r)

-----------------------------------------------------------------------------
(* run_dynamic_analysis.                                                   *)

Goto(w, step) ==
    /\ pc' = [pc EXCEPT ![w] = step]
    /\ UNCHANGED <<job, tries>>

\* The function ends and the message is acknowledged (acks_late).
Ack(w) ==
    /\ pc' = [pc EXCEPT ![w] = "idle"]
    /\ job' = [job EXCEPT ![w] = NoTask]
    /\ tries' = [tries EXCEPT ![w] = 0]
    /\ obj' = [obj EXCEPT ![w] = NoRow]
    /\ cause' = [cause EXCEPT ![w] = "none"]

\* An exception reaches "except Exception".
Raise(w, exception) ==
    /\ Goto(w, "handler")
    /\ cause' = [cause EXCEPT ![w] = exception]
    /\ UNCHANGED obj

\* task.save() of the worker: the row becomes the object in memory.
Save(w, row) ==
    /\ Unlocked(job[w])
    /\ db' = [db EXCEPT ![job[w]] = row]
    /\ obj' = [obj EXCEPT ![w] = row]

\* A worker takes one message (prefetch 1).  Priorities and countdowns reorder
\* the queue, so any waiting message may be next.
Take(w) ==
    /\ pc[w] = "idle"
    /\ \E m \in Messages :
          /\ queue[m] > 0
          /\ queue' = [queue EXCEPT ![m] = @ - 1]
          /\ job' = [job EXCEPT ![w] = m[1]]
          /\ tries' = [tries EXCEPT ![w] = m[2]]
    /\ pc' = [pc EXCEPT ![w] = "start"]
    /\ UNCHANGED <<tableVars, obj, cause, cached, beatVars, webVars, envVars>>

\* Variant of OtherRunning that looks for the wrong status.
OtherPending(t) == WithStatus(db, "pending") \ {t} # {}

\* Is a task other than t running?
OtherRunning(t) == WithStatus(db, "running") \ {t} # {}

\* The first transaction locks the row of the task and reads the table.
\* The row is gone: DoesNotExist.
CheckMissing(w) ==
    /\ pc[w] = "start" /\ db[job[w]].status = "absent"
    /\ Raise(w, "missing")
    /\ UNCHANGED <<tableVars, queue, cached, beatVars, webVars, envVars>>

\* Variant of CheckRetry that returns without publishing the message again.
CheckRetryLost(w) ==
    /\ pc[w] = "start" /\ Unlocked(job[w]) /\ db[job[w]].status # "absent"
    /\ OtherRunning(job[w])
    /\ tries[w] < MaxRetries
    /\ Ack(w)
    /\ UNCHANGED <<tableVars, queue, cached, beatVars, webVars, envVars>>

\* Another task is running: self.retry() publishes the message again.
CheckRetry(w) ==
    /\ pc[w] = "start" /\ Unlocked(job[w]) /\ db[job[w]].status # "absent"
    /\ OtherRunning(job[w])
    /\ tries[w] < MaxRetries
    /\ queue' = Send(queue, {job[w]}, tries[w] + 1)
    /\ Ack(w)
    /\ UNCHANGED <<tableVars, cached, beatVars, webVars, envVars>>

\* Another task is running and no retry is left: self.retry() raises exc.
CheckGiveUp(w) ==
    /\ pc[w] = "start" /\ Unlocked(job[w]) /\ db[job[w]].status # "absent"
    /\ OtherRunning(job[w])
    /\ tries[w] >= MaxRetries
    /\ Raise(w, "busy")
    /\ UNCHANGED <<tableVars, queue, cached, beatVars, webVars, envVars>>

\* The task is completed already: the message is skipped.
CheckCompleted(w) ==
    /\ pc[w] = "start" /\ Unlocked(job[w])
    /\ ~OtherRunning(job[w])
    /\ db[job[w]].status = "completed"
    /\ Ack(w)
    /\ UNCHANGED <<tableVars, queue, cached, beatVars, webVars, envVars>>

\* Another task for this purl has a report: the row is saved with that
\* report, which the UNIQUE constraint on report refuses (IntegrityError).
CheckReuse(w) ==
    /\ pc[w] = "start" /\ Unlocked(job[w])
    /\ ~OtherRunning(job[w])
    /\ db[job[w]].status \notin {"absent", "completed"}
    /\ \E u \in OtherResults(db, job[w]) : ReportTaken(db, job[w], db[u].report)
    /\ Raise(w, "reuse")
    /\ UNCHANGED <<tableVars, queue, cached, beatVars, webVars, envVars>>

\* Variant of CheckPass that does not ask whether the task is completed.
CheckPassCompleted(w) ==
    /\ pc[w] = "start" /\ Unlocked(job[w])
    /\ ~OtherRunning(job[w])
    /\ db[job[w]].status # "absent"
    /\ OtherResults(db, job[w]) = {}
    /\ obj' = [obj EXCEPT ![w] = db[job[w]]]
    /\ Goto(w, "claim")
    /\ UNCHANGED <<tableVars, queue, cause, cached, beatVars, webVars, envVars>>

\* Variant of CheckPass without smart caching.
CheckPassUncached(w) ==
    /\ pc[w] = "start" /\ Unlocked(job[w])
    /\ ~OtherRunning(job[w])
    /\ db[job[w]].status \notin {"absent", "completed"}
    /\ obj' = [obj EXCEPT ![w] = db[job[w]]]
    /\ Goto(w, "claim")
    /\ UNCHANGED <<tableVars, queue, cause, cached, beatVars, webVars, envVars>>

\* Otherwise the task may run.  The row stays locked until Claim commits.
CheckPass(w) ==
    /\ pc[w] = "start" /\ Unlocked(job[w])
    /\ ~OtherRunning(job[w])
    /\ db[job[w]].status \notin {"absent", "completed"}
    /\ OtherResults(db, job[w]) = {}
    /\ obj' = [obj EXCEPT ![w] = db[job[w]]]
    /\ Goto(w, "claim")
    /\ UNCHANGED <<tableVars, queue, cause, cached, beatVars, webVars, envVars>>

\* COMMIT of status='running' and a new started_at; the lock is released.
Claim(w) ==
    /\ pc[w] = "claim"
    /\ LET row == [obj[w] EXCEPT !.status = "running", !.pos = 0]
       IN  /\ db' = [db EXCEPT ![job[w]] = row]
           /\ obj' = [obj EXCEPT ![w] = row]
    /\ expired' = expired \ {job[w]}
    /\ Goto(w, "cache")
    /\ UNCHANGED <<reports, latest, queue, cause, cached, beat, snap, webVars, envVars>>

\* The result is in the cache of this process: completed, report untouched.
CacheHit(w) ==
    /\ pc[w] = "cache" /\ PackageOfTask(job[w]) \in cached[w]
    /\ Save(w, [obj[w] EXCEPT !.status = "completed"])
    /\ Goto(w, "next")
    /\ UNCHANGED <<reports, latest, queue, cause, cached, beatVars, webVars, envVars>>

\* Helper.run_package_analysis starts a container and waits for it.
CacheMiss(w) ==
    /\ pc[w] = "cache" /\ PackageOfTask(job[w]) \notin cached[w]
    /\ Goto(w, "analyze")
    /\ UNCHANGED <<tableVars, queue, obj, cause, cached, beatVars, webVars, envVars>>

\* The container ends with a result; refresh_from_db reads the row.
AnalysisEnds(w) ==
    /\ pc[w] = "analyze" /\ db[job[w]].status # "absent"
    /\ obj' = [obj EXCEPT ![w] = db[job[w]]]
    /\ Goto(w, "heartbeat")
    /\ UNCHANGED <<tableVars, queue, cause, cached, beatVars, webVars, envVars>>

\* The container, or reading its result, fails.
AnalysisFails(w) ==
    /\ pc[w] = "analyze"
    /\ Raise(w, "analysis")
    /\ UNCHANGED <<tableVars, queue, cached, beatVars, webVars, envVars>>

\* The heartbeat saves the whole row if it was running when it was read;
\* then the result goes into the cache of this process.
Heartbeat(w) ==
    /\ pc[w] = "heartbeat"
    /\ IF obj[w].status = "running" THEN Save(w, obj[w]) ELSE UNCHANGED <<db, obj>>
    /\ cached' = [cached EXCEPT ![w] = @ \cup {PackageOfTask(job[w])}]
    /\ Goto(w, "save")
    /\ UNCHANGED <<reports, latest, queue, cause, beatVars, webVars, envVars>>

\* Variant of SaveReport that keeps an existing report and goes on.
SaveReportOrKeep(w) ==
    /\ pc[w] = "save"
    /\ reports' = reports \cup {PackageOfTask(job[w])}
    /\ latest' = IF PackageOfTask(job[w]) \in reports THEN latest ELSE PackageOfTask(job[w])
    /\ Goto(w, "link")
    /\ UNCHANGED <<db, queue, obj, cause, cached, beatVars, webVars, envVars>>

\* save_report creates the report of the package; a second one is refused by
\* the UNIQUE constraint on ReportDynamicAnalysis.package.
SaveReport(w) ==
    /\ pc[w] = "save"
    /\ \/ /\ PackageOfTask(job[w]) \in reports
          /\ Raise(w, "unique")
          /\ UNCHANGED <<reports, latest>>
       \/ /\ PackageOfTask(job[w]) \notin reports
          /\ reports' = reports \cup {PackageOfTask(job[w])}
          /\ latest' = PackageOfTask(job[w])
          /\ Goto(w, "link")
          /\ UNCHANGED <<obj, cause>>
    /\ UNCHANGED <<db, queue, cached, beatVars, webVars, envVars>>

\* ReportDynamicAnalysis.objects.latest('id') becomes the report of the task,
\* unless another row has it, and the task is completed.
Link(w) ==
    /\ pc[w] = "link"
    /\ \/ /\ ReportTaken(db, job[w], latest)
          /\ Raise(w, "unique")
          /\ UNCHANGED db
       \/ /\ ~ReportTaken(db, job[w], latest)
          /\ Save(w, [obj[w] EXCEPT !.status = "completed", !.report = latest])
          /\ Goto(w, "publish")
          /\ UNCHANGED cause
    /\ UNCHANGED <<reports, latest, queue, cached, beatVars, webVars, envVars>>

\* save_professional_report, then the row is saved with its download_url; an
\* exception on the way is logged and nothing is saved.
PublishReport(w) ==
    /\ pc[w] = "publish"
    /\ \/ Save(w, obj[w])
       \/ UNCHANGED <<db, obj>>
    /\ Goto(w, "next")
    /\ UNCHANGED <<reports, latest, queue, cause, cached, beatVars, webVars, envVars>>

\* The next queued task is dispatched and the function returns.
Finish(w) ==
    /\ pc[w] = "next"
    /\ queue' = ProcessNext(db, queue)
    /\ Ack(w)
    /\ UNCHANGED <<tableVars, cached, beatVars, webVars, envVars>>

\* "except Exception" reads the row again; a row that is gone is logged.
HandlerRead(w) ==
    /\ pc[w] = "handler"
    /\ IF db[job[w]].status = "absent"
       THEN Goto(w, "retry") /\ UNCHANGED obj
       ELSE Goto(w, "fail") /\ obj' = [obj EXCEPT ![w] = db[job[w]]]
    /\ UNCHANGED <<tableVars, queue, cause, cached, beatVars, webVars, envVars>>

\* The row that was read is saved as failed.
HandlerFail(w) ==
    /\ pc[w] = "fail"
    /\ Save(w, [obj[w] EXCEPT !.status = "failed", !.pos = 0])
    /\ Goto(w, "retry")
    /\ UNCHANGED <<reports, latest, queue, cause, cached, beatVars, webVars, envVars>>

\* The next queued task is dispatched, and this message is retried if a retry
\* is left.
HandlerRetry(w) ==
    /\ pc[w] = "retry"
    /\ queue' = IF tries[w] < MaxRetries
                THEN Send(ProcessNext(db, queue), {job[w]}, tries[w] + 1)
                ELSE ProcessNext(db, queue)
    /\ Ack(w)
    /\ UNCHANGED <<tableVars, cached, beatVars, webVars, envVars>>

-----------------------------------------------------------------------------
(* Time limits and failures of workers (packamal/celery.py).               *)

\* What is left of a container when its worker stops waiting for it: nothing
\* stops the container, so it goes on without the worker.
Abandon(w) ==
    orphans' = IF pc[w] = "analyze" THEN orphans \cup {job[w]} ELSE orphans

\* task_soft_time_limit: SoftTimeLimitExceeded is raised where the function
\* is, 29 minutes after it started.  In "publish" the exception is swallowed.
SoftLimit(w) ==
    /\ pc[w] \in {"analyze", "heartbeat", "save", "link", "next"}
    /\ faults < MaxFaults
    /\ faults' = faults + 1
    /\ Abandon(w)
    /\ Raise(w, "timelimit")
    /\ UNCHANGED <<tableVars, queue, cached, beatVars, webVars>>

\* Only a function that has run a container can be that old.
RanContainer(w) ==
    \/ pc[w] \in {"analyze", "heartbeat", "save", "link", "publish", "next"}
    \/ pc[w] \in {"handler", "fail", "retry"} /\ cause[w] \in {"analysis", "unique", "timelimit"}

\* task_time_limit: the process is killed 30 minutes after the start of the
\* function; the message is acknowledged.
HardLimit(w) ==
    /\ RanContainer(w)
    /\ faults < MaxFaults
    /\ faults' = faults + 1
    /\ Abandon(w)
    /\ cached' = [cached EXCEPT ![w] = {}]
    /\ Ack(w)
    /\ UNCHANGED <<tableVars, queue, beatVars, webVars>>

\* The worker process is lost.  An open transaction is rolled back and the
\* message is delivered again (task_reject_on_worker_lost).
Crash(w) ==
    /\ pc[w] # "idle"
    /\ faults < MaxFaults
    /\ faults' = faults + 1
    /\ Abandon(w)
    /\ queue' = Send(queue, {job[w]}, tries[w])
    /\ cached' = [cached EXCEPT ![w] = {}]
    /\ Ack(w)
    /\ UNCHANGED <<tableVars, beatVars, webVars>>

\* The process is replaced (worker_max_tasks_per_child), or its cache expires.
DropCache(w) ==
    /\ pc[w] = "idle" /\ cached[w] # {}
    /\ cached' = [cached EXCEPT ![w] = {}]
    /\ UNCHANGED <<tableVars, queue, pc, job, tries, obj, cause, beatVars, webVars, envVars>>

\* The abandoned containers of a task come to their end.
OrphanExits(t) ==
    /\ t \in orphans
    /\ orphans' = orphans \ {t}
    /\ UNCHANGED <<tableVars, queue, workerVars, beatVars, webVars, faults>>

-----------------------------------------------------------------------------
(* check_timeouts and cleanup_old_tasks.                                   *)

\* timeout_minutes pass since started_at.  task_time_limit is no longer than
\* timeout_minutes, so no worker executes the task any more.
Expire(t) ==
    /\ db[t].status = "running" /\ t \notin expired
    /\ ~Executing(t)
    /\ expired' = expired \cup {t}
    /\ UNCHANGED <<tableVars, queue, workerVars, beat, snap, webVars, envVars>>

\* Variant of TimedOut that looks at queued rows.
TimedOutQueued == {t \in Requests : db[t].status = "queued" /\ t \in expired}

\* Running rows for which is_timed_out() is true.
TimedOut == {t \in Requests : db[t].status = "running" /\ t \in expired}

\* The timed out rows are read, without a lock.
TimeoutsRead ==
    /\ beat = "idle" /\ TimedOut # {}
    /\ beat' = "read"
    /\ snap' = [t \in Requests |-> IF t \in TimedOut THEN db[t] ELSE NoRow]
    /\ UNCHANGED <<tableVars, queue, workerVars, expired, webVars, envVars>>

\* The rows check_timeouts writes: the rows it read, marked failed.  It has no
\* container_id for them, so it stops no container.
FailedBySnap ==
    [t \in Requests |->
        IF snap[t].status = "absent" THEN db[t]
        ELSE [snap[t] EXCEPT !.status = "failed", !.pos = 0]]

\* The rows are updated and the next task is dispatched inside the
\* transaction: the message is out before the update is committed.
TimeoutsWrite ==
    /\ beat = "read"
    /\ \A t \in Requests : snap[t].status # "absent" => Unlocked(t)
    /\ beat' = "written"
    /\ queue' = ProcessNext(FailedBySnap, queue)
    /\ UNCHANGED <<tableVars, workerVars, snap, expired, webVars, envVars>>

TimeoutsCommit ==
    /\ beat = "written"
    /\ db' = FailedBySnap
    /\ expired' = {t \in expired : snap[t].status = "absent"}
    /\ beat' = "idle"
    /\ snap' = [t \in Requests |-> NoRow]
    /\ UNCHANGED <<reports, latest, queue, workerVars, webVars, envVars>>

\* Variant of CleanupOldTasks without the filter on the status.
CleanupAnyStatus ==
    \E old \in SUBSET {t \in Requests :
                          /\ db[t].status # "absent"
                          /\ ~Executing(t) /\ ~LockedByWorker(t)
                          /\ snap[t].status = "absent"
                          /\ rpc[t] \in {"done", "dead"}} :
        /\ old # {}
        /\ db' = [t \in Requests |-> IF t \in old THEN NoRow ELSE db[t]]
        /\ UNCHANGED <<reports, latest, queue, workerVars, beatVars, webVars, envVars>>

\* Completed and failed rows older than seven days are deleted.  A worker that
\* executes a task started less than 30 minutes ago, and a request or a
\* check_timeouts in progress is younger still, so their rows are not old.
\* The caches of the workers keep a result no longer than seven days.
CleanupOldTasks ==
    \E old \in SUBSET {t \in WithStatus(db, "completed") \cup WithStatus(db, "failed") :
                          /\ ~Executing(t) /\ ~LockedByWorker(t)
                          /\ snap[t].status = "absent"
                          /\ rpc[t] \in {"done", "dead"}} :
        /\ old # {}
        /\ db' = [t \in Requests |-> IF t \in old THEN NoRow ELSE db[t]]
        /\ cached' = [w \in Workers |-> cached[w] \ {PackageOfTask(t) : t \in old}]
        /\ UNCHANGED <<reports, latest, queue, pc, job, tries, obj, cause,
                       beatVars, webVars, envVars>>

-----------------------------------------------------------------------------
\* The steps of run_dynamic_analysis itself.
Work(w) ==
    \/ Take(w)
    \/ CheckMissing(w) \/ CheckRetry(w) \/ CheckGiveUp(w)
    \/ CheckCompleted(w) \/ CheckReuse(w) \/ CheckPass(w)
    \/ Claim(w) \/ CacheHit(w) \/ CacheMiss(w)
    \/ AnalysisEnds(w) \/ AnalysisFails(w)
    \/ Heartbeat(w) \/ SaveReport(w) \/ Link(w) \/ PublishReport(w) \/ Finish(w)
    \/ HandlerRead(w) \/ HandlerFail(w) \/ HandlerRetry(w)

Fault(w) == SoftLimit(w) \/ HardLimit(w) \/ Crash(w) \/ DropCache(w)

CheckTimeouts == TimeoutsRead \/ TimeoutsWrite \/ TimeoutsCommit

\* Every request is answered or dead, no message waits, no worker or
\* check_timeouts is busy and no row is running: nothing happens any more.
Quiet ==
    /\ \A r \in Requests : rpc[r] \in {"done", "dead"} /\ db[r].status # "running"
    /\ \A m \in Messages : queue[m] = 0
    /\ \A w \in Workers : pc[w] = "idle"
    /\ beat = "idle"

Idle == Quiet /\ UNCHANGED vars

Next ==
    \/ \E r \in Requests : Web(r) \/ WebDies(r) \/ OrphanExits(r) \/ Expire(r)
    \/ \E w \in Workers : Work(w) \/ Fault(w)
    \/ CheckTimeouts
    \/ CleanupOldTasks
    \/ Idle

Spec == Init /\ [][Next]_vars

\* Workers and the web server go on when they can, Celery beat runs
\* check_timeouts every minute, and time passes.  Requests need not arrive,
\* and nothing obliges a failure, a time limit or the cleanup to happen.
Fairness ==
    /\ \A w \in Workers : WF_vars(Work(w))
    /\ \A r \in Requests : WF_vars(rpc[r] # "idle" /\ Web(r)) /\ WF_vars(Expire(r))
    /\ WF_vars(CheckTimeouts)

FairSpec == Spec /\ Fairness

-----------------------------------------------------------------------------
\* The types of the state; a worker inside run_dynamic_analysis holds the
\* message of a task.
TypeOK ==
    /\ db \in [Requests -> Row]
    /\ reports \subseteq Packages
    /\ latest \in Packages \cup {NoReport}
    /\ queue \in [Messages -> Nat]
    /\ pc \in [Workers -> WorkerSteps]
    /\ job \in [Workers -> Requests \cup {NoTask}]
    /\ \A w \in Workers : pc[w] # "idle" => job[w] \in Requests
    /\ tries \in [Workers -> 0 .. MaxRetries]
    /\ obj \in [Workers -> Row]
    /\ cause \in [Workers -> Causes]
    /\ cached \in [Workers -> SUBSET Packages]
    /\ orphans \subseteq Requests
    /\ beat \in {"idle", "read", "written"}
    /\ snap \in [Requests -> Row]
    /\ expired \subseteq Requests
    /\ rpc \in [Requests -> WebSteps]
    /\ draft \in [Requests -> Row]
    /\ ticks \in Nat
    /\ faults \in 0 .. MaxFaults

\* At most one task is running: what the check for a running task in the first
\* transaction of run_dynamic_analysis is for.
OneRunning ==
    \A t, u \in WithStatus(db, "running") : t = u

\* The report of a task is the report of its own package, although it is
\* looked up as the report with the greatest id.
OwnReport ==
    \A t \in Requests : db[t].report \in {NoReport, PackageOfTask(t)}

\* A queued task is never forgotten: a message for it waits in the broker, a
\* worker holds one, or its request has yet to publish one (or died).
QueuedIsDriven ==
    \A t \in WithStatus(db, "queued") :
        \/ \E n \in 0 .. MaxRetries : queue[t, n] > 0
        \/ \E w \in Workers : pc[w] # "idle" /\ job[w] = t
        \/ rpc[t] \in {"publish", "dead"}

\* A completed task never runs again.
NoRerun ==
    [][\A t \in Requests :
          db[t].status = "completed" => db'[t].status # "running"]_vars

\* Every task whose request was answered ends as completed or failed (or is
\* deleted), whatever crashes.
EventuallySettled ==
    \A t \in Requests :
        (db[t].status \in {"queued", "running"} /\ rpc[t] = "done")
            ~> (db[t].status \in {"completed", "failed", "absent"})

\* No container is started for a purl that has a completed result: smart
\* caching in the first transaction.
NoReanalysis ==
    \A w \in Workers : pc[w] = "analyze" => OtherResults(db, job[w]) = {}

\* An idempotency key names at most one task, however its requests interleave:
\* the lookup of the key is not atomic with the creation of the row.
OneTaskPerKey ==
    \A t, u \in Requests :
        (/\ KeyOf[t] # NoKey /\ KeyOf[t] = KeyOf[u]
         /\ db[t].status # "absent" /\ db[u].status # "absent") => t = u

\* The statuses of the rows.
status == [t \in Requests |-> db[t].status]

Lifecycle == INSTANCE TaskLifecycle WITH Tasks <- Requests

\* The dispatcher implements the single slot lifecycle of a task: only a queued
\* or failed task is started, and only when no task is running.
ImplementsLifecycle == Lifecycle!Spec

=============================================================================
