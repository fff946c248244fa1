-------------------------- MODULE CeleryTasksProofs --------------------------
(***************************************************************************)
(* Theorems about CeleryTasks for every number of requests, packages and   *)
(* workers, and for every bound on the faults.                             *)
(***************************************************************************)
EXTENDS CeleryTasks, FiniteSetTheorems, TLAPS

-----------------------------------------------------------------------------
(* What the helpers return.                                                *)

\* Every task of the table is about a package.
LEMMA PackageType ==
    \A t \in Requests : PackageOfTask(t) \in Packages
BY TableAssumption DEF PackageOfTask

\* A row that is not in the table is a row.
LEMMA NoRowType == NoRow \in Row
BY DEF Row, NoRow, Statuses

\* Setting the status of a row gives a row.
LEMMA StatusType ==
    ASSUME NEW row \in Row, NEW s \in Statuses
    PROVE  [row EXCEPT !.status = s] \in Row
BY DEF Row, Statuses

\* Setting the status and the queue position of a row gives a row.
LEMMA PlacedType ==
    ASSUME NEW row \in Row, NEW s \in Statuses, NEW p \in Nat
    PROVE  [row EXCEPT !.status = s, !.pos = p] \in Row
BY DEF Row, Statuses

\* Queueing a row gives a row.
LEMMA QueuedType ==
    ASSUME NEW row \in Row, NEW s \in Statuses, NEW p \in Nat, NEW q \in Nat
    PROVE  [row EXCEPT !.status = s, !.pos = p, !.qat = q] \in Row
BY DEF Row, Statuses

\* Linking a report to a row gives a row.
LEMMA LinkedType ==
    ASSUME NEW row \in Row, NEW s \in Statuses, NEW report \in Packages \cup {NoReport}
    PROVE  [row EXCEPT !.status = s, !.report = report] \in Row
BY DEF Row, Statuses

\* Publishing leaves a queue: message counts stay natural numbers.
LEMMA SendType ==
    ASSUME NEW q \in [Messages -> Nat], NEW S, NEW n
    PROVE  Send(q, S, n) \in [Messages -> Nat]
BY DEF Send

\* Dispatching the next task leaves a queue.
LEMMA ProcessNextType ==
    ASSUME NEW q \in [Messages -> Nat], NEW table
    PROVE  ProcessNext(table, q) \in [Messages -> Nat]
BY SendType DEF ProcessNext

\* The queue position of a new row is a natural number.
LEMMA PositionType ==
    Cardinality(WithStatus(db, "queued")) + 1 \in Nat
<1>1. WithStatus(db, "queued") \in SUBSET Requests
  BY DEF WithStatus
<1>2. Cardinality(WithStatus(db, "queued")) \in Nat
  BY <1>1, TableAssumption, FS_Subset, FS_CardinalityType
<1> QED
  BY <1>2

-----------------------------------------------------------------------------
(* Type correctness.                                                       *)

\* Every step of a request keeps the variables in their types.
LEMMA WebType ==
    ASSUME TypeOK, NEW r \in Requests, Web(r) \/ WebDies(r)
    PROVE  TypeOK'
<1> USE DEF tableVars, workerVars, beatVars, webVars, envVars, TypeOK, WebSteps
<1>1. CASE LookupCompleted(r) \/ LookupActive(r) \/ LookupKey(r)
  <2>1. /\ \E step \in {"active", "key", "create"} : Respond(r) \/ WebGoto(r, step)
        /\ UNCHANGED <<tableVars, queue, workerVars, beatVars, envVars, ticks>>
    BY <1>1 DEF LookupCompleted, LookupActive, LookupKey
  <2> QED
    BY <2>1, NoRowType DEF Respond, WebGoto
<1>2. CASE Create(r)
  <2> DEFINE row == [NoRow EXCEPT !.status = "pending"]
  <2>1. row \in Row
    BY NoRowType, StatusType DEF Statuses
  <2> HIDE DEF row
  <2>2. CASE Respond(r) /\ UNCHANGED db
    BY <1>2, <2>2, NoRowType DEF Create, Respond
  <2>3. CASE WebSave(r, row, "enqueue")
    BY <1>2, <2>1, <2>3 DEF Create, WebSave
  <2> QED
    BY <1>2, <2>2, <2>3 DEF Create, row
<1>3. CASE Enqueue(r)
  <2> DEFINE p == Cardinality(WithStatus(db, "queued")) + 1
  <2>1. p \in Nat /\ ticks + 1 \in Nat /\ draft[r] \in Row /\ "queued" \in Statuses
    BY PositionType DEF Statuses
  <2> HIDE DEF p
  <2>2. [draft[r] EXCEPT !.status = "queued", !.pos = p, !.qat = ticks + 1] \in Row
    BY <2>1, QueuedType
  <2> QED
    BY <1>3, <2>1, <2>2 DEF Enqueue, WebSave, p
<1>4. CASE Publish(r)
  BY <1>4, SendType, NoRowType
  DEF Publish, Respond
<1>5. CASE PublishFails(r)
  <2>1. [draft[r] EXCEPT !.status = "failed"] \in Row
    BY StatusType DEF Statuses
  <2> QED
    BY <1>5, <2>1, NoRowType DEF PublishFails, Respond
<1>6. CASE WebDies(r)
  BY <1>6, CeleryAssumption
  DEF WebDies, WebGoto
<1> QED
  BY <1>1, <1>2, <1>3, <1>4, <1>5, <1>6 DEF Web

\* Every step of run_dynamic_analysis keeps the variables in their types.
LEMMA WorkType ==
    ASSUME TypeOK, NEW w \in Workers, Work(w)
    PROVE  TypeOK'
<1> USE DEF tableVars, workerVars, beatVars, webVars, envVars, TypeOK, WorkerSteps,
            AfterClaim, Causes
<1>1. CASE Take(w)
  BY <1>1
  DEF Take, Messages, MaxRetries
<1>2. CASE CheckMissing(w)
  BY <1>2
  DEF CheckMissing, Raise, Goto
<1>3. CASE CheckRetry(w)
  BY <1>3, SendType, NoRowType
  DEF CheckRetry, Ack, MaxRetries
<1>4. CASE CheckGiveUp(w)
  BY <1>4
  DEF CheckGiveUp, Raise, Goto
<1>5. CASE CheckCompleted(w)
  BY <1>5, NoRowType
  DEF CheckCompleted, Ack, MaxRetries
<1>6. CASE CheckReuse(w)
  BY <1>6
  DEF CheckReuse, Raise, Goto
<1>7. CASE CheckPass(w)
  BY <1>7
  DEF CheckPass, Goto
<1>8. CASE Claim(w)
  BY <1>8, PlacedType
  DEF Claim, Goto, Statuses
<1>9. CASE CacheHit(w)
  BY <1>9, StatusType
  DEF CacheHit, Save, Goto, Statuses
<1>10. CASE CacheMiss(w)
  BY <1>10
  DEF CacheMiss, Goto
<1>11. CASE AnalysisEnds(w)
  BY <1>11
  DEF AnalysisEnds, Goto
<1>12. CASE AnalysisFails(w)
  BY <1>12
  DEF AnalysisFails, Raise, Goto
<1>13. CASE Heartbeat(w)
  BY <1>13, PackageType
  DEF Heartbeat, Save, Goto
<1>14. CASE SaveReport(w)
  BY <1>14, PackageType
  DEF SaveReport, Raise, Goto
<1>15. CASE Link(w)
  <2>1. [obj[w] EXCEPT !.status = "completed", !.report = latest] \in Row
    BY LinkedType DEF Statuses
  <2> QED
    BY <1>15, <2>1 DEF Link, Raise, Save, Goto
<1>16. CASE PublishReport(w)
  BY <1>16
  DEF PublishReport, Save, Goto
<1>17. CASE Finish(w)
  BY <1>17, ProcessNextType, NoRowType
  DEF Finish, Ack, MaxRetries
<1>18. CASE HandlerRead(w)
  BY <1>18
  DEF HandlerRead, Goto
<1>19. CASE HandlerFail(w)
  BY <1>19, PlacedType
  DEF HandlerFail, Save, Goto, Statuses
<1>20. CASE HandlerRetry(w)
  BY <1>20, SendType, ProcessNextType, NoRowType
  DEF HandlerRetry, Ack, MaxRetries
<1> QED
  BY <1>1, <1>2, <1>3, <1>4, <1>5, <1>6, <1>7, <1>8, <1>9, <1>10, <1>11, <1>12, <1>13,
     <1>14, <1>15, <1>16, <1>17, <1>18, <1>19, <1>20 DEF Work

\* Time limits, crashes and expiring caches keep the variables in their types.
LEMMA FaultType ==
    ASSUME TypeOK, NEW w \in Workers, Fault(w)
    PROVE  TypeOK'
<1> USE DEF tableVars, workerVars, beatVars, webVars, envVars, TypeOK, WorkerSteps,
            AfterClaim, Causes
<1>1. CASE SoftLimit(w)
  BY <1>1, CeleryAssumption
  DEF SoftLimit, Abandon, Raise, Goto
<1>2. CASE HardLimit(w)
  BY <1>2, CeleryAssumption, NoRowType
  DEF HardLimit, Abandon, RanContainer, Ack, MaxRetries
<1>3. CASE Crash(w)
  BY <1>3, CeleryAssumption, SendType, NoRowType
  DEF Crash, Abandon, Ack, MaxRetries
<1>4. CASE DropCache(w)
  BY <1>4
  DEF DropCache
<1> QED
  BY <1>1, <1>2, <1>3, <1>4 DEF Fault

\* The rows check_timeouts writes are rows.
LEMMA FailedBySnapType ==
    ASSUME TypeOK PROVE FailedBySnap \in [Requests -> Row]
BY PlacedType DEF TypeOK, FailedBySnap, Statuses

\* TypeOK is preserved by every step.
LEMMA TypeStep == TypeOK /\ [Next]_vars => TypeOK'
<1> SUFFICES ASSUME TypeOK, [Next]_vars PROVE TypeOK'
  OBVIOUS
<1> USE DEF tableVars, workerVars, beatVars, webVars, envVars
<1>1. ASSUME NEW r \in Requests, Web(r) \/ WebDies(r) PROVE TypeOK'
  BY <1>1, WebType
<1>2. ASSUME NEW r \in Requests, OrphanExits(r) PROVE TypeOK'
  BY <1>2 DEF OrphanExits, TypeOK
<1>3. ASSUME NEW r \in Requests, Expire(r) PROVE TypeOK'
  BY <1>3 DEF Expire, TypeOK
<1>4. ASSUME NEW w \in Workers, Work(w) PROVE TypeOK'
  BY <1>4, WorkType
<1>5. ASSUME NEW w \in Workers, Fault(w) PROVE TypeOK'
  BY <1>5, FaultType
<1>6. CASE TimeoutsRead
  BY <1>6, NoRowType DEF TimeoutsRead, TypeOK
<1>7. CASE TimeoutsWrite
  BY <1>7, ProcessNextType DEF TimeoutsWrite, TypeOK
<1>8. CASE TimeoutsCommit
  BY <1>8, FailedBySnapType, NoRowType DEF TimeoutsCommit, TypeOK
<1>9. CASE CleanupOldTasks
  <2>1. PICK old \in SUBSET Requests :
            /\ db' = [t \in Requests |-> IF t \in old THEN NoRow ELSE db[t]]
            /\ cached' = [w \in Workers |-> cached[w] \ {PackageOfTask(t) : t \in old}]
            /\ UNCHANGED <<reports, latest, queue, pc, job, tries, obj, cause,
                           beatVars, webVars, envVars>>
    BY <1>9 DEF CleanupOldTasks, WithStatus
  <2>2. db' \in [Requests -> Row]
    BY <2>1, NoRowType DEF TypeOK
  <2>3. cached' \in [Workers -> SUBSET Packages]
    BY <2>1 DEF TypeOK
  <2> QED
    BY <2>1, <2>2, <2>3 DEF TypeOK
<1>10. CASE UNCHANGED vars
  BY <1>10 DEF vars, TypeOK
<1> QED
  BY <1>1, <1>2, <1>3, <1>4, <1>5, <1>6, <1>7, <1>8, <1>9, <1>10
  DEF Next, CheckTimeouts, Idle

\* Every variable of the dispatcher keeps its type, and a worker that executes
\* run_dynamic_analysis holds the message of a task, whatever crashes.
THEOREM TypeCorrect == Spec => []TypeOK
<1>1. Init => TypeOK
  BY CeleryAssumption, NoRowType DEF Init, TypeOK, Messages, MaxRetries,
     WorkerSteps, Causes, WebSteps
<1>2. TypeOK /\ [Next]_vars => TypeOK'
  BY TypeStep
<1> QED
  BY <1>1, <1>2, PTL DEF Spec

-----------------------------------------------------------------------------
(* A queued task is driven.  QueuedIsDriven is not inductive: the message of
   a task is used up when run_dynamic_analysis returns, so one has to know
   that the row has left "queued" by then.  It has, because the worker wrote
   another status after it took the message and only analyze_api writes
   "queued", once, before anybody else knows of the task.                  *)

\* The steps of analyze_api up to the one that queues the row.
Early == {"idle", "active", "key", "create", "enqueue"}

\* Until its request queues it, a task has no message, no worker and no place
\* in check_timeouts.
Unpublished ==
    \A t \in Requests :
        rpc[t] \in Early =>
            /\ db[t].status \in {"absent", "pending"}
            /\ \A n \in 0 .. MaxRetries : queue[<<t, n>>] = 0
            /\ \A w \in Workers : job[w] # t
            /\ snap[t].status = "absent"

\* The worker has written the row of its task since it took the message.
HasWritten(w) ==
    \/ pc[w] \in {"cache", "analyze", "heartbeat", "save", "link", "publish", "next", "retry"}
    \/ pc[w] \in {"handler", "fail"} /\ cause[w] \in {"analysis", "unique", "timelimit"}

WrittenNotQueued ==
    \A w \in Workers : HasWritten(w) => db[job[w]].status # "queued"

LinkedIsCompleted ==
    \A w \in Workers : pc[w] = "publish" => obj[w].status = "completed"

DriveInv == TypeOK /\ Unpublished /\ WrittenNotQueued /\ LinkedIsCompleted /\ QueuedIsDriven

\* A function that is old enough for the hard time limit has claimed its row.
LEMMA OldHasWritten ==
    \A w \in Workers : RanContainer(w) => HasWritten(w)
BY DEF RanContainer, HasWritten

\* Publishing leaves the messages of other tasks alone.
LEMMA SendElsewhere ==
    ASSUME NEW q \in [Messages -> Nat], NEW S, NEW k, NEW t \in Requests, t \notin S
    PROVE  \A n \in 0 .. MaxRetries : Send(q, S, k)[<<t, n>>] = q[<<t, n>>]
BY DEF Send, Messages

\* Dispatching the next task publishes for queued rows only.
LEMMA ProcessNextElsewhere ==
    ASSUME NEW q \in [Messages -> Nat], NEW table, NEW t \in Requests,
           table[t].status # "queued"
    PROVE  \A n \in 0 .. MaxRetries : ProcessNext(table, q)[<<t, n>>] = q[<<t, n>>]
<1>1. t \notin ToDispatch(table)
  BY DEF ToDispatch, HeadOfQueue, WithStatus
<1> QED
  BY <1>1, SendElsewhere DEF ProcessNext

\* A task that a message waits for.
Waiting(q, t) == \E n \in 0 .. MaxRetries : q[<<t, n>>] > 0

\* Publishing never takes a message away.
LEMMA SendKeeps ==
    ASSUME NEW q \in [Messages -> Nat], NEW S, NEW k, NEW t \in Requests, Waiting(q, t)
    PROVE  Waiting(Send(q, S, k), t)
<1>1. PICK n \in 0 .. MaxRetries : q[<<t, n>>] > 0
  BY DEF Waiting
<1>2. Send(q, S, k)[<<t, n>>] > 0
  BY <1>1 DEF Send, Messages
<1> QED
  BY <1>2 DEF Waiting

\* After a message is published for a task, one waits.
LEMMA SendWaits ==
    ASSUME NEW q \in [Messages -> Nat], NEW S, NEW k \in 0 .. MaxRetries, NEW t \in Requests, t \in S
    PROVE  Waiting(Send(q, S, k), t)
BY DEF Send, Messages, Waiting

\* Dispatching the next task never takes a message away.
LEMMA ProcessNextKeeps ==
    ASSUME NEW q \in [Messages -> Nat], NEW table, NEW t \in Requests, Waiting(q, t)
    PROVE  Waiting(ProcessNext(table, q), t)
BY SendKeeps DEF ProcessNext


\* No step of a request touches a task that another request has yet to queue.
LEMMA WebUnpublished ==
    ASSUME TypeOK, Unpublished, NEW r \in Requests, Web(r) \/ WebDies(r)
    PROVE  Unpublished'
<1> SUFFICES ASSUME NEW t \in Requests, rpc'[t] \in Early
             PROVE  /\ db'[t].status \in {"absent", "pending"}
                    /\ \A n \in 0 .. MaxRetries : queue'[<<t, n>>] = 0
                    /\ \A v \in Workers : job'[v] # t
                    /\ snap'[t].status = "absent"
  BY DEF Unpublished
<1> USE DEF tableVars, workerVars, beatVars, webVars, envVars, TypeOK, Early
<1>1. CASE LookupCompleted(r)
  BY <1>1
  DEF LookupCompleted, Respond, WebGoto, Unpublished
<1>2. CASE LookupActive(r)
  BY <1>2
  DEF LookupActive, Respond, WebGoto, Unpublished
<1>3. CASE LookupKey(r)
  BY <1>3
  DEF LookupKey, Respond, WebGoto, Unpublished
<1>4. CASE Create(r)
  BY <1>4
  DEF Create, Respond, WebSave, NoRow, Unpublished
<1>5. CASE Enqueue(r)
  BY <1>5
  DEF Enqueue, WebSave, Unpublished
<1>6. CASE Publish(r)
  <2>1. t \notin {r} /\ queue' = Send(queue, {r}, 0)
    BY <1>6 DEF Publish, Respond
  <2>2. \A n \in 0 .. MaxRetries : queue'[<<t, n>>] = queue[<<t, n>>]
    BY <2>1 DEF Send, Messages
  <2> QED
    BY <1>6, <2>2 DEF Publish, Respond, Unpublished
<1>7. CASE PublishFails(r)
  BY <1>7
  DEF PublishFails, Respond, Unpublished
<1>8. CASE WebDies(r)
  BY <1>8
  DEF WebDies, WebGoto, Unpublished
<1> QED
  BY <1>1, <1>2, <1>3, <1>4, <1>5, <1>6, <1>7, <1>8 DEF Web

\* No step of a worker touches a task that its request has yet to queue.
LEMMA WorkUnpublished ==
    ASSUME TypeOK, Unpublished, NEW w \in Workers, Work(w) \/ Fault(w)
    PROVE  Unpublished'
<1> SUFFICES ASSUME NEW t \in Requests, rpc'[t] \in Early
             PROVE  /\ db'[t].status \in {"absent", "pending"}
                    /\ \A n \in 0 .. MaxRetries : queue'[<<t, n>>] = 0
                    /\ \A v \in Workers : job'[v] # t
                    /\ snap'[t].status = "absent"
  BY DEF Unpublished
<1> USE TableAssumption DEF tableVars, workerVars, beatVars, webVars, envVars, TypeOK, Early
<1>1. CASE Take(w)
  BY <1>1
  DEF Take, Messages, Unpublished
<1>2. CASE CheckMissing(w)
  BY <1>2
  DEF CheckMissing, Raise, Goto, Unpublished
<1>3. CASE CheckRetry(w)
  <2>1. t \notin {job[w]} /\ queue' = Send(queue, {job[w]}, tries[w] + 1)
    BY <1>3 DEF CheckRetry, Ack, Unpublished
  <2>2. \A n \in 0 .. MaxRetries : queue'[<<t, n>>] = queue[<<t, n>>]
    BY <2>1 DEF Send, Messages
  <2> QED
    BY <1>3, <2>2 DEF CheckRetry, Ack, Unpublished
<1>4. CASE CheckGiveUp(w)
  BY <1>4
  DEF CheckGiveUp, Raise, Goto, Unpublished
<1>5. CASE CheckCompleted(w)
  BY <1>5
  DEF CheckCompleted, Ack, Unpublished
<1>6. CASE CheckReuse(w)
  BY <1>6
  DEF CheckReuse, Raise, Goto, Unpublished
<1>7. CASE CheckPass(w)
  BY <1>7
  DEF CheckPass, Goto, Unpublished
<1>8. CASE Claim(w)
  BY <1>8
  DEF Claim, Goto, Unpublished
<1>9. CASE CacheHit(w)
  BY <1>9
  DEF CacheHit, Save, Goto, Unpublished
<1>10. CASE CacheMiss(w)
  BY <1>10
  DEF CacheMiss, Goto, Unpublished
<1>11. CASE AnalysisEnds(w)
  BY <1>11
  DEF AnalysisEnds, Goto, Unpublished
<1>12. CASE AnalysisFails(w)
  BY <1>12
  DEF AnalysisFails, Raise, Goto, Unpublished
<1>13. CASE Heartbeat(w)
  BY <1>13
  DEF Heartbeat, Save, Goto, Unpublished
<1>14. CASE SaveReport(w)
  BY <1>14
  DEF SaveReport, Raise, Goto, Unpublished
<1>15. CASE Link(w)
  BY <1>15
  DEF Link, Raise, Save, Goto, Unpublished
<1>16. CASE PublishReport(w)
  BY <1>16
  DEF PublishReport, Save, Goto, Unpublished
<1>17. CASE Finish(w)
  <2>1. db[t].status # "queued" /\ queue' = ProcessNext(db, queue)
    BY <1>17 DEF Finish, Unpublished
  <2>2. \A n \in 0 .. MaxRetries : queue'[<<t, n>>] = queue[<<t, n>>]
    BY <2>1, ProcessNextElsewhere
  <2> QED
    BY <1>17, <2>2 DEF Finish, Ack, Unpublished
<1>18. CASE HandlerRead(w)
  BY <1>18
  DEF HandlerRead, Goto, Unpublished
<1>19. CASE HandlerFail(w)
  BY <1>19
  DEF HandlerFail, Save, Goto, Unpublished
<1>20. CASE HandlerRetry(w)
  <2> DEFINE q == ProcessNext(db, queue)
  <2>1. t \notin {job[w]} /\ db[t].status # "queued" /\ q \in [Messages -> Nat]
    BY <1>20, ProcessNextType DEF HandlerRetry, Unpublished
  <2>2. \A n \in 0 .. MaxRetries : q[<<t, n>>] = queue[<<t, n>>]
    BY <2>1, ProcessNextElsewhere
  <2>3. queue' \in {q, Send(q, {job[w]}, tries[w] + 1)}
    BY <1>20 DEF HandlerRetry
  <2> HIDE DEF q
  <2>4. \A n \in 0 .. MaxRetries : queue'[<<t, n>>] = queue[<<t, n>>]
    BY <2>1, <2>2, <2>3 DEF Send, Messages
  <2> QED
    BY <1>20, <2>4 DEF HandlerRetry, Ack, Unpublished
<1>21. CASE SoftLimit(w)
  BY <1>21
  DEF SoftLimit, Raise, Goto, Unpublished
<1>22. CASE HardLimit(w)
  BY <1>22
  DEF HardLimit, Ack, Unpublished
<1>23. CASE Crash(w)
  <2>1. t \notin {job[w]} /\ queue' = Send(queue, {job[w]}, tries[w])
    BY <1>23 DEF Crash, Ack, Unpublished
  <2>2. \A n \in 0 .. MaxRetries : queue'[<<t, n>>] = queue[<<t, n>>]
    BY <2>1 DEF Send, Messages
  <2> QED
    BY <1>23, <2>2 DEF Crash, Ack, Unpublished
<1>24. CASE DropCache(w)
  BY <1>24
  DEF DropCache, Unpublished
<1> QED
  BY <1>1, <1>2, <1>3, <1>4, <1>5, <1>6, <1>7, <1>8, <1>9, <1>10, <1>11, <1>12, <1>13,
     <1>14, <1>15, <1>16, <1>17, <1>18, <1>19, <1>20, <1>21, <1>22, <1>23,
     <1>24 DEF Work, Fault


\* check_timeouts and cleanup_old_tasks do not touch a task that its request has
\* yet to queue.
LEMMA BeatUnpublished ==
    ASSUME TypeOK, Unpublished, CheckTimeouts \/ CleanupOldTasks
    PROVE  Unpublished'
<1> SUFFICES ASSUME NEW t \in Requests, rpc'[t] \in Early
             PROVE  /\ db'[t].status \in {"absent", "pending"}
                    /\ \A n \in 0 .. MaxRetries : queue'[<<t, n>>] = 0
                    /\ \A v \in Workers : job'[v] # t
                    /\ snap'[t].status = "absent"
  BY DEF Unpublished
<1> USE DEF tableVars, workerVars, beatVars, webVars, envVars, TypeOK, Early
<1>1. CASE TimeoutsRead
  BY <1>1 DEF TimeoutsRead, TimedOut, NoRow, Unpublished
<1>2. CASE TimeoutsWrite
  <2>1. FailedBySnap[t].status # "queued" /\ queue' = ProcessNext(FailedBySnap, queue)
    BY <1>2 DEF TimeoutsWrite, FailedBySnap, Unpublished
  <2>2. \A n \in 0 .. MaxRetries : queue'[<<t, n>>] = queue[<<t, n>>]
    BY <2>1, ProcessNextElsewhere
  <2> QED
    BY <1>2, <2>2 DEF TimeoutsWrite, Unpublished
<1>3. CASE TimeoutsCommit
  BY <1>3 DEF TimeoutsCommit, FailedBySnap, NoRow, Unpublished
<1>4. CASE CleanupOldTasks
  BY <1>4 DEF CleanupOldTasks, Unpublished
<1> QED
  BY <1>1, <1>2, <1>3, <1>4 DEF CheckTimeouts

\* Unpublished is preserved by every step.
LEMMA UnpublishedStep ==
    ASSUME TypeOK, Unpublished, [Next]_vars
    PROVE  Unpublished'
<1>1. ASSUME NEW r \in Requests, OrphanExits(r) \/ Expire(r) PROVE Unpublished'
  BY <1>1 DEF OrphanExits, Expire, Unpublished, tableVars, workerVars, beatVars, webVars
<1>2. CASE UNCHANGED vars
  BY <1>2 DEF vars, Unpublished, tableVars, workerVars, beatVars, webVars
<1> QED
  BY <1>1, <1>2, WebUnpublished, WorkUnpublished, BeatUnpublished DEF Next, Idle

\* After Link, the object in memory is completed.
LEMMA LinkedStep ==
    ASSUME TypeOK, LinkedIsCompleted, [Next]_vars
    PROVE  LinkedIsCompleted'
<1> USE DEF tableVars, workerVars, beatVars, webVars, envVars, TypeOK, LinkedIsCompleted
<1>1. ASSUME NEW r \in Requests, Web(r) \/ WebDies(r) \/ OrphanExits(r) \/ Expire(r)
      PROVE  UNCHANGED <<pc, obj>>
  BY <1>1 DEF Web, LookupCompleted, LookupActive, LookupKey, Create, Enqueue, Publish,
     PublishFails, WebDies, OrphanExits, Expire
<1>2. ASSUME CheckTimeouts \/ CleanupOldTasks \/ UNCHANGED vars
      PROVE  UNCHANGED <<pc, obj>>
  BY <1>2 DEF CheckTimeouts, TimeoutsRead, TimeoutsWrite, TimeoutsCommit,
     CleanupOldTasks, vars
<1>3. ASSUME NEW w \in Workers, Work(w) \/ Fault(w)
      PROVE  LinkedIsCompleted'
  <2>1. CASE Link(w)
    <3>1. [obj[w] EXCEPT !.status = "completed", !.report = latest].status = "completed"
      BY DEF Row
    <3> QED
      BY <2>1, <3>1 DEF Link, Raise, Save, Goto
  <2>2. CASE PublishReport(w)
    BY <2>2 DEF PublishReport, Save, Goto
  <2>3. CASE Work(w) /\ ~Link(w) /\ ~PublishReport(w)
    <3>1. /\ pc'[w] # "publish"
          /\ \A v \in Workers \ {w} : pc'[v] = pc[v] /\ obj'[v] = obj[v]
      BY <2>3 DEF Work, Take, CheckMissing, CheckRetry, CheckGiveUp, CheckCompleted,
         CheckReuse, CheckPass, Claim, CacheHit, CacheMiss, AnalysisEnds, AnalysisFails,
         Heartbeat, SaveReport, Finish, HandlerRead, HandlerFail, HandlerRetry,
         Goto, Ack, Raise, Save
    <3> QED
      BY <3>1
  <2>4. CASE Fault(w)
    BY <2>4 DEF Fault, SoftLimit, HardLimit, Crash, DropCache, Goto, Ack, Raise
  <2> QED
    BY <1>3, <2>1, <2>2, <2>3, <2>4
<1> QED
  BY <1>1, <1>2, <1>3 DEF Next, Idle


\* Only analyze_api queues a row, and it queues its own.
LEMMA OnlyEnqueueQueues ==
    ASSUME TypeOK, LinkedIsCompleted, [Next]_vars, NEW t \in Requests,
           db[t].status # "queued", db'[t].status = "queued"
    PROVE  Enqueue(t)
<1> USE DEF tableVars, workerVars, beatVars, webVars, envVars, TypeOK
<1>1. ASSUME NEW r \in Requests, Web(r) \/ WebDies(r) \/ OrphanExits(r) \/ Expire(r)
      PROVE  Enqueue(t)
  <2>1. [NoRow EXCEPT !.status = "pending"].status # "queued"
    BY DEF NoRow
  <2>2. [draft[r] EXCEPT !.status = "failed"].status # "queued"
    BY DEF Row
  <2> QED
    BY <1>1, <2>1, <2>2 DEF Web, LookupCompleted, LookupActive, LookupKey, Create, Enqueue,
       Publish, PublishFails, WebDies, OrphanExits, Expire, WebSave
<1>2. ASSUME NEW w \in Workers, Work(w) PROVE FALSE
  <2>1. \A row \in Row :
           /\ \A s \in Statuses : [row EXCEPT !.status = s].status = s
           /\ \A s \in Statuses : [row EXCEPT !.status = s, !.pos = 0].status = s
           /\ [row EXCEPT !.status = "completed", !.report = latest].status = "completed"
    BY DEF Row
  <2>2. UNCHANGED db \/ \E row : db' = [db EXCEPT ![job[w]] = row] /\ row.status # "queued"
    <3>1. CASE Claim(w)
      BY <2>1, <3>1 DEF Claim, Statuses
    <3>2. CASE CacheHit(w)
      BY <2>1, <3>2 DEF CacheHit, Save, Statuses
    <3>3. CASE Heartbeat(w)
      BY <3>3 DEF Heartbeat, Save
    <3>4. CASE Link(w)
      BY <2>1, <3>4 DEF Link, Save
    <3>5. CASE PublishReport(w)
      BY <3>5 DEF PublishReport, Save, LinkedIsCompleted
    <3>6. CASE HandlerFail(w)
      BY <2>1, <3>6 DEF HandlerFail, Save, Statuses
    <3> QED
      BY <1>2, <3>1, <3>2, <3>3, <3>4, <3>5, <3>6 DEF Work, Take, CheckMissing, CheckRetry,
         CheckGiveUp, CheckCompleted, CheckReuse, CheckPass, CacheMiss, AnalysisEnds,
         AnalysisFails, SaveReport, Finish, HandlerRead, HandlerRetry
  <2> QED
    BY <2>2
<1>3. ASSUME NEW w \in Workers, Fault(w) PROVE FALSE
  BY <1>3 DEF Fault, SoftLimit, HardLimit, Crash, DropCache
<1>4. CASE TimeoutsRead \/ TimeoutsWrite \/ UNCHANGED vars
  BY <1>4 DEF TimeoutsRead, TimeoutsWrite, vars
<1>5. CASE TimeoutsCommit
  <2>1. snap[t].status # "absent" => [snap[t] EXCEPT !.status = "failed", !.pos = 0].status = "failed"
    BY DEF Row
  <2> QED
    BY <1>5, <2>1 DEF TimeoutsCommit, FailedBySnap
<1>6. CASE CleanupOldTasks
  BY <1>6 DEF CleanupOldTasks, NoRow
<1> QED
  BY <1>1, <1>2, <1>3, <1>4, <1>5, <1>6 DEF Next, CheckTimeouts, Idle

\* A step of one worker leaves the others where they are.
LEMMA OthersStay ==
    ASSUME TypeOK, NEW w \in Workers, Work(w) \/ Fault(w), NEW v \in Workers, v # w
    PROVE  pc'[v] = pc[v] /\ job'[v] = job[v] /\ obj'[v] = obj[v] /\ cause'[v] = cause[v]
<1> USE DEF workerVars, TypeOK
<1>1. CASE Work(w)
  BY <1>1 DEF Work, Take, CheckMissing, CheckRetry, CheckGiveUp, CheckCompleted,
     CheckReuse, CheckPass, Claim, CacheHit, CacheMiss, AnalysisEnds, AnalysisFails,
     Heartbeat, SaveReport, Link, PublishReport, Finish, HandlerRead, HandlerFail,
     HandlerRetry, Goto, Ack, Raise, Save
<1>2. CASE Fault(w)
  BY <1>2 DEF Fault, SoftLimit, HardLimit, Crash, DropCache, Goto, Ack, Raise
<1> QED
  BY <1>1, <1>2

\* Requests, check_timeouts and cleanup_old_tasks leave the workers alone.
LEMMA WorkersStay ==
    ASSUME \/ \E r \in Requests : Web(r) \/ WebDies(r) \/ OrphanExits(r) \/ Expire(r)
           \/ CheckTimeouts \/ CleanupOldTasks \/ UNCHANGED vars
    PROVE  UNCHANGED <<pc, job, obj, cause>>
<1> USE DEF workerVars, vars
<1>1. ASSUME NEW r \in Requests, Web(r) \/ WebDies(r) \/ OrphanExits(r) \/ Expire(r)
      PROVE  UNCHANGED <<pc, job, obj, cause>>
  BY <1>1 DEF Web, LookupCompleted, LookupActive, LookupKey, Create, Enqueue, Publish,
     PublishFails, WebDies, OrphanExits, Expire
<1>2. ASSUME CheckTimeouts \/ CleanupOldTasks \/ UNCHANGED vars
      PROVE  UNCHANGED <<pc, job, obj, cause>>
  BY <1>2 DEF CheckTimeouts, TimeoutsRead, TimeoutsWrite, TimeoutsCommit,
     CleanupOldTasks
<1> QED
  BY <1>1, <1>2

\* A worker that has written the row of its task had written it before this
\* step, or writes a status other than queued now, or finds the row gone.
LEMMA BecomesWritten ==
    ASSUME TypeOK, NEW w \in Workers, Work(w) \/ Fault(w), HasWritten(w)'
    PROVE  \/ HasWritten(w) /\ job'[w] = job[w]
           \/ db'[job'[w]].status # "queued"
<1> USE DEF tableVars, workerVars, TypeOK
<1>1. CASE Claim(w)
  <2>1. [obj[w] EXCEPT !.status = "running", !.pos = 0].status = "running"
    BY DEF Row
  <2> QED
    BY <1>1, <2>1 DEF Claim, Goto
<1>2. CASE HandlerFail(w)
  <2>1. [obj[w] EXCEPT !.status = "failed", !.pos = 0].status = "failed"
    BY DEF Row
  <2> QED
    BY <1>2, <2>1 DEF HandlerFail, Save, Goto
<1>3. CASE HandlerRead(w)
  BY <1>3 DEF HandlerRead, Goto, HasWritten
<1>4. CASE Take(w) \/ CheckMissing(w) \/ CheckRetry(w) \/ CheckGiveUp(w)
           \/ CheckCompleted(w) \/ CheckReuse(w) \/ CheckPass(w)
  BY <1>4 DEF Take, CheckMissing, CheckRetry, CheckGiveUp, CheckCompleted, CheckReuse,
     CheckPass, Goto, Ack, Raise, HasWritten
<1>5. CASE CacheHit(w) \/ CacheMiss(w) \/ AnalysisEnds(w) \/ AnalysisFails(w)
           \/ Heartbeat(w) \/ SaveReport(w) \/ Link(w) \/ PublishReport(w)
  BY <1>5 DEF CacheHit, CacheMiss, AnalysisEnds, AnalysisFails, Heartbeat, SaveReport,
     Link, PublishReport, Goto, Raise, HasWritten
<1>6. CASE Finish(w) \/ HandlerRetry(w)
  BY <1>6 DEF Finish, HandlerRetry, Ack, HasWritten
<1>7. CASE Fault(w)
  BY <1>7 DEF Fault, SoftLimit, HardLimit, Crash, DropCache, Goto, Ack, Raise, HasWritten
<1> QED
  BY <1>1, <1>2, <1>3, <1>4, <1>5, <1>6, <1>7 DEF Work

\* WrittenNotQueued is preserved by every step.
LEMMA WrittenStep ==
    ASSUME DriveInv, [Next]_vars
    PROVE  WrittenNotQueued'
<1> SUFFICES ASSUME NEW w \in Workers, HasWritten(w)', db'[job'[w]].status = "queued"
             PROVE  FALSE
  BY DEF WrittenNotQueued
<1>1. HasWritten(w) /\ job'[w] = job[w]
  <2>1. ASSUME NEW v \in Workers, Work(v) \/ Fault(v)
        PROVE  HasWritten(w) /\ job'[w] = job[w]
    <3>1. CASE v = w
      BY <2>1, <3>1, BecomesWritten DEF DriveInv
    <3>2. CASE v # w
      BY <2>1, <3>2, OthersStay DEF DriveInv, HasWritten
    <3> QED
      BY <3>1, <3>2
  <2>2. CASE UNCHANGED <<pc, job, obj, cause>>
    BY <2>2 DEF HasWritten
  <2> QED
    BY <2>1, <2>2, WorkersStay DEF Next, Idle
<1>2. job[w] \in Requests
  BY <1>1 DEF HasWritten, DriveInv, TypeOK
<1>3. Enqueue(job[w])
  BY <1>1, <1>2, OnlyEnqueueQueues DEF DriveInv, WrittenNotQueued
<1>4. rpc[job[w]] \in Early
  BY <1>3 DEF Enqueue, Early
<1> QED
  BY <1>2, <1>4 DEF DriveInv, Unpublished

\* What keeps a queued task going.
Driven(t) ==
    \/ Waiting(queue, t)
    \/ \E w \in Workers : pc[w] # "idle" /\ job[w] = t
    \/ rpc[t] \in {"publish", "dead"}

\* A queued task stays driven when a request takes a step.
LEMMA WebDriven ==
    ASSUME TypeOK, Unpublished, NEW r \in Requests, Web(r) \/ WebDies(r),
           NEW t \in Requests, Driven(t), db[t].status = "queued", db'[t].status = "queued"
    PROVE  Driven(t)'
<1> USE DEF tableVars, workerVars, webVars, TypeOK
<1>1. UNCHANGED <<pc, job>> /\ (r # t => rpc'[t] = rpc[t])
  BY DEF Web, LookupCompleted, LookupActive, LookupKey, Create, Enqueue, Publish,
     PublishFails, WebDies, Respond, WebGoto, WebSave
<1>2. CASE Publish(r)
  <2>1. queue' = Send(queue, {r}, 0)
    BY <1>2 DEF Publish
  <2>2. r = t => Waiting(queue', t)
    BY <2>1, SendWaits DEF MaxRetries
  <2>3. Waiting(queue, t) => Waiting(queue', t)
    BY <2>1, SendKeeps
  <2> QED
    BY <1>1, <2>2, <2>3 DEF Driven
<1>3. CASE ~Publish(r)
  <2>1. UNCHANGED queue
    BY <1>3 DEF Web, LookupCompleted, LookupActive, LookupKey, Create, Enqueue,
       PublishFails, WebDies
  <2>2. CASE PublishFails(r)
    <3>1. [draft[r] EXCEPT !.status = "failed"].status = "failed"
      BY DEF Row
    <3>2. r # t
      BY <2>2, <3>1 DEF PublishFails
    <3> QED
      BY <1>1, <2>1, <3>2 DEF Driven
  <2>3. CASE WebDies(r)
    BY <1>1, <2>1, <2>3 DEF WebDies, WebGoto, Driven
  <2>4. CASE Web(r) /\ ~PublishFails(r)
    <3>1. rpc[r] \in Early
      BY <1>3, <2>4 DEF Web, LookupCompleted, LookupActive, LookupKey, Create, Enqueue, Early
    <3>2. r # t
      BY <3>1 DEF Unpublished
    <3> QED
      BY <1>1, <2>1, <3>2 DEF Driven
  <2> QED
    BY <2>2, <2>3, <2>4
<1> QED
  BY <1>2, <1>3

\* A queued task stays driven when a worker takes a step or fails.
LEMMA WorkDriven ==
    ASSUME TypeOK, WrittenNotQueued, NEW w \in Workers, Work(w) \/ Fault(w),
           NEW t \in Requests, Driven(t), db[t].status = "queued"
    PROVE  Driven(t)'
<1> USE DEF tableVars, workerVars, webVars, TypeOK
<1>1. UNCHANGED rpc
  BY DEF Work, Take, CheckMissing, CheckRetry, CheckGiveUp, CheckCompleted,
     CheckReuse, CheckPass, Claim, CacheHit, CacheMiss, AnalysisEnds, AnalysisFails,
     Heartbeat, SaveReport, Link, PublishReport, Finish, HandlerRead, HandlerFail,
     HandlerRetry, Fault, SoftLimit, HardLimit, Crash, DropCache
<1>2. \A v \in Workers \ {w} : pc'[v] = pc[v] /\ job'[v] = job[v]
  BY OthersStay
<1>3. ASSUME Waiting(queue, t) => Waiting(queue', t),
             pc[w] # "idle" /\ job[w] = t =>
                 Waiting(queue', t) \/ (pc'[w] # "idle" /\ job'[w] = t)
      PROVE  Driven(t)'
  BY <1>1, <1>2, <1>3 DEF Driven
<1>4. CASE Take(w)
  <2>1. PICK m \in Messages : /\ queue[m] > 0
                              /\ queue' = [queue EXCEPT ![m] = @ - 1]
                              /\ job' = [job EXCEPT ![w] = m[1]]
    BY <1>4 DEF Take
  <2>2. CASE m[1] = t
    BY <1>4, <2>1, <2>2 DEF Take, Driven
  <2>3. CASE m[1] # t
    <3>1. \A n \in 0 .. MaxRetries : queue'[<<t, n>>] = queue[<<t, n>>]
      BY <2>1, <2>3 DEF Messages
    <3> QED
      BY <1>3, <1>4, <3>1 DEF Take, Waiting
  <2> QED
    BY <2>2, <2>3
<1>5. CASE CheckRetry(w)
  <2>1. queue' = Send(queue, {job[w]}, tries[w] + 1) /\ tries[w] + 1 \in 0 .. MaxRetries
    BY <1>5 DEF CheckRetry, MaxRetries
  <2>2. Waiting(queue, t) => Waiting(queue', t)
    BY <2>1, SendKeeps
  <2>3. job[w] = t => Waiting(queue', t)
    BY <2>1, SendWaits
  <2> QED
    BY <1>3, <2>2, <2>3
<1>6. CASE CheckCompleted(w)
  BY <1>3, <1>6 DEF CheckCompleted
<1>7. CASE Finish(w)
  <2>1. job[w] # t
    BY <1>7 DEF Finish, WrittenNotQueued, HasWritten
  <2> QED
    BY <1>3, <1>7, <2>1, ProcessNextKeeps DEF Finish
<1>8. CASE HandlerRetry(w)
  <2>1. job[w] # t
    BY <1>8 DEF HandlerRetry, WrittenNotQueued, HasWritten
  <2>2. /\ ProcessNext(db, queue) \in [Messages -> Nat]
        /\ Waiting(queue, t) => Waiting(ProcessNext(db, queue), t)
    BY ProcessNextType, ProcessNextKeeps
  <2>3. Waiting(queue, t) => Waiting(queue', t)
    BY <1>8, <2>2, SendKeeps DEF HandlerRetry
  <2> QED
    BY <1>3, <2>1, <2>3
<1>9. CASE HardLimit(w)
  <2>1. job[w] # t
    BY <1>9, OldHasWritten DEF HardLimit, WrittenNotQueued
  <2> QED
    BY <1>3, <1>9, <2>1 DEF HardLimit
<1>10. CASE Crash(w)
  <2>1. queue' = Send(queue, {job[w]}, tries[w])
    BY <1>10 DEF Crash
  <2>2. Waiting(queue, t) => Waiting(queue', t)
    BY <2>1, SendKeeps
  <2>3. job[w] = t => Waiting(queue', t)
    BY <2>1, SendWaits
  <2> QED
    BY <1>3, <2>2, <2>3
<1>11. CASE \/ CheckMissing(w) \/ CheckGiveUp(w) \/ CheckReuse(w) \/ CheckPass(w)
            \/ Claim(w) \/ CacheHit(w) \/ CacheMiss(w) \/ AnalysisEnds(w)
            \/ AnalysisFails(w) \/ Heartbeat(w) \/ SaveReport(w) \/ Link(w)
            \/ PublishReport(w) \/ HandlerRead(w) \/ HandlerFail(w) \/ SoftLimit(w)
            \/ DropCache(w)
  <2>1. UNCHANGED <<queue, job>> /\ (pc'[w] # "idle" \/ pc[w] = "idle")
    BY <1>11 DEF CheckMissing, CheckGiveUp, CheckReuse, CheckPass, Claim, CacheHit,
       CacheMiss, AnalysisEnds, AnalysisFails, Heartbeat, SaveReport, Link,
       PublishReport, HandlerRead, HandlerFail, SoftLimit, DropCache, Goto, Raise
  <2> QED
    BY <1>3, <2>1
<1> QED
  BY <1>4, <1>5, <1>6, <1>7, <1>8, <1>9, <1>10, <1>11 DEF Work, Fault

\* QueuedIsDriven is preserved by every step.
LEMMA DrivenStep ==
    ASSUME DriveInv, [Next]_vars
    PROVE  QueuedIsDriven'
<1> SUFFICES ASSUME NEW t \in Requests, db'[t].status = "queued"
             PROVE  Driven(t)'
  BY DEF QueuedIsDriven, WithStatus, Driven, Waiting
<1>1. CASE db[t].status # "queued"
  <2>1. Enqueue(t)
    BY <1>1, OnlyEnqueueQueues DEF DriveInv
  <2> QED
    BY <2>1 DEF Enqueue, WebSave, Driven, DriveInv, TypeOK
<1>2. CASE db[t].status = "queued"
  <2>1. Driven(t)
    BY <1>2 DEF DriveInv, QueuedIsDriven, WithStatus, Driven, Waiting
  <2>2. ASSUME NEW r \in Requests, OrphanExits(r) \/ Expire(r) PROVE Driven(t)'
    BY <2>1, <2>2 DEF OrphanExits, Expire, workerVars, webVars, Driven
  <2>3. CASE TimeoutsWrite
    BY <2>1, <2>3, ProcessNextKeeps
    DEF TimeoutsWrite, workerVars, webVars, Driven, DriveInv, TypeOK
  <2>4. CASE TimeoutsRead \/ TimeoutsCommit \/ CleanupOldTasks \/ UNCHANGED vars
    BY <2>1, <2>4
    DEF TimeoutsRead, TimeoutsCommit, CleanupOldTasks, vars, workerVars, webVars, Driven
  <2> QED
    BY <1>2, <2>1, <2>2, <2>3, <2>4, WebDriven, WorkDriven
    DEF Next, CheckTimeouts, Idle, DriveInv
<1> QED
  BY <1>1, <1>2

\* A queued task always has a message in the broker, a worker that holds one or
\* a request about to publish one, for any number of workers, whatever retries,
\* crashes and time limits happen.
THEOREM QueuedTasksAreDriven == Spec => []QueuedIsDriven
<1>1. Init => DriveInv
  <2>1. Init => TypeOK
    BY CeleryAssumption, NoRowType DEF Init, TypeOK, Messages, MaxRetries,
       WorkerSteps, Causes, WebSteps
  <2> QED
    BY <2>1, TableAssumption DEF Init, DriveInv, Unpublished, WrittenNotQueued, HasWritten,
       LinkedIsCompleted, QueuedIsDriven, WithStatus, NoRow, Messages
<1>2. DriveInv /\ [Next]_vars => DriveInv'
  BY TypeStep, UnpublishedStep, WrittenStep, LinkedStep, DrivenStep DEF DriveInv
<1>3. DriveInv => QueuedIsDriven
  BY DEF DriveInv
<1> QED
  BY <1>1, <1>2, <1>3, PTL DEF Spec

-----------------------------------------------------------------------------
(* One worker, one running task.  With a single worker process (the
   deployment celery.py describes) the check in the first transaction and
   the claim that follows are never interleaved with those of another
   worker: from the check to the end of the heartbeat the worker holds the
   slot.  Requests, check_timeouts and the cleanup may act in between, but
   none of them writes "running" or "completed".                           *)

SingleWorker == \A v, w \in Workers : v = w

\* The steps between the check for a running task and the heartbeat.
SlotSteps == {"claim", "cache", "analyze", "heartbeat"}

\* A worker that holds the slot has the only task that may be running, and that
\* task is not completed.
SlotHeld ==
    \A w \in Workers :
        pc[w] \in SlotSteps =>
            /\ \A t \in Requests : db[t].status = "running" => t = job[w]
            /\ db[job[w]].status # "completed"

SlotInv == TypeOK /\ LinkedIsCompleted /\ OneRunning /\ SlotHeld

\* Requests, check_timeouts and the cleanup write neither "running" nor
\* "completed".
LEMMA OnlyWorkersRun ==
    ASSUME TypeOK, NEW t \in Requests,
           \/ \E r \in Requests : Web(r) \/ WebDies(r) \/ OrphanExits(r) \/ Expire(r)
           \/ CheckTimeouts \/ CleanupOldTasks \/ UNCHANGED vars
    PROVE  db'[t].status \in {"running", "completed"} => db'[t] = db[t]
<1> USE DEF tableVars, vars, TypeOK
<1>1. ASSUME NEW r \in Requests, Create(r)
      PROVE  db'[t].status \in {"running", "completed"} => db'[t] = db[t]
  <2>1. [NoRow EXCEPT !.status = "pending"].status = "pending"
    BY DEF NoRow
  <2> QED
    BY <1>1, <2>1 DEF Create, WebSave
<1>2. ASSUME NEW r \in Requests, Enqueue(r)
      PROVE  db'[t].status \in {"running", "completed"} => db'[t] = db[t]
  <2>1. [draft[r] EXCEPT !.status = "queued",
                         !.pos = Cardinality(WithStatus(db, "queued")) + 1,
                         !.qat = ticks + 1].status = "queued"
    BY DEF Row
  <2> QED
    BY <1>2, <2>1 DEF Enqueue, WebSave
<1>3. ASSUME NEW r \in Requests, PublishFails(r)
      PROVE  db'[t].status \in {"running", "completed"} => db'[t] = db[t]
  <2>1. [draft[r] EXCEPT !.status = "failed"].status = "failed"
    BY DEF Row
  <2> QED
    BY <1>3, <2>1 DEF PublishFails
<1>4. ASSUME NEW r \in Requests,
             \/ LookupCompleted(r) \/ LookupActive(r) \/ LookupKey(r) \/ Publish(r)
             \/ WebDies(r) \/ OrphanExits(r) \/ Expire(r)
      PROVE  db' = db
  BY <1>4 DEF LookupCompleted, LookupActive, LookupKey, Publish, WebDies, OrphanExits, Expire
<1>5. CASE TimeoutsRead \/ TimeoutsWrite \/ UNCHANGED vars
  BY <1>5 DEF TimeoutsRead, TimeoutsWrite
<1>6. CASE TimeoutsCommit
  <2>1. [snap[t] EXCEPT !.status = "failed", !.pos = 0].status = "failed"
    BY DEF Row
  <2> QED
    BY <1>6, <2>1 DEF TimeoutsCommit, FailedBySnap
<1>7. CASE CleanupOldTasks
  BY <1>7 DEF CleanupOldTasks, NoRow
<1> QED
  BY <1>1, <1>2, <1>3, <1>4, <1>5, <1>6, <1>7 DEF Web, CheckTimeouts

\* The slot is not disturbed by anything but a worker.
LEMMA SlotUndisturbed ==
    ASSUME SlotInv,
           \/ \E r \in Requests : Web(r) \/ WebDies(r) \/ OrphanExits(r) \/ Expire(r)
           \/ CheckTimeouts \/ CleanupOldTasks \/ UNCHANGED vars
    PROVE  OneRunning' /\ SlotHeld'
<1>1. \A t \in Requests : db'[t].status \in {"running", "completed"} => db'[t] = db[t]
  BY OnlyWorkersRun DEF SlotInv
<1>2. UNCHANGED <<pc, job>>
  BY WorkersStay
<1>3. OneRunning'
  BY <1>1 DEF SlotInv, OneRunning, WithStatus
<1>4. SlotHeld'
  <2> SUFFICES ASSUME NEW w \in Workers, pc[w] \in SlotSteps
               PROVE  /\ \A t \in Requests : db'[t].status = "running" => t = job[w]
                      /\ db'[job[w]].status # "completed"
    BY <1>2 DEF SlotHeld
  <2>1. job[w] \in Requests
    BY DEF SlotInv, TypeOK, SlotSteps
  <2> QED
    BY <1>1, <2>1 DEF SlotInv, SlotHeld
<1> QED
  BY <1>3, <1>4

\* A worker writes "running" only while it holds the slot.
LEMMA OnlySlotRuns ==
    ASSUME TypeOK, LinkedIsCompleted, NEW w \in Workers, Work(w) \/ Fault(w),
           NEW t \in Requests, db'[t].status = "running", db[t].status # "running"
    PROVE  pc[w] \in SlotSteps /\ t = job[w]
<1> USE DEF tableVars, TypeOK
<1>1. CASE Claim(w)
  BY <1>1 DEF Claim, SlotSteps
<1>2. CASE Heartbeat(w)
  BY <1>2 DEF Heartbeat, Save, SlotSteps
<1>3. CASE CacheHit(w)
  BY <1>3 DEF CacheHit, Save, SlotSteps
<1>4. CASE Link(w)
  <2>1. [obj[w] EXCEPT !.status = "completed", !.report = latest].status = "completed"
    BY DEF Row
  <2> QED
    BY <1>4, <2>1 DEF Link, Save
<1>5. CASE PublishReport(w)
  BY <1>5 DEF PublishReport, Save, LinkedIsCompleted
<1>6. CASE HandlerFail(w)
  <2>1. [obj[w] EXCEPT !.status = "failed", !.pos = 0].status = "failed"
    BY DEF Row
  <2> QED
    BY <1>6, <2>1 DEF HandlerFail, Save
<1> QED
  BY <1>1, <1>2, <1>3, <1>4, <1>5, <1>6
  DEF Work, Take, CheckMissing, CheckRetry, CheckGiveUp, CheckCompleted, CheckReuse,
      CheckPass, CacheMiss, AnalysisEnds, AnalysisFails, SaveReport, Finish, HandlerRead,
      HandlerRetry, Fault, SoftLimit, HardLimit, Crash, DropCache

\* The only worker takes the slot only when it is free, and keeps it.
LEMMA SlotTaken ==
    ASSUME SingleWorker, SlotInv, NEW w \in Workers, Work(w) \/ Fault(w)
    PROVE  OneRunning' /\ SlotHeld'
<1>1. OneRunning'
  <2>1. ASSUME NEW t \in Requests, db'[t].status = "running"
        PROVE  db[t].status = "running" \/ (pc[w] \in SlotSteps /\ t = job[w])
    BY <2>1, OnlySlotRuns DEF SlotInv
  <2> QED
    BY <2>1 DEF SlotInv, OneRunning, SlotHeld, WithStatus
<1>2. SlotHeld'
  <2> USE DEF tableVars, workerVars, TypeOK
  <2> SUFFICES ASSUME pc'[w] \in SlotSteps
               PROVE  /\ \A t \in Requests : db'[t].status = "running" => t = job'[w]
                      /\ db'[job'[w]].status # "completed"
    BY DEF SingleWorker, SlotHeld
  <2>1. CASE CheckPass(w)
    BY <2>1 DEF CheckPass, Goto, OtherRunning, WithStatus
  <2>2. CASE Claim(w)
    <3>1. [obj[w] EXCEPT !.status = "running", !.pos = 0].status = "running"
      BY DEF SlotInv, Row
    <3> QED
      BY <2>2, <3>1 DEF Claim, Goto, SlotInv, SlotHeld, SlotSteps
  <2>3. CASE CacheMiss(w) \/ AnalysisEnds(w)
    BY <2>3 DEF CacheMiss, AnalysisEnds, Goto, SlotInv, SlotHeld, SlotSteps
  <2>4. CASE Work(w) /\ ~CheckPass(w) /\ ~Claim(w) /\ ~CacheMiss(w) /\ ~AnalysisEnds(w)
    <3>1. pc'[w] \notin SlotSteps
      BY <2>4 DEF SlotInv, Work, Take, CheckMissing, CheckRetry, CheckGiveUp,
         CheckCompleted, CheckReuse, CacheHit, AnalysisFails, Heartbeat, SaveReport, Link,
         PublishReport, Finish, HandlerRead, HandlerFail, HandlerRetry, Goto, Ack, Raise,
         SlotSteps
    <3> QED
      BY <3>1
  <2>5. CASE Fault(w)
    BY <2>5 DEF Fault, SoftLimit, HardLimit, Crash, DropCache, Goto, Ack, Raise, SlotInv,
       SlotSteps
  <2> QED
    BY <2>1, <2>2, <2>3, <2>4, <2>5
<1> QED
  BY <1>1, <1>2

\* SlotInv is preserved by every step of a system with one worker.
LEMMA SlotStep ==
    ASSUME SingleWorker, SlotInv, [Next]_vars
    PROVE  SlotInv'
<1>1. TypeOK' /\ LinkedIsCompleted'
  BY TypeStep, LinkedStep DEF SlotInv
<1>2. OneRunning' /\ SlotHeld'
  BY SlotTaken, SlotUndisturbed DEF Next, Idle
<1> QED
  BY <1>1, <1>2 DEF SlotInv

\* SlotInv holds initially.
LEMMA SlotInit == Init => SlotInv
<1>1. Init => TypeOK
  BY CeleryAssumption, NoRowType DEF Init, TypeOK, Messages, MaxRetries,
     WorkerSteps, Causes, WebSteps
<1> QED
  BY <1>1 DEF Init, SlotInv, LinkedIsCompleted, OneRunning, WithStatus, SlotHeld, SlotSteps,
     NoRow

\* With one worker at most one task is running, although the check for a running
\* task and the claim are separate steps, whatever crashes, times out or is
\* submitted meanwhile.
THEOREM OneWorkerOneRunning ==
    ASSUME SingleWorker
    PROVE  Spec => []OneRunning
<1>1. SlotInv /\ [Next]_vars => SlotInv'
  BY SlotStep
<1>2. SlotInv => OneRunning
  BY DEF SlotInv
<1> QED
  BY <1>1, <1>2, SlotInit, PTL DEF Spec

\* With one worker a completed task never runs again, although messages for it
\* may be duplicated, delivered again after a crash and retried.
THEOREM OneWorkerNoRerun ==
    ASSUME SingleWorker
    PROVE  Spec => NoRerun
<1>1. SlotInv /\ [Next]_vars => SlotInv'
  BY SlotStep
<1>2. SlotInv /\ [Next]_vars
        => [\A t \in Requests : db[t].status = "completed" => db'[t].status # "running"]_vars
  <2> SUFFICES ASSUME SlotInv, Next, NEW t \in Requests,
                      db[t].status = "completed", db'[t].status = "running"
               PROVE  FALSE
    OBVIOUS
  <2>1. ASSUME NEW w \in Workers, Work(w) \/ Fault(w) PROVE FALSE
    BY <2>1, OnlySlotRuns DEF SlotInv, SlotHeld
  <2>2. CASE \/ \E r \in Requests : Web(r) \/ WebDies(r) \/ OrphanExits(r) \/ Expire(r)
             \/ CheckTimeouts \/ CleanupOldTasks \/ UNCHANGED vars
    BY <2>2, OnlyWorkersRun DEF SlotInv
  <2> QED
    BY <2>1, <2>2 DEF Next, Idle
<1> QED
  BY <1>1, <1>2, SlotInit, PTL DEF Spec, NoRerun

-----------------------------------------------------------------------------
(* Rows come and go.  task.save() in Django inserts a row that is not there,
   so a stale object in memory could bring a deleted row back.  It does not:
   whoever still has a row to save keeps cleanup_old_tasks away from it.   *)

\* The steps of a worker that may still save the row of its task.
WriteSteps == {"claim", "cache", "analyze", "heartbeat", "save", "link", "publish", "fail"}

\* The statuses a worker gives the row of its task.
Marks == {"running", "completed", "failed"}

\* The row of a task is there as long as its request, a worker or
\* check_timeouts is going to save it.
RowsKept ==
    /\ \A r \in Requests : rpc[r] \in {"enqueue", "publish"} => db[r].status # "absent"
    /\ \A w \in Workers : pc[w] \in WriteSteps => db[job[w]].status # "absent"
    /\ \A t \in Requests : snap[t].status # "absent" => db[t].status # "absent"

\* A worker writes only the row of its own task, at one of WriteSteps, and marks
\* it running, completed or failed.
LEMMA WorkerWrites ==
    ASSUME TypeOK, LinkedIsCompleted, NEW w \in Workers, Work(w) \/ Fault(w), db' # db
    PROVE  /\ pc[w] \in WriteSteps
           /\ \E row : db' = [db EXCEPT ![job[w]] = row] /\ row.status \in Marks
<1> USE DEF tableVars, TypeOK, WriteSteps, Marks
<1>0. /\ [obj[w] EXCEPT !.status = "running", !.pos = 0].status \in Marks
      /\ [obj[w] EXCEPT !.status = "completed"].status \in Marks
      /\ [obj[w] EXCEPT !.status = "completed", !.report = latest].status \in Marks
      /\ [obj[w] EXCEPT !.status = "failed", !.pos = 0].status \in Marks
  BY DEF Row
<1>1. CASE Claim(w)
  BY <1>0, <1>1 DEF Claim
<1>2. CASE CacheHit(w)
  BY <1>0, <1>2 DEF CacheHit, Save
<1>3. CASE Heartbeat(w)
  BY <1>3 DEF Heartbeat, Save
<1>4. CASE Link(w)
  BY <1>0, <1>4 DEF Link, Save
<1>5. CASE PublishReport(w)
  BY <1>5 DEF PublishReport, Save, LinkedIsCompleted
<1>6. CASE HandlerFail(w)
  BY <1>0, <1>6 DEF HandlerFail, Save
<1> QED
  BY <1>1, <1>2, <1>3, <1>4, <1>5, <1>6
  DEF Work, Take, CheckMissing, CheckRetry, CheckGiveUp, CheckCompleted, CheckReuse,
      CheckPass, CacheMiss, AnalysisEnds, AnalysisFails, SaveReport, Finish, HandlerRead,
      HandlerRetry, Fault, SoftLimit, HardLimit, Crash, DropCache

\* A request writes only its own row, and not to delete it.
LEMMA RequestWrites ==
    ASSUME TypeOK, NEW r \in Requests, db' # db,
           Web(r) \/ WebDies(r) \/ OrphanExits(r) \/ Expire(r)
    PROVE  /\ rpc[r] \in {"enqueue", "publish"} \/ Create(r)
           /\ \E row : db' = [db EXCEPT ![r] = row] /\ row.status # "absent"
<1> USE DEF tableVars, TypeOK
<1>1. CASE Create(r)
  <2>1. [NoRow EXCEPT !.status = "pending"].status # "absent"
    BY DEF NoRow
  <2> QED
    BY <1>1, <2>1 DEF Create, WebSave
<1>2. CASE Enqueue(r)
  <2>1. [draft[r] EXCEPT !.status = "queued",
                         !.pos = Cardinality(WithStatus(db, "queued")) + 1,
                         !.qat = ticks + 1].status # "absent"
    BY DEF Row
  <2> QED
    BY <1>2, <2>1 DEF Enqueue, WebSave
<1>3. CASE PublishFails(r)
  <2>1. [draft[r] EXCEPT !.status = "failed"].status # "absent"
    BY DEF Row
  <2> QED
    BY <1>3, <2>1 DEF PublishFails
<1> QED
  BY <1>1, <1>2, <1>3
  DEF Web, LookupCompleted, LookupActive, LookupKey, Publish, WebDies, OrphanExits, Expire

\* Only analyze_api brings a row into the table.
LEMMA RowsCreated ==
    ASSUME TypeOK, LinkedIsCompleted, RowsKept, [Next]_vars, NEW t \in Requests,
           db[t].status = "absent", db'[t].status # "absent"
    PROVE  Create(t)
<1> USE DEF TypeOK
<1>1. ASSUME NEW w \in Workers, Work(w) \/ Fault(w) PROVE FALSE
  <2>1. /\ pc[w] \in WriteSteps
        /\ \E row : db' = [db EXCEPT ![job[w]] = row]
    BY <1>1, WorkerWrites
  <2> QED
    BY <2>1 DEF RowsKept
<1>2. ASSUME NEW r \in Requests, Web(r) \/ WebDies(r) \/ OrphanExits(r) \/ Expire(r)
      PROVE  Create(t)
  <2>1. /\ rpc[r] \in {"enqueue", "publish"} \/ Create(r)
        /\ \E row : db' = [db EXCEPT ![r] = row]
    BY <1>2, RequestWrites
  <2> QED
    BY <2>1 DEF RowsKept
<1>3. CASE TimeoutsRead \/ TimeoutsWrite \/ UNCHANGED vars
  BY <1>3 DEF TimeoutsRead, TimeoutsWrite, vars, tableVars
<1>4. CASE TimeoutsCommit
  BY <1>4 DEF TimeoutsCommit, FailedBySnap, RowsKept
<1>5. CASE CleanupOldTasks
  BY <1>5 DEF CleanupOldTasks, NoRow
<1> QED
  BY <1>1, <1>2, <1>3, <1>4, <1>5 DEF Next, CheckTimeouts, Idle

\* Only cleanup_old_tasks takes a row out of the table.
LEMMA RowsDeleted ==
    ASSUME TypeOK, LinkedIsCompleted, [Next]_vars, NEW t \in Requests,
           db[t].status # "absent", db'[t].status = "absent"
    PROVE  CleanupOldTasks
<1> USE DEF TypeOK
<1>1. ASSUME NEW w \in Workers, Work(w) \/ Fault(w) PROVE FALSE
  <2>1. /\ pc[w] \in WriteSteps
        /\ \E row : db' = [db EXCEPT ![job[w]] = row] /\ row.status # "absent"
    BY <1>1, WorkerWrites DEF Marks
  <2> QED
    BY <2>1
<1>2. ASSUME NEW r \in Requests, Web(r) \/ WebDies(r) \/ OrphanExits(r) \/ Expire(r)
      PROVE  FALSE
  <2>1. \E row : db' = [db EXCEPT ![r] = row] /\ row.status # "absent"
    BY <1>2, RequestWrites
  <2> QED
    BY <2>1
<1>3. CASE TimeoutsRead \/ TimeoutsWrite \/ UNCHANGED vars
  BY <1>3 DEF TimeoutsRead, TimeoutsWrite, vars, tableVars
<1>4. CASE TimeoutsCommit
  <2>1. [snap[t] EXCEPT !.status = "failed", !.pos = 0].status # "absent"
    BY DEF Row
  <2> QED
    BY <1>4, <2>1 DEF TimeoutsCommit, FailedBySnap
<1> QED
  BY <1>1, <1>2, <1>3, <1>4 DEF Next, CheckTimeouts, Idle

\* Workers, check_timeouts and cleanup_old_tasks leave the requests alone.
LEMMA RequestsStay ==
    ASSUME \/ \E w \in Workers : Work(w) \/ Fault(w)
           \/ CheckTimeouts \/ CleanupOldTasks \/ UNCHANGED vars
    PROVE  UNCHANGED <<rpc, draft>>
<1> USE DEF webVars
<1>1. ASSUME NEW w \in Workers, Work(w) PROVE UNCHANGED <<rpc, draft>>
  BY <1>1 DEF Work, Take, CheckMissing, CheckRetry, CheckGiveUp, CheckCompleted, CheckReuse,
     CheckPass, Claim, CacheHit, CacheMiss, AnalysisEnds, AnalysisFails, Heartbeat,
     SaveReport, Link, PublishReport, Finish, HandlerRead, HandlerFail, HandlerRetry
<1>2. ASSUME NEW w \in Workers, Fault(w) PROVE UNCHANGED <<rpc, draft>>
  BY <1>2 DEF Fault, SoftLimit, HardLimit, Crash, DropCache
<1>3. ASSUME CheckTimeouts \/ CleanupOldTasks \/ UNCHANGED vars
      PROVE  UNCHANGED <<rpc, draft>>
  BY <1>3 DEF CheckTimeouts, TimeoutsRead, TimeoutsWrite, TimeoutsCommit, CleanupOldTasks,
     vars
<1> QED
  BY <1>1, <1>2, <1>3

\* Only check_timeouts changes what check_timeouts has read: it reads running
\* rows, and forgets them when it commits.
LEMMA SnapChanges ==
    ASSUME TypeOK, [Next]_vars, NEW t \in Requests, snap'[t] # snap[t]
    PROVE  snap'[t] = NoRow \/ (snap'[t] = db[t] /\ db[t].status = "running" /\ db' = db)
<1> USE DEF beatVars, tableVars
<1>1. ASSUME NEW w \in Workers, Work(w) PROVE FALSE
  BY <1>1 DEF Work, Take, CheckMissing, CheckRetry, CheckGiveUp, CheckCompleted, CheckReuse,
     CheckPass, Claim, CacheHit, CacheMiss, AnalysisEnds, AnalysisFails, Heartbeat,
     SaveReport, Link, PublishReport, Finish, HandlerRead, HandlerFail, HandlerRetry
<1>2. ASSUME NEW w \in Workers, Fault(w) PROVE FALSE
  BY <1>2 DEF Fault, SoftLimit, HardLimit, Crash, DropCache
<1>3. ASSUME NEW r \in Requests, Web(r) \/ WebDies(r) \/ OrphanExits(r) \/ Expire(r)
      PROVE  FALSE
  BY <1>3 DEF Web, LookupCompleted, LookupActive, LookupKey, Create, Enqueue, Publish,
     PublishFails, WebDies, OrphanExits, Expire
<1>4. CASE TimeoutsRead
  BY <1>4 DEF TimeoutsRead, TimedOut
<1>5. CASE TimeoutsWrite \/ CleanupOldTasks \/ UNCHANGED vars
  BY <1>5 DEF TimeoutsWrite, CleanupOldTasks, vars
<1>6. CASE TimeoutsCommit
  BY <1>6 DEF TimeoutsCommit
<1> QED
  BY <1>1, <1>2, <1>3, <1>4, <1>5, <1>6 DEF Next, Idle, CheckTimeouts

\* A request that comes to be about to write its row has just created it.
LEMMA BecomesWriter ==
    ASSUME TypeOK, [Next]_vars, NEW r \in Requests,
           rpc'[r] \in {"enqueue", "publish"}, rpc[r] \notin {"enqueue", "publish"}
    PROVE  db'[r].status # "absent"
<1> USE DEF TypeOK
<1>1. PICK q \in Requests : Web(q) \/ WebDies(q) \/ OrphanExits(q) \/ Expire(q)
  BY RequestsStay DEF Next, Idle
<1>2. Create(q) /\ q = r /\ ~Respond(q)
  BY <1>1 DEF Web, LookupCompleted, LookupActive, LookupKey, Create, Enqueue, Publish,
     PublishFails, WebDies, OrphanExits, Expire, Respond, WebGoto, WebSave, webVars
<1>3. [NoRow EXCEPT !.status = "pending"].status # "absent"
  BY DEF NoRow
<1> QED
  BY <1>2, <1>3 DEF Create, WebSave

\* A worker that comes to be about to write its row has just seen it.
LEMMA BecomesSaver ==
    ASSUME TypeOK, NEW w \in Workers, Work(w) \/ Fault(w),
           pc'[w] \in WriteSteps
    PROVE  /\ job'[w] = job[w]
           /\ pc[w] \in WriteSteps \/ (db' = db /\ db[job[w]].status # "absent")
<1> USE DEF TypeOK, WriteSteps, tableVars
<1>1. CASE Work(w)
  BY <1>1 DEF Work, Take, CheckMissing, CheckRetry, CheckGiveUp, CheckCompleted, CheckReuse,
     CheckPass, Claim, CacheHit, CacheMiss, AnalysisEnds, AnalysisFails, Heartbeat,
     SaveReport, Link, PublishReport, Finish, HandlerRead, HandlerFail, HandlerRetry,
     Goto, Ack, Raise, Save
<1>2. CASE Fault(w)
  BY <1>2 DEF Fault, SoftLimit, HardLimit, Crash, DropCache, Goto, Ack, Raise, workerVars
<1> QED
  BY <1>1, <1>2

\* cleanup_old_tasks deletes no row that somebody is going to save.
LEMMA CleanupSpares ==
    ASSUME TypeOK, CleanupOldTasks, RowsKept
    PROVE  RowsKept'
<1>1. PICK old \in SUBSET {t \in WithStatus(db, "completed") \cup WithStatus(db, "failed") :
                              /\ ~Executing(t) /\ ~LockedByWorker(t)
                              /\ snap[t].status = "absent"
                              /\ rpc[t] \in {"done", "dead"}} :
          db' = [t \in Requests |-> IF t \in old THEN NoRow ELSE db[t]]
  BY DEF CleanupOldTasks
<1>2. UNCHANGED <<rpc, snap, pc, job>>
  BY DEF CleanupOldTasks, webVars, beatVars
<1>3. \A t \in Requests : db'[t].status # db[t].status =>
         /\ ~Executing(t) /\ ~LockedByWorker(t)
         /\ snap[t].status = "absent"
         /\ rpc[t] \in {"done", "dead"}
  BY <1>1
<1>4. \A w \in Workers : pc[w] \in WriteSteps => job[w] \in Requests /\ db'[job[w]].status = db[job[w]].status
  BY <1>3 DEF TypeOK, WriteSteps, Executing, LockedByWorker, AfterClaim
<1> QED
  BY <1>2, <1>3, <1>4 DEF RowsKept

\* RowsKept is preserved by every step.
LEMMA RowsKeptStep ==
    ASSUME TypeOK, LinkedIsCompleted, RowsKept, [Next]_vars
    PROVE  RowsKept'
<1> SUFFICES ASSUME ~CleanupOldTasks PROVE RowsKept'
  BY CleanupSpares
<1>1. \A t \in Requests : db[t].status # "absent" => db'[t].status # "absent"
  BY RowsDeleted
<1>2. \A r \in Requests : rpc'[r] \in {"enqueue", "publish"} => db'[r].status # "absent"
  BY <1>1, BecomesWriter DEF RowsKept
<1>3. ASSUME NEW w \in Workers, pc'[w] \in WriteSteps
      PROVE  db'[job'[w]].status # "absent"
  <2>1. CASE UNCHANGED <<pc, job, obj, cause>>
    BY <1>1, <1>3, <2>1 DEF RowsKept, TypeOK, WriteSteps
  <2>2. ASSUME NEW v \in Workers, Work(v) \/ Fault(v)
        PROVE  db'[job'[w]].status # "absent"
    <3>1. CASE v = w
      <4>1. /\ job'[w] = job[w]
            /\ pc[w] \in WriteSteps \/ (db' = db /\ db[job[w]].status # "absent")
        BY <1>3, <2>2, <3>1, BecomesSaver
      <4> QED
        BY <1>1, <4>1 DEF RowsKept, TypeOK, WriteSteps
    <3>2. CASE v # w
      <4>1. pc'[w] = pc[w] /\ job'[w] = job[w]
        BY <2>2, <3>2, OthersStay
      <4> QED
        BY <1>1, <1>3, <4>1 DEF RowsKept, TypeOK, WriteSteps
    <3> QED
      BY <3>1, <3>2
  <2> QED
    BY <2>1, <2>2, WorkersStay DEF Next, Idle
<1>4. ASSUME NEW t \in Requests, snap'[t].status # "absent"
      PROVE  db'[t].status # "absent"
  <2>1. CASE snap'[t] = snap[t]
    BY <1>1, <1>4, <2>1 DEF RowsKept
  <2>2. CASE snap'[t] # snap[t]
    BY <1>4, <2>2, SnapChanges DEF NoRow
  <2> QED
    BY <2>1, <2>2
<1> QED
  BY <1>2, <1>3, <1>4 DEF RowsKept

-----------------------------------------------------------------------------
(* One task for each idempotency key.  analyze_api looks the key up in one
   transaction and creates the row in another; the UNIQUE constraint on the
   key decides, and no row is ever saved back into the table after the key
   was given to another.                                                   *)

KeyInv == TypeOK /\ LinkedIsCompleted /\ RowsKept /\ OneTaskPerKey

\* An idempotency key names at most one task, for every number of requests that
\* share it, of workers and of faults.
THEOREM OneTaskForEachKey == Spec => []OneTaskPerKey
<1>1. Init => KeyInv
  BY SlotInit DEF Init, KeyInv, SlotInv, RowsKept, WriteSteps, OneTaskPerKey, NoRow
<1>2. KeyInv /\ [Next]_vars => KeyInv'
  <2> SUFFICES ASSUME KeyInv, [Next]_vars PROVE KeyInv'
    OBVIOUS
  <2>1. TypeOK' /\ LinkedIsCompleted' /\ RowsKept'
    BY TypeStep, LinkedStep, RowsKeptStep DEF KeyInv
  <2>2. OneTaskPerKey'
    <3> SUFFICES ASSUME NEW t \in Requests, NEW u \in Requests,
                        KeyOf[t] # NoKey, KeyOf[t] = KeyOf[u],
                        db'[t].status # "absent", db'[u].status # "absent", t # u
                 PROVE  FALSE
      BY DEF OneTaskPerKey
    <3>1. ASSUME NEW x \in {t, u}, NEW y \in {t, u}, x # y, Create(x) PROVE FALSE
      <4>1. db'[y] = db[y] /\ (SameKey(x) = {} \/ db' = db)
        BY <3>1 DEF Create, WebSave, KeyInv, TypeOK
      <4> QED
        BY <3>1, <4>1 DEF SameKey, KeyInv, OneTaskPerKey
    <3>2. db[t].status # "absent" /\ db[u].status # "absent"
      BY <3>1, RowsCreated DEF KeyInv
    <3> QED
      BY <3>2 DEF KeyInv, OneTaskPerKey
  <2> QED
    BY <2>1, <2>2 DEF KeyInv
<1>3. KeyInv => OneTaskPerKey
  BY DEF KeyInv
<1> QED
  BY <1>1, <1>2, <1>3, PTL DEF Spec

-----------------------------------------------------------------------------
(* The report of a task is its own.  Link takes the report with the greatest
   id, so the last report must be the one the worker has just saved, and no
   object in memory may carry the report of another task.  With one worker
   nobody saves a report between SaveReport and Link.                      *)

ReportsOwned ==
    /\ \A t \in Requests : draft[t].report = NoReport
    /\ \A t \in Requests : snap[t].report \in {NoReport, PackageOfTask(t)}
    /\ \A w \in Workers :
          obj[w].report # NoReport => pc[w] # "idle" /\ obj[w].report = PackageOfTask(job[w])
    /\ \A w \in Workers : pc[w] = "link" => latest = PackageOfTask(job[w])

OwnInv == TypeOK /\ OwnReport /\ ReportsOwned

\* The reports of the rows a step builds from other rows.
LEMMA BuiltReports ==
    /\ NoRow.report = NoReport
    /\ [NoRow EXCEPT !.status = "pending"].report = NoReport
    /\ \A row \in Row :
          /\ [row EXCEPT !.status = "failed"].report = row.report
          /\ [row EXCEPT !.status = "completed"].report = row.report
          /\ [row EXCEPT !.status = "running", !.pos = 0].report = row.report
          /\ [row EXCEPT !.status = "failed", !.pos = 0].report = row.report
          /\ \A p, q : [row EXCEPT !.status = "queued", !.pos = p, !.qat = q].report = row.report
          /\ \A p : [row EXCEPT !.status = "completed", !.report = p].report = p
BY DEF NoRow, Row

\* A step of a request keeps the reports where they belong.
LEMMA RequestOwns ==
    ASSUME OwnInv, NEW r \in Requests, Web(r) \/ WebDies(r) \/ OrphanExits(r) \/ Expire(r)
    PROVE  OwnReport' /\ ReportsOwned'
<1> USE DEF TypeOK, OwnInv, OwnReport, ReportsOwned, tableVars, workerVars, beatVars
<1>1. UNCHANGED <<pc, job, obj, latest, snap>>
  BY DEF Web, LookupCompleted, LookupActive, LookupKey, Create, Enqueue, Publish,
     PublishFails, WebDies, OrphanExits, Expire
<1>2. draft[r] \in Row /\ draft[r].report = NoReport
  OBVIOUS
<1>3. CASE Create(r)
  <2> DEFINE row == [NoRow EXCEPT !.status = "pending"]
  <2>1. row.report = NoReport
    BY BuiltReports
  <2> HIDE DEF row
  <2>2. CASE Respond(r) /\ UNCHANGED db
    BY <1>1, <2>2, BuiltReports DEF Respond
  <2>3. CASE WebSave(r, row, "enqueue")
    BY <1>1, <2>1, <2>3 DEF WebSave
  <2> QED
    BY <1>3, <2>2, <2>3 DEF Create, row
<1>4. CASE Enqueue(r)
  <2>1. [draft[r] EXCEPT !.status = "queued",
                         !.pos = Cardinality(WithStatus(db, "queued")) + 1,
                         !.qat = ticks + 1].report = NoReport
    BY <1>2, BuiltReports
  <2> QED
    BY <1>1, <1>4, <2>1 DEF Enqueue, WebSave
<1>5. CASE PublishFails(r)
  BY <1>1, <1>2, <1>5, BuiltReports DEF PublishFails, Respond
<1> QED
  BY <1>1, <1>3, <1>4, <1>5, BuiltReports
  DEF Web, LookupCompleted, LookupActive, LookupKey, Publish, WebDies, OrphanExits, Expire,
      Respond, WebGoto, webVars

\* A step of the only worker keeps the reports where they belong.
LEMMA WorkerOwns ==
    ASSUME SingleWorker, OwnInv, NEW w \in Workers, Work(w) \/ Fault(w)
    PROVE  OwnReport' /\ ReportsOwned'
<1> USE DEF TypeOK, OwnInv, OwnReport, ReportsOwned, SingleWorker, tableVars, webVars, beatVars
<1>1. UNCHANGED <<draft, snap>>
  BY DEF Work, Take, CheckMissing, CheckRetry, CheckGiveUp, CheckCompleted, CheckReuse,
     CheckPass, Claim, CacheHit, CacheMiss, AnalysisEnds, AnalysisFails, Heartbeat,
     SaveReport, Link, PublishReport, Finish, HandlerRead, HandlerFail, HandlerRetry,
     Fault, SoftLimit, HardLimit, Crash, DropCache
<1>2. obj[w] \in Row
  OBVIOUS
<1>3. CASE Claim(w)
  BY <1>1, <1>2, <1>3, BuiltReports DEF Claim, Goto
<1>4. CASE CacheHit(w)
  BY <1>1, <1>2, <1>4, BuiltReports DEF CacheHit, Save, Goto
<1>5. CASE Heartbeat(w) \/ PublishReport(w)
  BY <1>1, <1>5 DEF Heartbeat, PublishReport, Save, Goto
<1>6. CASE SaveReport(w)
  BY <1>1, <1>6 DEF SaveReport, Raise, Goto
<1>7. CASE Link(w)
  <2>1. [obj[w] EXCEPT !.status = "completed", !.report = latest].report = latest
    BY <1>2, BuiltReports
  <2> QED
    BY <1>1, <1>7, <2>1 DEF Link, Save, Raise, Goto
<1>8. CASE HandlerFail(w)
  BY <1>1, <1>2, <1>8, BuiltReports DEF HandlerFail, Save, Goto
<1>9. CASE AnalysisEnds(w) \/ CheckPass(w) \/ HandlerRead(w)
  BY <1>1, <1>9 DEF AnalysisEnds, CheckPass, HandlerRead, Goto
<1>10. CASE Take(w) \/ CheckMissing(w) \/ CheckGiveUp(w) \/ CheckReuse(w) \/ CacheMiss(w)
            \/ AnalysisFails(w) \/ SoftLimit(w) \/ DropCache(w)
  BY <1>1, <1>10 DEF Take, CheckMissing, CheckGiveUp, CheckReuse, CacheMiss, AnalysisFails,
     SoftLimit, DropCache, Raise, Goto
<1>11. CASE CheckRetry(w) \/ CheckCompleted(w) \/ Finish(w) \/ HandlerRetry(w)
            \/ HardLimit(w) \/ Crash(w)
  BY <1>1, <1>11, BuiltReports DEF CheckRetry, CheckCompleted, Finish, HandlerRetry,
     HardLimit, Crash, Ack
<1> QED
  BY <1>3, <1>4, <1>5, <1>6, <1>7, <1>8, <1>9, <1>10, <1>11 DEF Work, Fault

\* check_timeouts and cleanup_old_tasks keep the reports where they belong.
LEMMA BeatOwns ==
    ASSUME OwnInv, CheckTimeouts \/ CleanupOldTasks \/ UNCHANGED vars
    PROVE  OwnReport' /\ ReportsOwned'
<1> USE DEF TypeOK, OwnInv, OwnReport, ReportsOwned, tableVars, webVars, workerVars, beatVars
<1>1. UNCHANGED <<pc, job, obj, latest, draft>>
  BY DEF CheckTimeouts, TimeoutsRead, TimeoutsWrite, TimeoutsCommit, CleanupOldTasks, vars
<1>2. CASE TimeoutsRead
  BY <1>1, <1>2, BuiltReports DEF TimeoutsRead
<1>3. CASE TimeoutsWrite \/ UNCHANGED vars
  BY <1>1, <1>3 DEF TimeoutsWrite, vars
<1>4. CASE TimeoutsCommit
  <2>1. \A t \in Requests : [snap[t] EXCEPT !.status = "failed", !.pos = 0].report = snap[t].report
    BY BuiltReports
  <2>2. OwnReport'
    BY <1>4, <2>1 DEF TimeoutsCommit, FailedBySnap
  <2>3. \A t \in Requests : snap'[t].report = NoReport
    BY <1>4, BuiltReports DEF TimeoutsCommit
  <2> QED
    BY <1>1, <2>2, <2>3
<1>5. CASE CleanupOldTasks
  BY <1>1, <1>5, BuiltReports DEF CleanupOldTasks
<1> QED
  BY <1>2, <1>3, <1>4, <1>5 DEF CheckTimeouts

\* With one worker the report of a task is the report of its own package,
\* although Link looks it up as the newest one and everybody saves whole rows
\* from memory.
THEOREM OneWorkerOwnReport ==
    ASSUME SingleWorker
    PROVE  Spec => []OwnReport
<1>1. Init => OwnInv
  BY SlotInit, BuiltReports DEF Init, SlotInv, OwnInv, OwnReport, ReportsOwned
<1>2. OwnInv /\ [Next]_vars => OwnInv'
  BY TypeStep, RequestOwns, WorkerOwns, BeatOwns DEF OwnInv, Next, Idle
<1>3. OwnInv => OwnReport
  BY DEF OwnInv
<1> QED
  BY <1>1, <1>2, <1>3, PTL DEF Spec

-----------------------------------------------------------------------------
(* No package is analysed twice.  The first transaction of the worker finds
   no result for the purl of its task; nobody but the worker itself can
   complete another task before the container starts.                      *)

PurlUnanalysed ==
    \A w \in Workers :
        pc[w] \in {"claim", "cache", "analyze"} => OtherResults(db, job[w]) = {}

ReuseInv == TypeOK /\ LinkedIsCompleted /\ PurlUnanalysed

\* With one worker no container is started for a purl that has a completed
\* result, for every number of requests, crashes and time limits.
THEOREM OneWorkerNoReanalysis ==
    ASSUME SingleWorker
    PROVE  Spec => []NoReanalysis
<1>1. Init => ReuseInv
  BY SlotInit DEF Init, SlotInv, ReuseInv, PurlUnanalysed
<1>2. ReuseInv /\ [Next]_vars => ReuseInv'
  <2> SUFFICES ASSUME ReuseInv, [Next]_vars PROVE ReuseInv'
    OBVIOUS
  <2>1. TypeOK' /\ LinkedIsCompleted'
    BY TypeStep, LinkedStep DEF ReuseInv
  <2>2. ASSUME NEW w \in Workers, Work(w) \/ Fault(w), pc'[w] \in {"claim", "cache", "analyze"}
        PROVE  OtherResults(db', job'[w]) = {}
    <3> USE DEF ReuseInv, TypeOK, tableVars
    <3>1. CASE CheckPass(w)
      BY <3>1 DEF CheckPass, Goto
    <3>2. CASE Claim(w)
      BY <3>2 DEF Claim, Goto, PurlUnanalysed, OtherResults, HasResult
    <3>3. CASE CacheMiss(w)
      BY <3>3 DEF CacheMiss, Goto, PurlUnanalysed
    <3> QED
      BY <2>2, <3>1, <3>2, <3>3 DEF Work, Take, CheckMissing, CheckRetry, CheckGiveUp,
         CheckCompleted, CheckReuse, CacheHit, AnalysisEnds, AnalysisFails, Heartbeat,
         SaveReport, Link, PublishReport, Finish, HandlerRead, HandlerFail, HandlerRetry,
         Goto, Ack, Raise, Fault, SoftLimit, HardLimit, Crash, DropCache
  <2>3. ASSUME UNCHANGED <<pc, job, obj, cause>>,
               \A t \in Requests : db'[t].status \in {"running", "completed"} => db'[t] = db[t],
               NEW w \in Workers, pc'[w] \in {"claim", "cache", "analyze"}
        PROVE  OtherResults(db', job'[w]) = {}
    BY <2>3 DEF ReuseInv, PurlUnanalysed, OtherResults, HasResult
  <2>4. PurlUnanalysed'
    BY <2>2, <2>3, WorkersStay, OnlyWorkersRun
    DEF Next, Idle, PurlUnanalysed, SingleWorker, ReuseInv
  <2> QED
    BY <2>1, <2>4 DEF ReuseInv
<1>3. ReuseInv => NoReanalysis
  BY DEF ReuseInv, PurlUnanalysed, NoReanalysis
<1> QED
  BY <1>1, <1>2, <1>3, PTL DEF Spec

-----------------------------------------------------------------------------
(* The refinement.  With one worker the statuses of the rows follow the
   single slot lifecycle of TaskLifecycle.  Besides the slot (SlotInv) this
   needs to know which statuses a row can have when it is written: a row that
   its request has created and not yet queued is nobody else's business, and
   a worker never finds its row deleted, pending or queued again.          *)

\* A row is created once.
NotCreated ==
    \A t \in Requests :
        rpc[t] \in {"idle", "active", "key", "create"} => db[t].status = "absent"

\* A pending row has no message, no worker and no place in check_timeouts, even
\* when its request is dead.
PendingUntouched ==
    \A t \in Requests :
        db[t].status = "pending" =>
            /\ rpc[t] # "publish"
            /\ \A n \in 0 .. MaxRetries : queue[<<t, n>>] = 0
            /\ \A w \in Workers : job[w] # t
            /\ snap[t].status = "absent"

LifeInv == SlotInv /\ DriveInv /\ RowsKept /\ NotCreated /\ PendingUntouched

\* A task without a message or a worker gets none from a step that does not
\* find its row queued and is not its request's.
LEMMA NothingSent ==
    ASSUME TypeOK, [Next]_vars, NEW t \in Requests,
           db[t].status # "queued", snap[t].status = "absent", rpc[t] # "publish",
           \A n \in 0 .. MaxRetries : queue[<<t, n>>] = 0,
           \A w \in Workers : job[w] # t
    PROVE  /\ \A n \in 0 .. MaxRetries : queue'[<<t, n>>] = 0
           /\ \A w \in Workers : job'[w] # t
<1> USE DEF TypeOK, workerVars, tableVars
<1>1. ASSUME NEW w \in Workers, Take(w)
      PROVE  /\ \A n \in 0 .. MaxRetries : queue'[<<t, n>>] = 0
             /\ \A v \in Workers : job'[v] # t
  <2>1. PICK m \in Messages :
           /\ queue[m] > 0
           /\ queue' = [queue EXCEPT ![m] = @ - 1]
           /\ job' = [job EXCEPT ![w] = m[1]]
    BY <1>1 DEF Take
  <2>2. m[1] # t
    BY <2>1 DEF Messages
  <2> QED
    BY <2>1, <2>2 DEF Messages
<1>2. ASSUME NEW w \in Workers, Work(w) \/ Fault(w), ~Take(w)
      PROVE  /\ \A n \in 0 .. MaxRetries : queue'[<<t, n>>] = 0
             /\ \A v \in Workers : job'[v] # t
  <2>1. \/ queue' = queue
        \/ queue' = ProcessNext(db, queue)
        \/ \E k : queue' = Send(queue, {job[w]}, k)
        \/ \E k : queue' = Send(ProcessNext(db, queue), {job[w]}, k)
    BY <1>2 DEF Work, CheckMissing, CheckRetry, CheckGiveUp, CheckCompleted, CheckReuse,
       CheckPass, Claim, CacheHit, CacheMiss, AnalysisEnds, AnalysisFails, Heartbeat,
       SaveReport, Link, PublishReport, Finish, HandlerRead, HandlerFail, HandlerRetry,
       Fault, SoftLimit, HardLimit, Crash, DropCache
  <2>2. job' = job \/ job' = [job EXCEPT ![w] = NoTask]
    BY <1>2 DEF Work, CheckMissing, CheckRetry, CheckGiveUp, CheckCompleted, CheckReuse,
       CheckPass, Claim, CacheHit, CacheMiss, AnalysisEnds, AnalysisFails, Heartbeat,
       SaveReport, Link, PublishReport, Finish, HandlerRead, HandlerFail, HandlerRetry,
       Fault, SoftLimit, HardLimit, Crash, DropCache, Goto, Ack, Raise
  <2>3. \A v \in Workers : job'[v] # t
    BY <2>2, TableAssumption
  <2>4. ProcessNext(db, queue) \in [Messages -> Nat]
    BY ProcessNextType
  <2>5. \A n \in 0 .. MaxRetries : ProcessNext(db, queue)[<<t, n>>] = queue[<<t, n>>]
    BY ProcessNextElsewhere
  <2>6. t \notin {job[w]}
    OBVIOUS
  <2>7. ASSUME NEW k, queue' = Send(queue, {job[w]}, k)
        PROVE  \A n \in 0 .. MaxRetries : queue'[<<t, n>>] = queue[<<t, n>>]
    <3>1. queue \in [Messages -> Nat]
      OBVIOUS
    <3>2. \A n \in 0 .. MaxRetries : Send(queue, {job[w]}, k)[<<t, n>>] = queue[<<t, n>>]
      BY <2>6, <3>1 DEF Send, Messages
    <3> QED
      BY <2>7, <3>2
  <2>8. ASSUME NEW k, queue' = Send(ProcessNext(db, queue), {job[w]}, k)
        PROVE  \A n \in 0 .. MaxRetries : queue'[<<t, n>>] = queue[<<t, n>>]
    <3>1. \A n \in 0 .. MaxRetries :
             Send(ProcessNext(db, queue), {job[w]}, k)[<<t, n>>] = ProcessNext(db, queue)[<<t, n>>]
      BY <2>4, <2>6 DEF Send, Messages
    <3> QED
      BY <2>5, <2>8, <3>1
  <2>9. \A n \in 0 .. MaxRetries : queue'[<<t, n>>] = queue[<<t, n>>]
    BY <2>1, <2>5, <2>7, <2>8
  <2> QED
    BY <2>3, <2>9
<1>3. ASSUME NEW r \in Requests, Web(r) \/ WebDies(r) \/ OrphanExits(r) \/ Expire(r)
      PROVE  /\ \A n \in 0 .. MaxRetries : queue'[<<t, n>>] = 0
             /\ \A v \in Workers : job'[v] # t
  <2>1. job' = job
    BY <1>3, WorkersStay
  <2>2. queue' = queue \/ (r # t /\ queue' = Send(queue, {r}, 0))
    BY <1>3 DEF Web, LookupCompleted, LookupActive, LookupKey, Create, Enqueue, Publish,
       PublishFails, WebDies, OrphanExits, Expire
  <2>3. ASSUME r # t, queue' = Send(queue, {r}, 0)
        PROVE  \A n \in 0 .. MaxRetries : queue'[<<t, n>>] = queue[<<t, n>>]
    <3>1. t \notin {r}
      BY <2>3
    <3>2. queue \in [Messages -> Nat]
      OBVIOUS
    <3>3. \A n \in 0 .. MaxRetries : Send(queue, {r}, 0)[<<t, n>>] = queue[<<t, n>>]
      BY ONLY t \in Requests, <3>1, <3>2, SendElsewhere
    <3> QED
      BY <2>3, <3>3
  <2> QED
    BY <2>1, <2>2, <2>3
<1>4. CASE TimeoutsWrite
  <2>1. FailedBySnap[t] = db[t]
    BY DEF FailedBySnap
  <2>2. \A n \in 0 .. MaxRetries : ProcessNext(FailedBySnap, queue)[<<t, n>>] = queue[<<t, n>>]
    BY <2>1, ProcessNextElsewhere
  <2> QED
    BY <1>4, <2>2 DEF TimeoutsWrite
<1>5. CASE TimeoutsRead \/ TimeoutsCommit \/ CleanupOldTasks \/ UNCHANGED vars
  BY <1>5 DEF TimeoutsRead, TimeoutsCommit, CleanupOldTasks, vars
<1> QED
  BY <1>1, <1>2, <1>3, <1>4, <1>5 DEF Next, CheckTimeouts, Idle

\* A row becomes pending only when it is created.
LEMMA OnlyCreatePends ==
    ASSUME TypeOK, LinkedIsCompleted, [Next]_vars, NEW t \in Requests,
           db'[t].status = "pending", db[t].status # "pending"
    PROVE  Create(t)
<1> USE DEF TypeOK
<1>1. ASSUME NEW w \in Workers, Work(w) \/ Fault(w) PROVE FALSE
  BY <1>1, WorkerWrites DEF Marks
<1>2. ASSUME NEW r \in Requests, Web(r) \/ WebDies(r) \/ OrphanExits(r) \/ Expire(r)
      PROVE  Create(t)
  <2>1. [draft[r] EXCEPT !.status = "queued",
                         !.pos = Cardinality(WithStatus(db, "queued")) + 1,
                         !.qat = ticks + 1].status # "pending"
    BY DEF Row
  <2>2. [draft[r] EXCEPT !.status = "failed"].status # "pending"
    BY DEF Row
  <2> QED
    BY <1>2, <2>1, <2>2 DEF Web, LookupCompleted, LookupActive, LookupKey, Create, Enqueue,
       Publish, PublishFails, WebDies, OrphanExits, Expire, WebSave, tableVars
<1>3. CASE TimeoutsRead \/ TimeoutsWrite \/ UNCHANGED vars
  BY <1>3 DEF TimeoutsRead, TimeoutsWrite, vars, tableVars
<1>4. CASE TimeoutsCommit
  <2>1. [snap[t] EXCEPT !.status = "failed", !.pos = 0].status # "pending"
    BY DEF Row
  <2> QED
    BY <1>4, <2>1 DEF TimeoutsCommit, FailedBySnap
<1>5. CASE CleanupOldTasks
  BY <1>5 DEF CleanupOldTasks, NoRow
<1> QED
  BY <1>1, <1>2, <1>3, <1>4, <1>5 DEF Next, CheckTimeouts, Idle

\* PendingUntouched is preserved by every step.
LEMMA PendingStep ==
    ASSUME LifeInv, [Next]_vars
    PROVE  PendingUntouched'
<1> USE DEF LifeInv, DriveInv
<1> SUFFICES ASSUME NEW t \in Requests, db'[t].status = "pending"
             PROVE  /\ rpc'[t] # "publish"
                    /\ \A n \in 0 .. MaxRetries : queue'[<<t, n>>] = 0
                    /\ \A w \in Workers : job'[w] # t
                    /\ snap'[t].status = "absent"
  BY DEF PendingUntouched
<1>1. CASE Create(t)
  <2>1. rpc[t] \in Early /\ rpc'[t] \in {"enqueue", "done"}
    BY <1>1 DEF Create, Respond, WebSave, Early, TypeOK
  <2>2. UNCHANGED <<queue, job, snap>>
    BY <1>1 DEF Create, workerVars, beatVars
  <2> QED
    BY <2>1, <2>2 DEF Unpublished
<1>2. CASE ~Create(t)
  <2>1. db[t].status = "pending"
    BY <1>2, OnlyCreatePends
  <2>2. /\ rpc[t] # "publish"
        /\ \A n \in 0 .. MaxRetries : queue[<<t, n>>] = 0
        /\ \A w \in Workers : job[w] # t
        /\ snap[t].status = "absent"
    BY <2>1 DEF PendingUntouched
  <2>3. /\ \A n \in 0 .. MaxRetries : queue'[<<t, n>>] = 0
        /\ \A w \in Workers : job'[w] # t
    BY <2>1, <2>2, NothingSent
  <2>4. snap'[t].status = "absent"
    BY <2>1, <2>2, SnapChanges DEF NoRow
  <2>5. rpc'[t] # "publish"
    <3>1. SUFFICES ASSUME rpc'[t] = "publish" PROVE FALSE
      OBVIOUS
    <3>2. PICK r \in Requests : Web(r) \/ WebDies(r) \/ OrphanExits(r) \/ Expire(r)
      BY <2>2, <3>1, RequestsStay DEF Next, Idle
    <3>3. Enqueue(r) /\ r = t
      BY <2>2, <3>1, <3>2 DEF Web, LookupCompleted, LookupActive, LookupKey, Create, Enqueue,
         Publish, PublishFails, WebDies, OrphanExits, Expire, Respond, WebGoto, WebSave,
         webVars, TypeOK
    <3>4. [draft[t] EXCEPT !.status = "queued",
                           !.pos = Cardinality(WithStatus(db, "queued")) + 1,
                           !.qat = ticks + 1].status = "queued"
      BY DEF TypeOK, Row
    <3> QED
      BY <3>3, <3>4 DEF Enqueue, WebSave, TypeOK
  <2> QED
    BY <2>2, <2>3, <2>4, <2>5
<1> QED
  BY <1>1, <1>2

\* NotCreated is preserved by every step.
LEMMA NotCreatedStep ==
    ASSUME TypeOK, LinkedIsCompleted, RowsKept, NotCreated, [Next]_vars
    PROVE  NotCreated'
<1> DEFINE Before == {"idle", "active", "key", "create"}
<1> SUFFICES ASSUME NEW t \in Requests, rpc'[t] \in Before PROVE db'[t].status = "absent"
  BY DEF NotCreated
<1>1. CASE UNCHANGED <<rpc, draft>> /\ ~Create(t)
  BY <1>1, RowsCreated DEF NotCreated
<1>2. ASSUME NEW r \in Requests, Web(r) \/ WebDies(r) \/ OrphanExits(r) \/ Expire(r)
      PROVE  rpc[t] \in Before /\ ~Create(t)
  BY <1>2 DEF Web, LookupCompleted, LookupActive, LookupKey, Create, Enqueue, Publish,
     PublishFails, WebDies, OrphanExits, Expire, Respond, WebGoto, WebSave, webVars, TypeOK
<1>3. ~Create(t)
  BY DEF Create, Respond, WebSave, TypeOK
<1> QED
  BY <1>1, <1>2, <1>3, RequestsStay, RowsCreated DEF Next, Idle, NotCreated

\* Saving one row changes one status.
LEMMA OneStatus ==
    ASSUME TypeOK, NEW t \in Requests, NEW row, db' = [db EXCEPT ![t] = row]
    PROVE  status' = [status EXCEPT ![t] = row.status]
BY DEF TypeOK, status

\* A step of a request submits, queues or fails its task.
LEMMA RequestRefines ==
    ASSUME LifeInv, NEW r \in Requests, Web(r) \/ WebDies(r) \/ OrphanExits(r) \/ Expire(r)
    PROVE  [Lifecycle!Next]_status
<1> USE DEF LifeInv, SlotInv, DriveInv, tableVars
<1>1. CASE Create(r) /\ db' # db
  <2> DEFINE row == [NoRow EXCEPT !.status = "pending"]
  <2>1. row.status = "pending"
    BY DEF NoRow
  <2>2. db' = [db EXCEPT ![r] = row] /\ rpc[r] = "create"
    BY <1>1 DEF Create, WebSave
  <2> HIDE DEF row
  <2>3. status' = [status EXCEPT ![r] = "pending"]
    BY <2>1, <2>2, OneStatus
  <2>4. status[r] = "absent"
    BY <2>2 DEF NotCreated, status
  <2> QED
    BY <2>3, <2>4 DEF Lifecycle!Next, Lifecycle!Submit
<1>2. CASE Enqueue(r)
  <2> DEFINE row == [draft[r] EXCEPT !.status = "queued",
                         !.pos = Cardinality(WithStatus(db, "queued")) + 1,
                         !.qat = ticks + 1]
  <2>1. row.status = "queued"
    BY DEF TypeOK, Row
  <2>2. db' = [db EXCEPT ![r] = row] /\ rpc[r] = "enqueue"
    BY <1>2 DEF Enqueue, WebSave
  <2> HIDE DEF row
  <2>3. status' = [status EXCEPT ![r] = "queued"]
    BY <2>1, <2>2, OneStatus
  <2>4. status[r] = "pending"
    BY <2>2 DEF Unpublished, Early, RowsKept, status
  <2> QED
    BY <2>3, <2>4 DEF Lifecycle!Next, Lifecycle!Queue
<1>3. CASE PublishFails(r)
  <2> DEFINE row == [draft[r] EXCEPT !.status = "failed"]
  <2>1. row.status = "failed"
    BY DEF TypeOK, Row
  <2>2. db' = [db EXCEPT ![r] = row] /\ rpc[r] = "publish"
    BY <1>3 DEF PublishFails
  <2> HIDE DEF row
  <2>3. status' = [status EXCEPT ![r] = "failed"]
    BY <2>1, <2>2, OneStatus
  <2>4. status[r] \in {"queued", "running", "completed", "failed"}
    BY <2>2 DEF PendingUntouched, RowsKept, status, TypeOK, Row, Statuses
  <2>5. Lifecycle!Fail({r})
    BY <2>3, <2>4 DEF Lifecycle!Fail, status
  <2> QED
    BY <2>5 DEF Lifecycle!Next
<1>4. CASE db' = db
  BY <1>4 DEF status
<1> QED
  BY <1>1, <1>2, <1>3, <1>4
  DEF Web, LookupCompleted, LookupActive, LookupKey, Create, Publish, WebDies, OrphanExits,
      Expire

\* A row that a worker may save is queued, running, completed or failed, and
\* not queued once the worker has written it.
LEMMA SaveableStatus ==
    ASSUME LifeInv, NEW w \in Workers, pc[w] \in WriteSteps
    PROVE  /\ job[w] \in Requests
           /\ status[job[w]] \in {"queued", "running", "completed", "failed"}
           /\ HasWritten(w) => status[job[w]] # "queued"
<1>1. job[w] \in Requests
  BY DEF LifeInv, SlotInv, TypeOK, WriteSteps
<1>2. db[job[w]].status \notin {"absent", "pending"}
  BY <1>1 DEF LifeInv, RowsKept, PendingUntouched
<1> QED
  BY <1>1, <1>2 DEF LifeInv, SlotInv, DriveInv, WrittenNotQueued, status, TypeOK, Row, Statuses

\* A step of the only worker starts, completes or fails its task.
LEMMA WorkerRefines ==
    ASSUME SingleWorker, LifeInv, NEW w \in Workers, Work(w) \/ Fault(w)
    PROVE  [Lifecycle!Next]_status
<1> SUFFICES ASSUME db' # db PROVE [Lifecycle!Next]_status
  BY DEF status
<1>1. PICK row : db' = [db EXCEPT ![job[w]] = row] /\ row.status \in Marks
  BY WorkerWrites DEF LifeInv, SlotInv
<1>2. pc[w] \in WriteSteps
  BY WorkerWrites DEF LifeInv, SlotInv
<1>3. /\ job[w] \in Requests
      /\ status[job[w]] \in {"queued", "running", "completed", "failed"}
      /\ HasWritten(w) => status[job[w]] # "queued"
  BY <1>2, SaveableStatus
<1>4. status' = [status EXCEPT ![job[w]] = row.status]
  BY <1>1, <1>3, OneStatus DEF LifeInv, SlotInv
<1>5. status[job[w]] = row.status => status' = status
  BY <1>4 DEF status
<1>6. CASE row.status = "running"
  <2>1. db'[job[w]].status = "running"
    BY <1>1, <1>3, <1>6 DEF LifeInv, SlotInv, TypeOK
  <2>2. SUFFICES ASSUME db[job[w]].status # "running" PROVE [Lifecycle!Next]_status
    BY <1>3, <1>5, <1>6 DEF status
  <2>3. pc[w] \in SlotSteps
    BY <1>3, <2>1, <2>2, OnlySlotRuns DEF LifeInv, SlotInv
  <2>4. /\ \A u \in Requests : status[u] # "running"
        /\ status[job[w]] # "completed"
    BY <1>3, <2>2, <2>3 DEF LifeInv, SlotInv, SlotHeld, status
  <2>5. Lifecycle!Start(job[w])
    BY <1>3, <1>4, <1>6, <2>4 DEF Lifecycle!Start
  <2> QED
    BY <1>3, <2>5 DEF Lifecycle!Next
<1>7. CASE row.status = "failed"
  <2>1. Lifecycle!Fail({job[w]})
    BY <1>3, <1>4, <1>7 DEF Lifecycle!Fail, status
  <2> QED
    BY <1>3, <2>1 DEF Lifecycle!Next
<1>8. CASE row.status = "completed"
  <2>1. HasWritten(w)
    <3>1. db'[job[w]].status = "completed"
      BY <1>1, <1>3, <1>8 DEF LifeInv, SlotInv, TypeOK
    <3>2. ~Claim(w) /\ ~HandlerFail(w)
      <4>1. /\ [obj[w] EXCEPT !.status = "running", !.pos = 0].status # "completed"
            /\ [obj[w] EXCEPT !.status = "failed", !.pos = 0].status # "completed"
        BY DEF LifeInv, SlotInv, TypeOK, Row
      <4> QED
        BY <1>3, <3>1, <4>1 DEF Claim, HandlerFail, Save, LifeInv, SlotInv, TypeOK
    <3> QED
      BY <3>2 DEF Work, Take, CheckMissing, CheckRetry, CheckGiveUp, CheckCompleted,
         CheckReuse, CheckPass, CacheHit, CacheMiss, AnalysisEnds, AnalysisFails, Heartbeat,
         SaveReport, Link, PublishReport, Finish, HandlerRead, HandlerRetry, Fault,
         SoftLimit, HardLimit, Crash, DropCache, tableVars, HasWritten
  <2>2. status[job[w]] = "completed" \/ Lifecycle!Complete(job[w])
    BY <1>3, <1>4, <1>8, <2>1 DEF Lifecycle!Complete
  <2> QED
    BY <1>3, <1>5, <1>8, <2>2 DEF Lifecycle!Next
<1> QED
  BY <1>1, <1>6, <1>7, <1>8 DEF Marks

\* check_timeouts fails the rows it has read; cleanup_old_tasks removes ended ones.
LEMMA BeatRefines ==
    ASSUME LifeInv, CheckTimeouts \/ CleanupOldTasks \/ UNCHANGED vars
    PROVE  [Lifecycle!Next]_status
<1> USE DEF LifeInv, SlotInv
<1>1. CASE TimeoutsRead \/ TimeoutsWrite \/ UNCHANGED vars
  BY <1>1 DEF TimeoutsRead, TimeoutsWrite, vars, tableVars, status
<1>2. CASE TimeoutsCommit
  <2> DEFINE S == {t \in Requests : snap[t].status # "absent"}
  <2>1. \A t \in Requests : [snap[t] EXCEPT !.status = "failed", !.pos = 0].status = "failed"
    BY DEF TypeOK, Row
  <2>2. status' = [t \in Requests |-> IF t \in S THEN "failed" ELSE status[t]]
    BY <1>2, <2>1 DEF TimeoutsCommit, FailedBySnap, status
  <2>3. \A t \in S : status[t] \in {"queued", "running", "completed", "failed"}
    BY DEF RowsKept, PendingUntouched, status, TypeOK, Row, Statuses
  <2>4. Lifecycle!Fail(S)
    BY <2>2, <2>3 DEF Lifecycle!Fail
  <2> QED
    BY <2>4 DEF Lifecycle!Next
<1>3. CASE CleanupOldTasks
  <2>1. PICK old \in SUBSET Requests :
           /\ old \subseteq WithStatus(db, "completed") \cup WithStatus(db, "failed")
           /\ db' = [t \in Requests |-> IF t \in old THEN NoRow ELSE db[t]]
    BY <1>3 DEF CleanupOldTasks, WithStatus
  <2>2. status' = [t \in Requests |-> IF t \in old THEN "absent" ELSE status[t]]
    BY <2>1 DEF status, NoRow
  <2>3. \A t \in old : status[t] \in {"completed", "failed"}
    BY <2>1 DEF status, WithStatus
  <2>4. Lifecycle!Remove(old)
    BY <2>2, <2>3 DEF Lifecycle!Remove
  <2> QED
    BY <2>4 DEF Lifecycle!Next
<1> QED
  BY <1>1, <1>2, <1>3 DEF CheckTimeouts

\* LifeInv is preserved by every step of a system with one worker.
LEMMA LifeStep ==
    ASSUME SingleWorker, LifeInv, [Next]_vars
    PROVE  LifeInv'
<1>1. SlotInv'
  BY SlotStep DEF LifeInv
<1>2. DriveInv'
  BY TypeStep, UnpublishedStep, WrittenStep, LinkedStep, DrivenStep DEF LifeInv, DriveInv
<1>3. RowsKept' /\ NotCreated'
  BY RowsKeptStep, NotCreatedStep DEF LifeInv, SlotInv
<1>4. PendingUntouched'
  BY PendingStep
<1> QED
  BY <1>1, <1>2, <1>3, <1>4 DEF LifeInv

\* LifeInv holds initially.
LEMMA LifeInit == Init => LifeInv
<1>1. Init => SlotInv
  BY SlotInit
<1>2. Init => DriveInv
  BY <1>1, TableAssumption DEF Init, SlotInv, DriveInv, Unpublished, WrittenNotQueued,
     HasWritten, QueuedIsDriven, WithStatus, NoRow, Messages
<1> QED
  BY <1>1, <1>2 DEF Init, LifeInv, RowsKept, WriteSteps, NotCreated, PendingUntouched, NoRow

\* With one worker the dispatcher implements the single slot lifecycle of a
\* task: every step of a request, of the worker, of check_timeouts, of
\* cleanup_old_tasks and of every fault is a step of TaskLifecycle or changes no
\* status, for every number of requests and faults.
THEOREM OneWorkerImplementsLifecycle ==
    ASSUME SingleWorker
    PROVE  Spec => ImplementsLifecycle
<1>1. Init => Lifecycle!Init
  BY DEF Init, Lifecycle!Init, status, NoRow
<1>2. LifeInv /\ [Next]_vars => LifeInv'
  BY LifeStep
<1>3. LifeInv /\ [Next]_vars => [Lifecycle!Next]_status
  BY RequestRefines, WorkerRefines, BeatRefines DEF Next, Idle
<1> QED
  BY <1>1, <1>2, <1>3, LifeInit, PTL DEF Spec, ImplementsLifecycle, Lifecycle!Spec

=============================================================================
