------------------------------- MODULE WebQueue -------------------------------
(***************************************************************************)
(* The QueueManager thread of the web application (queue_manager.py).      *)
(* AppConfig.ready starts one in every Django process, and the command     *)
(* start_queue_worker another; they share the AnalysisTask table and the   *)
(* results volume of analysis_runner.py, and no lock.  The Celery          *)
(* dispatcher that may serve the same rows is CeleryTasks; here its        *)
(* workers are down.  Reports go to the database, large ones and the       *)
(* downloadable copies to Redis, where they expire.                        *)
(*                                                                         *)
(* A thread works on objects it has read: copy is its task, rows the       *)
(* others it is about to save; save() writes all columns.  A step is what  *)
(* one query or one commit does: the transactions, which lock nothing they *)
(* read, do not make read and save one step.                               *)
(***************************************************************************)
EXTENDS AnalysisTable, Sequences

CONSTANTS
    Managers,   \* Django processes
    Names,      \* names of result files
    NameOf,     \* the file a package's result is in: its name in lower case
    LargeReports, \* packages whose report exceeds MAX_DB_SIZE
    None,       \* no file, no content, no value
    MaxFaults   \* bound on crashes, failed and aborted analyses, expiries

ASSUME WebQueueAssumption ==
    /\ NameOf \in [Packages -> Names]
    /\ None \notin Packages
    /\ LargeReports \subseteq Packages
    /\ MaxFaults \in Nat

VARIABLES
    table,    \* AnalysisTask
    clock,    \* the next value of queued_at
    expired,  \* running rows for which is_timed_out() holds
    reports,  \* ReportDynamicAnalysis in the order of their ids
    volume,   \* the results volume: the package a result file is about
    orphans,  \* packages analysed in containers whose process is gone
    redis,    \* [db, download]: the large and the downloadable reports
    mgr,      \* the thread of each process
    crowded,  \* history: two threads have been up at one time
    faults    \* faults so far

vars == <<table, clock, expired, reports, volume, orphans, redis, mgr, crowded, faults>>

NoRows == [r \in {} |-> NoRow]

Steps == {"down", "loop", "timeouts", "renumber", "renumbered", "next", "pick", "take", "analyse",
          "read", "heartbeat", "save", "link", "publish", "fail"}

Down == [pc |-> "down", task |-> NoTask, copy |-> NoRow, result |-> None, rows |-> NoRows]

Init ==
    /\ table = [r \in Requests |-> NoRow]
    /\ clock = 1
    /\ expired = {}
    /\ reports = << >>
    /\ volume = [n \in Names |-> None]
    /\ orphans = {}
    /\ redis = [db |-> [p \in Packages |-> None], download |-> [p \in Packages |-> None]]
    /\ mgr = [m \in Managers |-> Down]
    /\ crowded = FALSE
    /\ faults = 0

Up(m) == mgr[m].pc # "down"

Goto(m, pc) == mgr' = [mgr EXCEPT ![m].pc = pc]

(* Back to the top of _worker_loop, the object forgotten. *)
Loop(m) == mgr' = [mgr EXCEPT ![m] = [Down EXCEPT !.pc = "loop"]]

_start_worker_if_needed(m) ==
    IF Up(m) THEN UNCHANGED <<mgr, crowded>>
    ELSE Loop(m) /\ crowded' = (crowded \/ \E k \in Managers : Up(k))

Fault == faults < MaxFaults /\ faults' = faults + 1

-----------------------------------------------------------------------------
(* The queue. *)

Queued(tab) == WithStatus(tab, "queued")

MaxPosition(tab) == CHOOSE n \in {0} \cup {tab[t].pos : t \in Queued(tab)} :
                        \A t \in Queued(tab) : tab[t].pos <= n

(* An HTTP request or a script creates the row and hands it to the queue. *)
CreateTask(r) ==
    /\ table[r].status = "absent"
    /\ table' = [table EXCEPT ![r].status = "pending"]
    /\ UNCHANGED <<clock, expired, reports, volume, orphans, redis, mgr, crowded, faults>>

(* The position after the last is read; until the row is saved no one reads
   the position of a row that is not queued. *)
NextPosition(r) ==
    /\ table[r].status = "pending" /\ table[r].pos = 0
    /\ table' = [table EXCEPT ![r].pos = MaxPosition(table) + 1]
    /\ UNCHANGED <<clock, expired, reports, volume, orphans, redis, mgr, crowded, faults>>

(* The row is queued there; the thread of the process that queues it is
   started if it is not alive. *)
add_task_to_queue(m, r) ==
    /\ table[r].status = "pending" /\ table[r].pos # 0
    /\ table' = [table EXCEPT ![r] = [@ EXCEPT !.status = "queued", !.qat = clock]]
    /\ clock' = clock + 1
    /\ _start_worker_if_needed(m)
    /\ UNCHANGED <<expired, reports, volume, orphans, redis, faults>>

(* The queued rows, renumbered by priority and time of arrival. *)
Renumbered ==
    [t \in Queued(table) |->
        [table[t] EXCEPT !.pos = Cardinality({u \in Queued(table) : ServedBefore(table, u, t)})]]

(* The rows as they were read, whatever has become of them. *)
Saved(rows) == [t \in Requests |-> IF t \in DOMAIN rows THEN rows[t] ELSE table[t]]

(* _update_queue_positions reads the queue, and then saves each of its rows;
   check_timeouts goes on to _get_next_task, _process_task ends with it. *)
ReadQueue(m) ==
    /\ mgr[m].pc = "renumber"
    /\ mgr' = [mgr EXCEPT ![m].pc = "renumbered", ![m].rows = Renumbered]
    /\ UNCHANGED <<table, clock, expired, reports, volume, orphans, redis, crowded,
                   faults>>

_update_queue_positions(m) ==
    /\ mgr[m].pc = "renumbered"
    /\ table' = Saved(mgr[m].rows)
    /\ IF mgr[m].task = NoTask
       THEN mgr' = [mgr EXCEPT ![m].pc = "next", ![m].rows = NoRows]
       ELSE Loop(m)
    /\ UNCHANGED <<clock, expired, reports, volume, orphans, redis, crowded, faults>>

(* order_by('-priority', 'queue_position').first() *)
FirstQueued ==
    {t \in Queued(table) : \A u \in Queued(table) :
        \/ PriorityOf[t] > PriorityOf[u]
        \/ PriorityOf[t] = PriorityOf[u] /\ table[t].pos <= table[u].pos}

-----------------------------------------------------------------------------
(* What the status endpoints show a client. *)

(* A result is shown of a completed row that has a report, a place in the queue
   of a queued row; a row that is not there is a 404. *)
task_status_api(r) ==
    [status   |-> table[r].status,
     position |-> IF table[r].status = "queued" THEN table[r].pos ELSE None,
     result   |-> IF table[r].status = "completed" /\ table[r].report # NoReport
                  THEN table[r].report ELSE None]

(* 0 is shown of the row that is running. *)
task_queue_position_api(r) ==
    CASE table[r].status = "queued" -> table[r].pos
      [] table[r].status = "running" -> 0
      [] OTHER -> None

queue_status_api == [queued |-> Queued(table), running |-> WithStatus(table, "running")]

(* The running rows that are out of time. *)
timeout_status_api == queue_status_api.running \cap expired

-----------------------------------------------------------------------------
(* The thread. *)

(* AppConfig.ready, or start_queue_worker. *)
StartWorker(m) ==
    /\ ~Up(m)
    /\ _start_worker_if_needed(m)
    /\ UNCHANGED <<table, clock, expired, reports, volume, orphans, redis, faults>>

\* Mutant: rows that ran out of time are left alone.
check_timeouts_idle(m) ==
    /\ mgr[m].pc = "loop"
    /\ Goto(m, "next")
    /\ UNCHANGED <<table, expired, clock, reports, volume, orphans, redis, crowded,
                   faults>>

(* The running rows that have timed out are read. *)
check_timeouts(m) ==
    LET late == timeout_status_api
    IN  /\ mgr[m].pc = "loop"
        /\ mgr' = [mgr EXCEPT ![m].pc = IF late = {} THEN "next" ELSE "timeouts",
                              ![m].rows = [t \in late |-> table[t]]]
        /\ UNCHANGED <<table, expired, clock, reports, volume, orphans, redis, crowded,
                       faults>>

(* Each is failed; no container_id was ever stored, so no container is
   stopped. *)
_handle_timed_out_task(m) ==
    LET late == mgr[m].rows
    IN  /\ mgr[m].pc = "timeouts"
        /\ table' = Saved([t \in DOMAIN late |-> [late[t] EXCEPT !.status = "failed", !.pos = 0]])
        /\ mgr' = [mgr EXCEPT ![m].pc = "renumber", ![m].rows = NoRows]
        /\ UNCHANGED <<expired, clock, reports, volume, orphans, redis, crowded, faults>>

(* Nothing to do: a row is running. *)
RunningTask(m) ==
    /\ mgr[m].pc = "next"
    /\ WithStatus(table, "running") # {}
    /\ Loop(m)
    /\ UNCHANGED <<table, clock, expired, reports, volume, orphans, redis, crowded,
                   faults>>

\* Mutant: the queue is served whatever is running.
NoRunningTaskAnyway(m) ==
    /\ mgr[m].pc = "next"
    /\ Goto(m, "pick")
    /\ UNCHANGED <<table, clock, expired, reports, volume, orphans, redis, crowded,
                   faults>>

NoRunningTask(m) ==
    /\ mgr[m].pc = "next"
    /\ WithStatus(table, "running") = {}
    /\ Goto(m, "pick")
    /\ UNCHANGED <<table, clock, expired, reports, volume, orphans, redis, crowded,
                   faults>>

(* No row is queued; or the purl of the head has a result.  Then the row is
   saved with the report of another row, which AnalysisTask.report, a
   OneToOneField, does not allow: the transaction is rolled back and
   _worker_loop logs the IntegrityError. *)
NextTaskNone(m) ==
    /\ mgr[m].pc = "pick"
    /\ ~(Queued(table) # {} /\ \A t \in FirstQueued : OtherResults(table, t) = {})
    /\ Loop(m)
    /\ UNCHANGED <<table, clock, expired, reports, volume, orphans, redis, crowded,
                   faults>>

(* The head of the queue is read; its row is not changed yet. *)
NextTask(m) ==
    /\ mgr[m].pc = "pick"
    /\ \E t \in FirstQueued :
        /\ OtherResults(table, t) = {}
        /\ mgr' = [mgr EXCEPT ![m].pc = "take", ![m].task = t, ![m].copy = table[t]]
    /\ UNCHANGED <<table, clock, expired, reports, volume, orphans, redis, crowded,
                   faults>>

-----------------------------------------------------------------------------
(* _process_task. *)

SaveCopy(m, copy) == table' = [table EXCEPT ![mgr[m].task] = copy]

MarkRunning(m) ==
    LET copy == [mgr[m].copy EXCEPT !.status = "running", !.pos = 0]
    IN  /\ mgr[m].pc = "take"
        /\ SaveCopy(m, copy)
        /\ expired' = expired \ {mgr[m].task}
        /\ mgr' = [mgr EXCEPT ![m].pc = "analyse", ![m].copy = copy]
        /\ UNCHANGED <<clock, reports, volume, orphans, redis, crowded, faults>>

PackageFor(m) == PackageOfTask(mgr[m].task)

(* The container ends and has written its result file. *)
AnalysisEnds(m) ==
    /\ mgr[m].pc = "analyse"
    /\ volume' = [volume EXCEPT ![NameOf[PackageFor(m)]] = PackageFor(m)]
    /\ Goto(m, "read")
    /\ UNCHANGED <<table, clock, expired, reports, orphans, redis, crowded, faults>>

(* The analysis was given up inside the container, which exits with 0 all the
   same (cmd/analyze logs the error) and writes nothing. *)
AnalysisAborts(m) ==
    /\ mgr[m].pc = "analyse"
    /\ Fault
    /\ Goto(m, "read")
    /\ UNCHANGED <<table, clock, expired, reports, volume, orphans, redis, crowded>>

(* Docker or the container returns another code. *)
AnalysisFails(m) ==
    /\ mgr[m].pc = "analyse"
    /\ Fault
    /\ Goto(m, "fail")
    /\ UNCHANGED <<table, clock, expired, reports, volume, orphans, redis, crowded>>

(* A file there is, from this analysis or an earlier one, is the result. *)
get_result_file(m) ==
    LET found == volume[NameOf[PackageFor(m)]]
    IN  /\ mgr[m].pc = "read"
        /\ mgr' = [mgr EXCEPT ![m].pc = IF found = None THEN "fail" ELSE "heartbeat",
                                               ![m].result = found]
        /\ UNCHANGED <<table, clock, expired, reports, volume, orphans, redis, crowded,
                       faults>>

Heartbeat(m) ==
    /\ mgr[m].pc = "heartbeat"
    /\ SaveCopy(m, mgr[m].copy)
    /\ Goto(m, "save")
    /\ UNCHANGED <<clock, expired, reports, volume, orphans, redis, crowded, faults>>

HasReportRow(p) == \E i \in DOMAIN reports : reports[i].package = p

(* save_report: a second report for a package is refused.  A large one goes to
   Redis and leaves a reference; Redis may fail, which is only logged. *)
save_report(m) ==
    LET p == PackageFor(m)
        large == p \in LargeReports
        row == [package |-> p, content |-> mgr[m].result, large |-> large]
    IN  /\ mgr[m].pc = "save"
        /\ ~HasReportRow(p)
        /\ reports' = Append(reports, row)
        /\ \/ ~large /\ UNCHANGED <<redis, faults>>
           \/ large /\ redis' = [redis EXCEPT !.db[p] = mgr[m].result] /\ UNCHANGED faults
           \/ large /\ Fault /\ UNCHANGED redis
        /\ Goto(m, "link")
        /\ UNCHANGED <<table, clock, expired, volume, orphans, crowded>>

save_report_refused(m) ==
    /\ mgr[m].pc = "save"
    /\ HasReportRow(PackageFor(m))
    /\ Goto(m, "fail")
    /\ UNCHANGED <<table, clock, expired, reports, volume, orphans, redis, crowded,
                   faults>>

Latest == reports[Len(reports)].package

\* Mutant: the task is linked to the first report.
LinkReportFirst(m) ==
    LET copy == [mgr[m].copy EXCEPT !.status = "completed", !.report = reports[1].package]
    IN  /\ mgr[m].pc = "link"
        /\ SaveCopy(m, copy)
        /\ mgr' = [mgr EXCEPT ![m].pc = "publish", ![m].copy = copy]
        /\ UNCHANGED <<clock, expired, reports, volume, orphans, redis, crowded, faults>>

(* The task is completed with the report of the highest id. *)
LinkReport(m) ==
    LET copy == [mgr[m].copy EXCEPT !.status = "completed", !.report = Latest]
    IN  /\ mgr[m].pc = "link"
        /\ ~ReportTaken(table, mgr[m].task, Latest)
        /\ SaveCopy(m, copy)
        /\ mgr' = [mgr EXCEPT ![m].pc = "publish", ![m].copy = copy]
        /\ UNCHANGED <<clock, expired, reports, volume, orphans, redis, crowded, faults>>

(* Another row has that report.  The error handler saves the same object, is
   refused again, and leaves the row running. *)
LinkRefused(m) ==
    /\ mgr[m].pc = "link"
    /\ ReportTaken(table, mgr[m].task, Latest)
    /\ Loop(m)
    /\ UNCHANGED <<table, clock, expired, reports, volume, orphans, redis, crowded,
                   faults>>

ReportOf(p) == LET i == CHOOSE j \in DOMAIN reports : reports[j].package = p IN reports[i]

(* What a client is shown of a report: the row's content, or that of Redis
   while it is there; a reference without the report after that. *)
get_report(p) == IF ReportOf(p).large THEN redis.db[p] ELSE ReportOf(p).content

(* save_professional_report keeps a copy that is already there, and without
   one stores the report, or the bare reference when Redis has lost it. *)
save_professional_report(m) ==
    LET p == PackageFor(m)
    IN  /\ mgr[m].pc = "publish"
        /\ redis' = IF redis.download[p] # None THEN redis
                    ELSE [redis EXCEPT !.download[p] = get_report(mgr[m].copy.report)]
        /\ SaveCopy(m, mgr[m].copy)
        /\ Goto(m, "renumber")
        /\ UNCHANGED <<clock, expired, reports, volume, orphans, crowded, faults>>

MarkFailed(m) ==
    /\ mgr[m].pc = "fail"
    /\ SaveCopy(m, [mgr[m].copy EXCEPT !.status = "failed", !.pos = 0])
    /\ Goto(m, "renumber")
    /\ UNCHANGED <<clock, expired, reports, volume, orphans, redis, crowded, faults>>

-----------------------------------------------------------------------------
(* Faults and time. *)

(* The process ends, by a signal (stop_worker waits at most ten seconds for a
   daemon thread) or a crash.  Its docker client and container go on. *)
ProcessEnds(m) ==
    /\ Up(m)
    /\ Fault
    /\ mgr' = [mgr EXCEPT ![m] = Down]
    /\ orphans' = IF mgr[m].pc = "analyse" THEN orphans \cup {PackageFor(m)} ELSE orphans
    /\ UNCHANGED <<table, clock, expired, reports, volume, redis, crowded>>

OrphanEnds(p) ==
    /\ p \in orphans
    /\ orphans' = orphans \ {p}
    /\ volume' = [volume EXCEPT ![NameOf[p]] = p]
    /\ UNCHANGED <<table, clock, expired, reports, redis, mgr, crowded, faults>>

(* timeout_minutes have passed since the row was started. *)
Expires(t) ==
    /\ table[t].status = "running" /\ t \notin expired
    /\ expired' = expired \cup {t}
    /\ UNCHANGED <<table, clock, reports, volume, orphans, redis, mgr, crowded, faults>>

RedisExpires(p) ==
    /\ Fault
    /\ \/ redis.db[p] # None /\ redis' = [redis EXCEPT !.db[p] = None]
       \/ redis.download[p] # None /\ redis' = [redis EXCEPT !.download[p] = None]
    /\ UNCHANGED <<table, clock, expired, reports, volume, orphans, mgr, crowded>>

-----------------------------------------------------------------------------
Thread(m) ==
    \/ check_timeouts(m) \/ _handle_timed_out_task(m)
    \/ ReadQueue(m) \/ _update_queue_positions(m)
    \/ RunningTask(m) \/ NoRunningTask(m)
    \/ NextTaskNone(m) \/ NextTask(m)
    \/ MarkRunning(m)
    \/ AnalysisEnds(m) \/ AnalysisAborts(m) \/ AnalysisFails(m)
    \/ get_result_file(m)
    \/ Heartbeat(m)
    \/ save_report(m) \/ save_report_refused(m)
    \/ LinkReport(m) \/ LinkRefused(m)
    \/ save_professional_report(m)
    \/ MarkFailed(m)

Next ==
    \/ \E r \in Requests : CreateTask(r) \/ NextPosition(r) \/ Expires(r)
    \/ \E m \in Managers, r \in Requests : add_task_to_queue(m, r)
    \/ \E m \in Managers : StartWorker(m) \/ Thread(m) \/ ProcessEnds(m)
    \/ \E p \in Packages : OrphanEnds(p) \/ RedisExpires(p)

Spec == Init /\ [][Next]_vars

(* Threads run and containers end; a row that stays running times out; the
   process manager restarts a process that ended. *)
FairSpec ==
    /\ Spec
    /\ \A m \in Managers : WF_vars(Thread(m)) /\ WF_vars(StartWorker(m))
    /\ \A r \in Requests : WF_vars(Expires(r))

-----------------------------------------------------------------------------
(* Properties.  "Unless crowded" is: while no two threads were ever up at one
   time, which nothing in the code prevents. *)

(* Some rows, as a thread holds them in memory. *)
RowMaps == UNION {[S -> Row] : S \in SUBSET Requests}

ThreadState == [pc : Steps, task : Requests \cup {NoTask}, copy : Row,
                result : Packages \cup {None}, rows : RowMaps]

\* A queued row never shows the position 0, which stands for running.
PositionsShown == \A r \in queue_status_api.queued : task_queue_position_api(r) > 0

\* The columns, files, Redis entries and threads have their types.
TypeOK ==
    /\ table \in [Requests -> Row]
    /\ clock \in Nat
    /\ expired \subseteq Requests
    /\ reports \in Seq([package : Packages, content : Packages, large : BOOLEAN])
    /\ volume \in [Names -> Packages \cup {None}]
    /\ orphans \subseteq Packages
    /\ redis \in [db : [Packages -> Packages \cup {None}],
                  download : [Packages -> Packages \cup {None}]]
    /\ mgr \in [Managers -> ThreadState]
    /\ crowded \in BOOLEAN
    /\ faults \in 0 .. MaxFaults

status == [r \in Requests |-> table[r].status]

Lifecycle == INSTANCE TaskLifecycle WITH Tasks <- Requests

\* "Ensures only one container runs at a time" (queue_manager.py): unless
\* crowded, threads that crash, restart and time rows out move the rows as
\* TaskLifecycle allows, one running at a time, although the copy of a row
\* that is saved is older than the row.
QueueImplementsLifecycle == [][crowded' \/ Lifecycle!Next]_status

\* The thread links the newest report and reads the file of its package's name:
\* unless crowded, every completed row has its own report, at most one per
\* package, and the report is about a package of that name; without a fault
\* (an aborted analysis, an orphan that writes late) about that very package.
OwnReport ==
    /\ \A i, j \in DOMAIN reports : reports[i].package = reports[j].package => i = j
    /\ \A i \in DOMAIN reports :
        /\ NameOf[reports[i].content] = NameOf[reports[i].package]
        /\ ~crowded /\ faults = 0 => reports[i].content = reports[i].package
    /\ ~crowded => \A r \in Requests :
            task_status_api(r).status = "completed" => task_status_api(r).result = PackageOfTask(r)

\* _worker_loop: every row that is queued ends as completed or failed, through
\* crashes, timeouts, failed analyses and rows that two threads run at once.
EventuallyServed ==
    \A r \in Requests :
        task_status_api(r).status = "queued" ~>
            task_status_api(r).status \in {"completed", "failed"}

=============================================================================
