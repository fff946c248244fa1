---------------------------- MODULE AnalysisTable ----------------------------
(***************************************************************************)
(* The PostgreSQL tables that every dispatcher of the web application      *)
(* shares (package_analysis/models.py) and the queries they are read with. *)
(*                                                                         *)
(* An HTTP request creates at most one AnalysisTask row, so a row is named *)
(* by the request that creates it: "task r" is the row of request r, and   *)
(* the columns a row is created with (purl, priority, idempotency key) are *)
(* constant functions of r.  A table is a function from task ids to rows;  *)
(* the status "absent" stands for a row that is not in the table.          *)
(*                                                                         *)
(* Every package has at most one ReportDynamicAnalysis row (package is a   *)
(* OneToOneField), so a report is named by its package.                    *)
(***************************************************************************)
EXTENDS Naturals, FiniteSets

CONSTANTS
    Requests,    \* HTTP requests, and the AnalysisTask rows they create
    Packages,    \* (ecosystem, name, version) triples: rows of Package
    Purls,       \* package URLs
    PurlOf,      \* purl column of each task
    PackageOf,   \* the package a purl is parsed into
    PriorityOf,  \* priority column of each task
    Keys,        \* idempotency keys
    KeyOf,       \* idempotency_key column of each task
    NoKey,       \* NULL idempotency_key
    NoReport,    \* NULL report_id
    NoTask       \* no AnalysisTask row

ASSUME TableAssumption ==
    /\ IsFiniteSet(Requests)
    /\ NoTask \notin Requests
    /\ NoReport \notin Packages
    /\ NoKey \notin Keys
    /\ PurlOf \in [Requests -> Purls]
    /\ PackageOf \in [Purls -> Packages]
    /\ PriorityOf \in [Requests -> Nat]
    /\ KeyOf \in [Requests -> Keys \cup {NoKey}]

-----------------------------------------------------------------------------
(* Rows.  pos is queue_position (0 for NULL) and qat orders queued_at (0 for
   NULL).  The columns that nothing reads back (error_message,
   download_url, last_heartbeat...) are left out.                          *)

Statuses == {"absent", "pending", "queued", "running", "completed", "failed"}

Row == [status : Statuses, report : Packages \cup {NoReport},
        pos : Nat, qat : Nat]

NoRow == [status |-> "absent", report |-> NoReport, pos |-> 0, qat |-> 0]

\* The package task t is about.
PackageOfTask(t) == PackageOf[PurlOf[t]]

-----------------------------------------------------------------------------
(* Queries.                                                                *)

\* AnalysisTask.objects.filter(status=...)
WithStatus(table, status) == {t \in Requests : table[t].status = status}

\* A completed row with a report.
HasResult(table, t) == table[t].status = "completed" /\ table[t].report # NoReport

\* Completed results for the purl of t in other rows: what smart caching
\* looks for before it analyses t.
OtherResults(table, t) ==
    {u \in Requests \ {t} : PurlOf[u] = PurlOf[t] /\ HasResult(table, u)}

\* The UNIQUE constraint behind AnalysisTask.report: another row already
\* refers to this report, so a row of t that did would be refused.
ReportTaken(table, t, report) == \E u \in Requests \ {t} : table[u].report = report

\* order_by('-priority', 'queued_at'): does t come no later than u?
ServedBefore(table, t, u) ==
    \/ PriorityOf[t] > PriorityOf[u]
    \/ PriorityOf[t] = PriorityOf[u] /\ table[t].qat <= table[u].qat

\* .filter(status='queued').order_by('-priority', 'queued_at').first(), as a
\* set of at most one task.
HeadOfQueue(table) ==
    LET queued == WithStatus(table, "queued")
    IN  {t \in queued : \A u \in queued : ServedBefore(table, t, u)}

=============================================================================
