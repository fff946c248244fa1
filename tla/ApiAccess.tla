------------------------------ MODULE ApiAccess ------------------------------
(***************************************************************************)
(* The gate of the REST API: require_api_key and check_rate_limit          *)
(* (package_analysis/auth.py), one API key, and the two views behind it    *)
(* that a client combines: analyze_api creates a task, list_tasks_api is   *)
(* paged through while tasks are created.                                  *)
(*                                                                         *)
(* The threads of one Django process run the decorator at the same time.   *)
(* The count of the key is in the cache of the process (CACHES is not set: *)
(* LocMemCache); get and set lock the cache, but not from one to the       *)
(* other.  The key's row is read once and its last_used saved later, while *)
(* an administrator may change is_active.  Hour ticks make an hour.        *)
(***************************************************************************)
EXTENDS Naturals, FiniteSets, FiniteSetsExt

CONSTANTS
    Threads,    \* request threads of the process
    Limit,      \* rate_limit_per_hour of the key
    Hour,       \* ticks in the 3600 seconds a count is cached
    PageSize,   \* page_size the client asks for
    MaxTasks    \* bound on the tasks created with the key

ASSUME ApiAssumption ==
    /\ Limit \in Nat \ {0} /\ Hour \in Nat \ {0}
    /\ PageSize \in Nat /\ MaxTasks \in Nat

VARIABLES
    active,    \* APIKey.is_active
    wanted,    \* history: what the administrator last made of is_active
    count,     \* api_rate_limit_<key> in the cache, 0 without an entry
    ttl,       \* ticks until the entry expires
    age,       \* history: ticks since the n-th last admission, at most Hour
    overlap,   \* history: two checks overlapped since the window was empty
    thread,    \* per thread: the request it handles
    tasks,     \* ids of the key's AnalysisTask rows, in the order of created_at
    created,   \* number of rows created so far
    client     \* what the client that pages has seen

gate == <<count, ttl, age, overlap>>
keyRow == <<active, wanted>>
table == <<tasks, created, client>>
vars == <<keyRow, gate, thread, table>>

Steps == {"idle", "lookup", "get", "set", "touch", "view"}

Views == {"analyze", "list"}

NoRequest == [pc |-> "idle", view |-> "list", copy |-> FALSE, seen |-> 0]

NotPaging == [page |-> 0, start |-> {}, seen |-> {}, deleted |-> FALSE]

Init ==
    /\ active = TRUE /\ wanted = TRUE
    /\ count = 0 /\ ttl = 0
    /\ age = [n \in 1 .. Limit + 1 |-> Hour]
    /\ overlap = FALSE
    /\ thread = [t \in Threads |-> NoRequest]
    /\ tasks = {} /\ created = 0
    /\ client = NotPaging

Goto(t, pc) == thread' = [thread EXCEPT ![t].pc = pc]

(* A response: 401, 429 or the view's. *)
Respond(t) == thread' = [thread EXCEPT ![t] = NoRequest]

-----------------------------------------------------------------------------
(* require_api_key. *)

(* A request with a key in one of its two headers; without one, or with a key
   that is not in the table, the answer is 401 and nothing is stored. *)
Receive(t, view) ==
    /\ thread[t].pc = "idle"
    /\ thread' = [thread EXCEPT ![t] = [NoRequest EXCEPT !.pc = "lookup", !.view = view]]
    /\ UNCHANGED <<keyRow, gate, table>>

(* APIKey.objects.get(key=api_key, is_active=True) *)
LookupKey(t) ==
    /\ thread[t].pc = "lookup"
    /\ IF active THEN thread' = [thread EXCEPT ![t].pc = "get", ![t].copy = active]
                 ELSE Respond(t)
    /\ UNCHANGED <<keyRow, gate, table>>

Exceeded(n) == n >= Limit

(* Another check has read the count and not stored its own yet. *)
Overlapped(t) == \E u \in Threads \ {t} : thread[u].pc = "set"

\* Mutant: a refused request counts as a use of the window.
ReadCountRefreshes(t) ==
    /\ thread[t].pc = "get"
    /\ IF Exceeded(count) THEN Respond(t) /\ ttl' = Hour /\ UNCHANGED overlap
       ELSE /\ thread' = [thread EXCEPT ![t].pc = "set", ![t].seen = count]
            /\ overlap' = (overlap \/ Overlapped(t))
            /\ UNCHANGED ttl
    /\ UNCHANGED <<keyRow, count, age, table>>

(* cache.get, and 429 at the limit: the entry's expiry is left alone. *)
ReadCount(t) ==
    /\ thread[t].pc = "get"
    /\ IF Exceeded(count) THEN Respond(t) /\ UNCHANGED overlap
       ELSE /\ thread' = [thread EXCEPT ![t].pc = "set", ![t].seen = count]
            /\ overlap' = (overlap \/ Overlapped(t))
    /\ UNCHANGED <<keyRow, count, ttl, age, table>>

Admit == age' = [n \in 1 .. Limit + 1 |-> IF n = 1 THEN 0 ELSE age[n - 1]]

\* Mutant: the hour starts with the first request of a window.
SetCountKeepsExpiry(t) ==
    /\ thread[t].pc = "set"
    /\ count' = thread[t].seen + 1
    /\ ttl' = IF count = 0 THEN Hour ELSE ttl
    /\ Admit
    /\ Goto(t, "touch")
    /\ UNCHANGED <<keyRow, overlap, table>>

(* cache.set(count + 1, 3600): what was read, plus one, for another hour. *)
SetCount(t) ==
    /\ thread[t].pc = "set"
    /\ count' = thread[t].seen + 1
    /\ ttl' = Hour
    /\ Admit
    /\ Goto(t, "touch")
    /\ UNCHANGED <<keyRow, overlap, table>>

\* Mutant: save() without update_fields writes every column.
TouchKeyWhole(t) ==
    /\ thread[t].pc = "touch"
    /\ active' = thread[t].copy
    /\ Goto(t, "view")
    /\ UNCHANGED <<wanted, gate, table>>

(* save(update_fields=['last_used']): is_active is not written back. *)
TouchKey(t) ==
    /\ thread[t].pc = "touch"
    /\ Goto(t, "view")
    /\ UNCHANGED <<keyRow, gate, table>>

-----------------------------------------------------------------------------
(* The views. *)

(* analyze_api ends with a new row for the key (CeleryTasks has the rest). *)
analyze_api(t) ==
    /\ thread[t].pc = "view" /\ thread[t].view = "analyze"
    /\ created < MaxTasks
    /\ created' = created + 1
    /\ tasks' = tasks \cup {created + 1}
    /\ Respond(t)
    /\ UNCHANGED <<keyRow, gate, client>>

(* A cached result, an active task or an error: no new row. *)
analyze_api_reuses(t) ==
    /\ thread[t].pc = "view" /\ thread[t].view = "analyze"
    /\ Respond(t)
    /\ UNCHANGED <<keyRow, gate, table>>

page_size == Min({100, Max({1, PageSize})})

\* Mutant: pages are counted from zero.
page_items_from_zero(page) ==
    {x \in tasks : Cardinality({y \in tasks : y > x}) \in page * page_size .. (page + 1) * page_size - 1}

(* qs[start:end] of the rows, newest first. *)
page_items(page) ==
    {x \in tasks :
        Cardinality({y \in tasks : y > x}) \in (page - 1) * page_size .. page * page_size - 1}

(* The client asks for page 1, 2, ... until a page is empty.  (Page 0 would
   make start negative, which the query set refuses: 500.) *)
list_tasks_api(t) ==
    LET first == client.page = 0
        page == IF first THEN 1 ELSE client.page
        items == page_items(page)
    IN  /\ thread[t].pc = "view" /\ thread[t].view = "list"
        /\ client' = [page |-> IF items = {} THEN 0 ELSE page + 1,
                      start |-> IF first THEN tasks ELSE client.start,
                      seen |-> (IF first THEN {} ELSE client.seen) \cup items,
                      deleted |-> ~first /\ client.deleted]
        /\ Respond(t)
        /\ UNCHANGED <<keyRow, gate, tasks, created>>

-----------------------------------------------------------------------------
(* The administrator, the periodic cleanup and time. *)

SetActive(b) ==
    /\ active' = b /\ wanted' = b
    /\ UNCHANGED <<gate, thread, table>>

cleanup_old_tasks(x) ==
    /\ x \in tasks
    /\ tasks' = tasks \ {x}
    /\ client' = [client EXCEPT !.deleted = TRUE]
    /\ UNCHANGED <<keyRow, gate, thread, created>>

(* The entry expires an hour after the last cache.set. *)
Tick ==
    /\ ttl' = IF ttl > 0 THEN ttl - 1 ELSE 0
    /\ count' = IF ttl > 1 THEN count ELSE 0
    /\ age' = [n \in 1 .. Limit + 1 |-> IF age[n] < Hour THEN age[n] + 1 ELSE Hour]
    /\ overlap' = (overlap /\ ~(ttl <= 1 /\ \A t \in Threads : thread[t].pc # "set"))
    /\ UNCHANGED <<keyRow, thread, table>>

Thread(t) ==
    \/ \E v \in Views : Receive(t, v)
    \/ LookupKey(t) \/ ReadCount(t) \/ SetCount(t) \/ TouchKey(t)
    \/ analyze_api(t) \/ analyze_api_reuses(t) \/ list_tasks_api(t)

Next ==
    \/ \E t \in Threads : Thread(t)
    \/ \E b \in BOOLEAN : SetActive(b)
    \/ \E x \in tasks : cleanup_old_tasks(x)
    \/ Tick

Spec == Init /\ [][Next]_vars

(* Time passes; nothing else has to happen. *)
FairSpec == Spec /\ WF_vars(Tick)

-----------------------------------------------------------------------------
(* Properties. *)

\* The types of the state; the count never exceeds the limit.
TypeOK ==
    /\ active \in BOOLEAN /\ wanted \in BOOLEAN
    /\ count \in 0 .. Limit
    /\ ttl \in 0 .. Hour
    /\ age \in [1 .. Limit + 1 -> 0 .. Hour]
    /\ overlap \in BOOLEAN
    /\ thread \in [Threads -> [pc : Steps, view : Views, copy : BOOLEAN, seen : 0 .. Limit]]
    /\ tasks \subseteq 1 .. created /\ created \in 0 .. MaxTasks
    /\ client \in [page : Nat, start : SUBSET (1 .. created), seen : SUBSET (1 .. created),
                   deleted : BOOLEAN]

\* "Maximum requests per hour": of any Limit + 1 admitted requests the first is an
\* hour older than the last, unless two checks of check_rate_limit overlapped (its
\* get and set are not one step), and then until an hour without requests has
\* passed.
LimitKept == overlap \/ age[Limit + 1] >= Hour

\* A key the administrator revoked stays revoked: no request that had read the
\* key before writes is_active back when it saves last_used.
RevocationHolds == active = wanted

\* A client that goes on asking at the limit is admitted again: the requests
\* that are refused do not renew the hour.
EventuallyAdmitted == Exceeded(count) ~> ~Exceeded(count)

\* A client that pages through its tasks until a page is empty has seen every
\* task there was when it began, although new tasks move the others to later
\* pages; a deletion on the way may make it miss one.
PagesComplete ==
    client.page = 0 /\ ~client.deleted => client.start \subseteq client.seen

=============================================================================
