---------------------------- MODULE WebQueueProofs ----------------------------
(***************************************************************************)
(* Proofs about the QueueManager: its types, the positions it shows, the   *)
(* reports it links, and that it implements TaskLifecycle while no two     *)
(* threads are up at one time; for any number of requests, processes and   *)
(* faults.                                                                 *)
(***************************************************************************)
EXTENDS WebQueue, FiniteSetTheorems, SequenceTheorems, WellFoundedInduction, TLAPS

-----------------------------------------------------------------------------
(* Positions. *)

(* A set of numbers has a least element. *)
LEMMA LeastNumber ==
    ASSUME NEW S, S \subseteq Nat, S # {}
    PROVE  \E x \in S : \A y \in S : x <= y
  <1>1. PICK x \in S : \A y \in S : ~(<<y, x>> \in OpToRel(<, Nat))
    BY NatLessThanWellFounded, WFMin
  <1>2. \A y \in S : ~(y < x)
    BY <1>1 DEF OpToRel
  <1> QED  BY <1>2

(* A finite set of numbers has a greatest one: a smallest set without would have
   one after an element is taken away. *)
LEMMA GreatestNumber ==
    ASSUME NEW S, S \subseteq Nat, IsFiniteSet(S), S # {}
    PROVE  \E x \in S : \A y \in S : y <= x
  <1> DEFINE Bad(T) == T \subseteq Nat /\ IsFiniteSet(T) /\ T # {} /\ ~\E x \in T : \A y \in T : y <= x
             Sizes == {n \in Nat : \E T \in SUBSET Nat : Bad(T) /\ Cardinality(T) = n}
  <1> SUFFICES ASSUME Bad(S) PROVE FALSE
    OBVIOUS
  <1>1. Cardinality(S) \in Sizes
    BY FS_CardinalityType
  <1>2. PICK n \in Sizes : \A k \in Sizes : n <= k
    BY <1>1, LeastNumber
  <1>3. PICK T \in SUBSET Nat : Bad(T) /\ Cardinality(T) = n
    BY <1>2
  <1>4. PICK x \in T : TRUE
    BY <1>3
  <1> DEFINE R == T \ {x}
  <1>5. IsFiniteSet(R) /\ Cardinality(R) = n - 1
    BY <1>3, <1>4, FS_RemoveElement
  <1>6. R # {}
    <2> SUFFICES ASSUME R = {} PROVE FALSE
      OBVIOUS
    <2>1. T = {x} /\ x \in Nat
      BY <1>3, <1>4
    <2> QED  BY <1>3, <2>1
  <1>7. CASE Bad(R)
    <2>1. n - 1 \in Nat
      BY <1>5, FS_CardinalityType
    <2>2. n - 1 \in Sizes
      BY <1>5, <1>7, <2>1
    <2> QED  BY <1>2, <2>2
  <1>8. CASE ~Bad(R)
    <2>1. PICK g \in R : \A y \in R : y <= g
      BY <1>3, <1>5, <1>6, <1>8
    <2>2. g \in Nat /\ x \in Nat /\ \A y \in T : y \in Nat
      BY <1>3, <1>4, <2>1
    <2>3. CASE g <= x
      <3>1. \A y \in T : y <= x
        BY <2>1, <2>2, <2>3
      <3> QED  BY <1>3, <1>4, <3>1
    <2>4. CASE ~(g <= x)
      <3>1. \A y \in T : y <= g
        BY <2>1, <2>2, <2>4
      <3> QED  BY <1>3, <2>1, <3>1
    <2> QED  BY <2>3, <2>4
  <1> QED  BY <1>7, <1>8

(* The last position of the queue is a number. *)
LEMMA LastPosition ==
    ASSUME TypeOK
    PROVE  MaxPosition(table) \in Nat
  <1> DEFINE P == {table[t].pos : t \in Queued(table)}
             Q == {0} \cup P
  <1>1. Queued(table) \subseteq Requests
    BY DEF Queued, WithStatus
  <1>2. IsFiniteSet(Queued(table))
    BY <1>1, TableAssumption, FS_Subset DEF TableAssumption
  <1>3. IsFiniteSet(P)
    <2> DEFINE f == [t \in Queued(table) |-> table[t].pos]
    <2>1. f \in Surjection(Queued(table), P)
      BY DEF Surjection
    <2> QED  BY <1>2, <2>1, FS_Surjection
  <1>4. IsFiniteSet(Q)
    BY <1>3, FS_EmptySet, FS_AddElement, FS_Union, FS_Singleton
  <1>5. Q \subseteq Nat
    BY <1>1 DEF TypeOK, Row
  <1>6. \E n \in Q : \A y \in Q : y <= n
    BY <1>4, <1>5, GreatestNumber
  <1>7. \E n \in Q : \A t \in Queued(table) : table[t].pos <= n
    BY <1>6
  <1>8. MaxPosition(table) \in Q
    BY <1>7 DEF MaxPosition
  <1> QED  BY <1>5, <1>8

(* A row that is renumbered gets a position from one on, and only that. *)
LEMMA RenumberedRows ==
    ASSUME TypeOK
    PROVE  /\ DOMAIN Renumbered = Queued(table) /\ Queued(table) \subseteq Requests
           /\ \A t \in Queued(table) : /\ Renumbered[t] \in Row
                                       /\ Renumbered[t].status = "queued"
                                       /\ Renumbered[t].pos # 0
  <1>1. Queued(table) \subseteq Requests /\ \A t \in Queued(table) : table[t].status = "queued"
    BY DEF Queued, WithStatus
  <1>2. DOMAIN Renumbered = Queued(table)
    BY DEF Renumbered
  <1>3. ASSUME NEW t \in Queued(table)
        PROVE  /\ Renumbered[t] \in Row
               /\ Renumbered[t].status = "queued"
               /\ Renumbered[t].pos # 0
    <2> DEFINE B == {u \in Queued(table) : ServedBefore(table, u, t)}
    <2>1. IsFiniteSet(B)
      <3>1. B \subseteq Requests
        BY <1>1
      <3> QED  BY <3>1, TableAssumption, FS_Subset DEF TableAssumption
    <2>2. t \in B
      BY <1>1, TableAssumption DEF ServedBefore, TypeOK, Row, TableAssumption
    <2>3. Cardinality(B) \in Nat /\ Cardinality(B) # 0
      BY <2>1, <2>2, FS_CardinalityType, FS_EmptySet
    <2>4. Renumbered[t] = [table[t] EXCEPT !.pos = Cardinality(B)]
      BY DEF Renumbered
    <2> HIDE DEF B
    <2>5. table[t] \in Row /\ table[t].status = "queued"
      BY <1>1 DEF TypeOK
    <2> QED  BY <2>3, <2>4, <2>5 DEF Row
  <1> QED  BY <1>1, <1>2, <1>3

-----------------------------------------------------------------------------
(* Rows. *)

(* The rows a step builds from others. *)
LEMMA BuiltRows ==
    /\ NoRow \in Row /\ NoRow.status = "absent" /\ NoRow.report = NoReport
    /\ \A row \in Row :
        /\ [row EXCEPT !.status = "pending"] \in Row
        /\ [row EXCEPT !.status = "pending"].status = "pending"
        /\ [row EXCEPT !.status = "failed", !.pos = 0] \in Row
        /\ [row EXCEPT !.status = "failed", !.pos = 0].status = "failed"
        /\ [row EXCEPT !.status = "running", !.pos = 0] \in Row
        /\ [row EXCEPT !.status = "running", !.pos = 0].status = "running"
    /\ \A row \in Row, n \in Nat :
        /\ [row EXCEPT !.pos = n] \in Row
        /\ [row EXCEPT !.pos = n].status = row.status
        /\ [row EXCEPT !.pos = n].report = row.report
        /\ [row EXCEPT !.status = "queued", !.qat = n] \in Row
        /\ [row EXCEPT !.status = "queued", !.qat = n].status = "queued"
        /\ [row EXCEPT !.status = "queued", !.qat = n].pos = row.pos
    /\ \A row \in Row, p \in Packages \cup {NoReport} :
        /\ [row EXCEPT !.status = "completed", !.report = p] \in Row
        /\ [row EXCEPT !.status = "completed", !.report = p].status = "completed"
        /\ [row EXCEPT !.status = "completed", !.report = p].report = p
  <1>1. NoRow \in Row /\ NoRow.status = "absent" /\ NoRow.report = NoReport
    BY DEF NoRow, Row, Statuses
  <1>2. ASSUME NEW row \in Row
        PROVE  /\ [row EXCEPT !.status = "pending"] \in Row
               /\ [row EXCEPT !.status = "pending"].status = "pending"
               /\ [row EXCEPT !.status = "failed", !.pos = 0] \in Row
               /\ [row EXCEPT !.status = "failed", !.pos = 0].status = "failed"
               /\ [row EXCEPT !.status = "running", !.pos = 0] \in Row
               /\ [row EXCEPT !.status = "running", !.pos = 0].status = "running"
    BY DEF Row, Statuses
  <1>3. ASSUME NEW row \in Row, NEW n \in Nat
        PROVE  /\ [row EXCEPT !.pos = n] \in Row
               /\ [row EXCEPT !.pos = n].status = row.status
               /\ [row EXCEPT !.pos = n].report = row.report
               /\ [row EXCEPT !.status = "queued", !.qat = n] \in Row
               /\ [row EXCEPT !.status = "queued", !.qat = n].status = "queued"
               /\ [row EXCEPT !.status = "queued", !.qat = n].pos = row.pos
    BY DEF Row, Statuses
  <1>4. ASSUME NEW row \in Row, NEW p \in Packages \cup {NoReport}
        PROVE  /\ [row EXCEPT !.status = "completed", !.report = p] \in Row
               /\ [row EXCEPT !.status = "completed", !.report = p].status = "completed"
               /\ [row EXCEPT !.status = "completed", !.report = p].report = p
    BY DEF Row, Statuses
  <1> QED  BY <1>1, <1>2, <1>3, <1>4

(* Rows in memory. *)
LEMMA MapsOfRows ==
    /\ NoRows \in RowMaps /\ DOMAIN NoRows = {}
    /\ \A f \in RowMaps : DOMAIN f \subseteq Requests /\ \A t \in DOMAIN f : f[t] \in Row
    /\ \A S \in SUBSET Requests : \A f \in [S -> Row] : f \in RowMaps
  BY DEF NoRows, RowMaps

(* Saving rows in memory changes those rows. *)
LEMMA SavedRows ==
    ASSUME table \in [Requests -> Row], NEW f \in RowMaps
    PROVE  /\ Saved(f) \in [Requests -> Row]
           /\ \A t \in Requests : Saved(f)[t] = IF t \in DOMAIN f THEN f[t] ELSE table[t]
  BY MapsOfRows DEF Saved

(* The thread that is down. *)
LEMMA ThreadDown ==
    /\ Down \in ThreadState
    /\ Down.pc = "down" /\ Down.task = NoTask /\ Down.rows = NoRows
  BY BuiltRows, MapsOfRows DEF Down, ThreadState, Steps

(* The thread at the top of its loop. *)
LEMMA LoopState ==
    /\ [Down EXCEPT !.pc = "loop"] \in ThreadState
    /\ [Down EXCEPT !.pc = "loop"].pc = "loop"
  BY ThreadDown DEF ThreadState, Steps

(* What is known of a task in hand. *)
TaskSteps == {"take", "analyse", "read", "heartbeat", "save", "link", "publish", "fail"}

InHand ==
    /\ \A m \in Managers : mgr[m].pc \in TaskSteps => mgr[m].task \in Requests
    /\ \A m \in Managers : mgr[m].pc \in {"heartbeat", "save"} => mgr[m].result \in Packages
    /\ \A m \in Managers : mgr[m].pc = "link" => reports # << >>
    /\ \A m \in Managers : mgr[m].pc = "publish" => HasReportRow(mgr[m].copy.report)

-----------------------------------------------------------------------------
(* What a step does, field by field. *)

Becomes(m, pc, task, copy, result, rows) ==
    /\ mgr' \in [Managers -> ThreadState]
    /\ mgr'[m].pc = pc /\ mgr'[m].task = task /\ mgr'[m].copy = copy
    /\ mgr'[m].result = result /\ mgr'[m].rows = rows
    /\ \A k \in Managers \ {m} : mgr'[k] = mgr[k]

RowSaved(t, row) ==
    /\ table' \in [Requests -> Row]
    /\ table'[t] = row
    /\ \A u \in Requests \ {t} : table'[u] = table[u]

(* A thread goes on to a step ... *)
LEMMA UpdatePc ==
    ASSUME mgr \in [Managers -> ThreadState], NEW m \in Managers, NEW pc \in Steps,
           mgr' = [mgr EXCEPT ![m].pc = pc]
    PROVE  Becomes(m, pc, mgr[m].task, mgr[m].copy, mgr[m].result, mgr[m].rows)
  BY DEF Becomes, ThreadState

(* ... with rows it has read, *)
LEMMA UpdateRows ==
    ASSUME mgr \in [Managers -> ThreadState], NEW m \in Managers, NEW pc \in Steps,
         NEW rows \in RowMaps,
           mgr' = [mgr EXCEPT ![m].pc = pc, ![m].rows = rows]
    PROVE  Becomes(m, pc, mgr[m].task, mgr[m].copy, mgr[m].result, rows)
  BY DEF Becomes, ThreadState

(* ... with a task, *)
LEMMA UpdateTask ==
    ASSUME mgr \in [Managers -> ThreadState], NEW m \in Managers, NEW pc \in Steps,
         NEW task \in Requests, NEW copy \in Row,
           mgr' = [mgr EXCEPT ![m].pc = pc, ![m].task = task, ![m].copy = copy]
    PROVE  Becomes(m, pc, task, copy, mgr[m].result, mgr[m].rows)
  BY DEF Becomes, ThreadState

(* ... with a changed copy of its task, *)
LEMMA UpdateCopy ==
    ASSUME mgr \in [Managers -> ThreadState], NEW m \in Managers, NEW pc \in Steps,
         NEW copy \in Row,
           mgr' = [mgr EXCEPT ![m].pc = pc, ![m].copy = copy]
    PROVE  Becomes(m, pc, mgr[m].task, copy, mgr[m].result, mgr[m].rows)
  BY DEF Becomes, ThreadState

(* ... or with a result. *)
LEMMA UpdateResult ==
    ASSUME mgr \in [Managers -> ThreadState], NEW m \in Managers, NEW pc \in Steps,
         NEW result \in Packages \cup {None},
           mgr' = [mgr EXCEPT ![m].pc = pc, ![m].result = result]
    PROVE  Becomes(m, pc, mgr[m].task, mgr[m].copy, result, mgr[m].rows)
  BY DEF Becomes, ThreadState

(* It returns to the top of its loop, or ends. *)
LEMMA UpdateAll ==
    ASSUME mgr \in [Managers -> ThreadState], NEW m \in Managers, NEW th \in ThreadState,
           mgr' = [mgr EXCEPT ![m] = th]
    PROVE  Becomes(m, th.pc, th.task, th.copy, th.result, th.rows)
  BY DEF Becomes, ThreadState

LoopsBack(m) == Becomes(m, "loop", NoTask, NoRow, None, NoRows)

(* The top of the loop is reached with nothing in hand. *)
LEMMA LoopEffect ==
    ASSUME TypeOK, NEW m \in Managers, Loop(m)
    PROVE  LoopsBack(m)
  <1> DEFINE th == [Down EXCEPT !.pc = "loop"]
  <1>1. th \in ThreadState
    BY LoopState
  <1>2. th.pc = "loop" /\ th.task = NoTask /\ th.copy = NoRow /\ th.result = None /\ th.rows = NoRows
    BY DEF Down
  <1>3. mgr' = [mgr EXCEPT ![m] = th]
    BY DEF Loop
  <1> HIDE DEF th
  <1>4. Becomes(m, th.pc, th.task, th.copy, th.result, th.rows)
    BY <1>1, <1>3, UpdateAll DEF TypeOK
  <1> QED  BY <1>2, <1>4 DEF LoopsBack

(* A thread is started only where there is none; unless it is crowded then, there
   was none anywhere. *)
Starts(m) ==
    \/ UNCHANGED <<mgr, crowded>>
    \/ /\ LoopsBack(m) /\ crowded' \in BOOLEAN
       /\ crowded' = FALSE => crowded = FALSE /\ \A k \in Managers : mgr[k].pc = "down"

LEMMA StartEffect ==
    ASSUME TypeOK, NEW m \in Managers, _start_worker_if_needed(m)
    PROVE  Starts(m)
  <1>1. CASE Up(m)
    BY <1>1 DEF _start_worker_if_needed, Starts
  <1>2. CASE ~Up(m)
    <2>1. Loop(m) /\ crowded' = (crowded \/ \E k \in Managers : Up(k))
      BY <1>2 DEF _start_worker_if_needed
    <2>2. crowded' = FALSE => crowded = FALSE /\ \A k \in Managers : mgr[k].pc = "down"
      BY <2>1 DEF TypeOK, Up
    <2>3. crowded' \in BOOLEAN
      BY <2>1
    <2> QED  BY <2>1, <2>2, <2>3, LoopEffect DEF Starts
  <1> QED  BY <1>1, <1>2

(* A row of the reports. *)
LEMMA ReportRows ==
    ASSUME TypeOK
    PROVE  /\ DOMAIN reports = 1 .. Len(reports) /\ Len(reports) \in Nat
           /\ \A i \in DOMAIN reports :
                reports[i] \in [package : Packages, content : Packages, large : BOOLEAN]
  <1> DEFINE S == [package : Packages, content : Packages, large : BOOLEAN]
  <1>1. reports \in Seq(S)
    BY DEF TypeOK
  <1> HIDE DEF S
  <1>2. DOMAIN reports = 1 .. Len(reports) /\ Len(reports) \in Nat
    BY <1>1, LenProperties
  <1>3. \A i \in DOMAIN reports : reports[i] \in S
    BY <1>1, <1>2, ElementOfSeq
  <1> QED  BY <1>2, <1>3 DEF S

(* A task that is completed. *)
LEMMA CompletedRow ==
    ASSUME NEW row \in Row, NEW p \in Packages
    PROVE  /\ [row EXCEPT !.status = "completed", !.report = p] \in Row
           /\ [row EXCEPT !.status = "completed", !.report = p].status = "completed"
           /\ [row EXCEPT !.status = "completed", !.report = p].report = p
  BY DEF Row, Statuses

(* One row of the table is saved. *)
LEMMA SaveRow ==
    ASSUME TypeOK, NEW t \in Requests, NEW row \in Row, table' = [table EXCEPT ![t] = row]
    PROVE  RowSaved(t, row)
  BY DEF TypeOK, RowSaved

(* A row is created. *)
LEMMA CreateTaskEffect ==
    ASSUME TypeOK, InHand, NEW r \in Requests, CreateTask(r)
    PROVE  /\ table[r].status = "absent"
           /\ \E row \in Row : RowSaved(r, row) /\ row.status = "pending"
           /\ UNCHANGED <<clock, expired, reports, volume, orphans, redis, mgr, crowded,
                          faults>>
  <1> DEFINE row == [table[r] EXCEPT !.status = "pending"]
  <1>1. row \in Row /\ row.status = "pending"
    BY BuiltRows DEF TypeOK
  <1>2. table' = [table EXCEPT ![r] = row]
    BY DEF CreateTask
  <1> HIDE DEF row
  <1> QED  BY <1>1, <1>2, SaveRow DEF CreateTask

(* It gets a position while it is pending ... *)
LEMMA NextPositionEffect ==
    ASSUME TypeOK, InHand, NEW r \in Requests, NextPosition(r)
    PROVE  /\ table[r].status = "pending"
           /\ \E row \in Row : RowSaved(r, row) /\ row.status = "pending"
           /\ UNCHANGED <<clock, expired, reports, volume, orphans, redis, mgr, crowded,
                          faults>>
  <1> DEFINE row == [table[r] EXCEPT !.pos = MaxPosition(table) + 1]
  <1>1. MaxPosition(table) + 1 \in Nat
    BY LastPosition
  <1>2. row \in Row /\ row.status = "pending"
    <2>1. table[r] \in Row /\ table[r].status = "pending"
      BY DEF TypeOK, NextPosition
    <2> QED  BY <1>1, <2>1 DEF Row
  <1>3. table' = [table EXCEPT ![r] = row]
    BY DEF NextPosition
  <1> HIDE DEF row
  <1> QED  BY <1>2, <1>3, SaveRow DEF NextPosition

(* ... and is queued there. *)
LEMMA AddTaskToQueueEffect ==
    ASSUME TypeOK, InHand, NEW m \in Managers, NEW r \in Requests, add_task_to_queue(m, r)
    PROVE  /\ table[r].status = "pending"
           /\ \E row \in Row : RowSaved(r, row) /\ row.status = "queued" /\ row.pos # 0
           /\ clock' \in Nat
           /\ Starts(m)
           /\ UNCHANGED <<expired, reports, volume, orphans, redis, faults>>
  <1> DEFINE row == [table[r] EXCEPT !.status = "queued", !.qat = clock]
  <1>1. row \in Row /\ row.status = "queued" /\ row.pos # 0
    <2>1. table[r] \in Row /\ clock \in Nat /\ table[r].pos # 0
      BY DEF TypeOK, add_task_to_queue
    <2> QED  BY <2>1 DEF Row, Statuses
  <1>2. table' = [table EXCEPT ![r] = row]
    BY DEF add_task_to_queue
  <1> HIDE DEF row
  <1>3. RowSaved(r, row)
    BY <1>1, <1>2, SaveRow
  <1>4. clock' \in Nat
    BY DEF TypeOK, add_task_to_queue
  <1>5. Starts(m)
    BY StartEffect DEF add_task_to_queue
  <1> QED  BY <1>1, <1>3, <1>4, <1>5 DEF add_task_to_queue

(* A running row runs out of time. *)
LEMMA ExpiresEffect ==
    ASSUME TypeOK, InHand, NEW r \in Requests, Expires(r)
    PROVE  /\ expired' \subseteq Requests
           /\ UNCHANGED <<table, clock, reports, volume, orphans, redis, mgr, crowded,
                          faults>>
  BY DEF Expires, TypeOK

(* A thread is started. *)
LEMMA StartWorkerEffect ==
    ASSUME TypeOK, InHand, NEW m \in Managers, StartWorker(m)
    PROVE  /\ Starts(m)
           /\ UNCHANGED <<table, clock, expired, reports, volume, orphans, redis, faults>>
  BY StartEffect DEF StartWorker

(* A process ends, and only its container goes on. *)
LEMMA ProcessEndsEffect ==
    ASSUME TypeOK, InHand, NEW m \in Managers, ProcessEnds(m)
    PROVE  /\ Becomes(m, "down", NoTask, NoRow, None, NoRows)
           /\ orphans' \subseteq Packages
           /\ faults < MaxFaults /\ faults' = faults + 1
           /\ UNCHANGED <<table, clock, expired, reports, volume, redis, crowded>>
  <1>1. Becomes(m, Down.pc, Down.task, Down.copy, Down.result, Down.rows)
    BY ThreadDown, UpdateAll DEF ProcessEnds, TypeOK
  <1>2. Becomes(m, "down", NoTask, NoRow, None, NoRows)
    BY <1>1 DEF Down
  <1>3. orphans' \subseteq Packages
    <2>1. mgr[m].pc = "analyse" => PackageFor(m) \in Packages
      BY TableAssumption DEF InHand, TaskSteps, PackageFor, PackageOfTask, TableAssumption
    <2> QED  BY <2>1 DEF ProcessEnds, TypeOK
  <1> QED  BY <1>2, <1>3 DEF ProcessEnds, Fault

(* A container without a process writes its result. *)
LEMMA OrphanEndsEffect ==
    ASSUME TypeOK, InHand, NEW p \in Packages, OrphanEnds(p)
    PROVE  /\ p \in orphans /\ orphans' \subseteq Packages
           /\ volume' = [volume EXCEPT ![NameOf[p]] = p]
           /\ UNCHANGED <<table, clock, expired, reports, redis, mgr, crowded, faults>>
  BY DEF OrphanEnds, TypeOK

(* An entry of Redis expires. *)
LEMMA RedisExpiresEffect ==
    ASSUME TypeOK, InHand, NEW p \in Packages, RedisExpires(p)
    PROVE  /\ redis' \in [db : [Packages -> Packages \cup {None}],
                      download : [Packages -> Packages \cup {None}]]
           /\ faults < MaxFaults /\ faults' = faults + 1
           /\ UNCHANGED <<table, clock, expired, reports, volume, orphans, mgr, crowded>>
  <1>1. redis' = [redis EXCEPT !.db[p] = None] \/ redis' = [redis EXCEPT !.download[p] = None]
    BY DEF RedisExpires
  <1> QED  BY <1>1 DEF RedisExpires, Fault, TypeOK

(* The running rows that are late are read. *)
LEMMA CheckTimeoutsEffect ==
    ASSUME TypeOK, InHand, NEW m \in Managers, check_timeouts(m)
    PROVE  /\ mgr[m].pc = "loop"
           /\ \E pc \in {"next", "timeouts"}, rows \in RowMaps :
                /\ Becomes(m, pc, mgr[m].task, mgr[m].copy, mgr[m].result, rows)
                /\ \A t \in DOMAIN rows : rows[t] \in Row /\ table[t].status = "running" /\ rows[t].status = "running"
           /\ UNCHANGED <<table, clock, expired, reports, volume, orphans, redis,
                          crowded, faults>>
  <1> DEFINE late == timeout_status_api
             rows == [t \in late |-> table[t]]
             pc == IF late = {} THEN "next" ELSE "timeouts"
  <1>1. late \subseteq Requests /\ \A t \in late : table[t].status = "running"
    BY DEF timeout_status_api, queue_status_api, WithStatus
  <1>2. rows \in [late -> Row] /\ \A t \in late : rows[t] = table[t]
    BY <1>1 DEF TypeOK
  <1>3. rows \in RowMaps
    BY <1>1, <1>2, MapsOfRows
  <1>4. mgr' = [mgr EXCEPT ![m].pc = pc, ![m].rows = rows]
    BY DEF check_timeouts
  <1>5. pc \in {"next", "timeouts"} /\ pc \in Steps
    BY DEF Steps
  <1>6. DOMAIN rows = late
    OBVIOUS
  <1> HIDE DEF rows, pc, late
  <1>7. Becomes(m, pc, mgr[m].task, mgr[m].copy, mgr[m].result, rows)
    BY <1>3, <1>4, <1>5, UpdateRows DEF TypeOK
  <1> QED  BY <1>1, <1>2, <1>3, <1>5, <1>6, <1>7 DEF check_timeouts

(* They are failed. *)
LEMMA HandleTimedOutTaskEffect ==
    ASSUME TypeOK, InHand, NEW m \in Managers, _handle_timed_out_task(m)
    PROVE  /\ mgr[m].pc = "timeouts"
           /\ Becomes(m, "renumber", mgr[m].task, mgr[m].copy, mgr[m].result, NoRows)
           /\ table' \in [Requests -> Row]
           /\ DOMAIN mgr[m].rows \subseteq Requests
           /\ \A t \in DOMAIN mgr[m].rows : table'[t].status = "failed"
           /\ \A t \in Requests \ DOMAIN mgr[m].rows : table'[t] = table[t]
           /\ UNCHANGED <<clock, expired, reports, volume, orphans, redis, crowded,
                          faults>>
  <1> DEFINE late == mgr[m].rows
             rows == [t \in DOMAIN late |-> [late[t] EXCEPT !.status = "failed", !.pos = 0]]
  <1>1. late \in RowMaps
    BY DEF TypeOK, ThreadState
  <1>2. DOMAIN late \subseteq Requests /\ \A t \in DOMAIN late : late[t] \in Row
    BY <1>1, MapsOfRows
  <1>3. rows \in [DOMAIN late -> Row] /\ \A t \in DOMAIN late : rows[t].status = "failed"
    BY <1>2, BuiltRows
  <1>4. rows \in RowMaps /\ DOMAIN rows = DOMAIN late
    BY <1>2, <1>3, MapsOfRows
  <1>5. table' = Saved(rows)
    BY DEF _handle_timed_out_task
  <1>6. mgr' = [mgr EXCEPT ![m].pc = "renumber", ![m].rows = NoRows]
    BY DEF _handle_timed_out_task
  <1> HIDE DEF rows
  <1>7. /\ table' \in [Requests -> Row]
        /\ \A t \in Requests : table'[t] = IF t \in DOMAIN rows THEN rows[t] ELSE table[t]
    BY <1>4, <1>5, SavedRows DEF TypeOK
  <1>8. "renumber" \in Steps
    BY DEF Steps
  <1>9. Becomes(m, "renumber", mgr[m].task, mgr[m].copy, mgr[m].result, NoRows)
    BY <1>6, <1>8, MapsOfRows, UpdateRows DEF TypeOK
  <1>10. \A t \in DOMAIN late : rows[t] = table'[t]
    BY <1>2, <1>4, <1>7
  <1> QED  BY <1>2, <1>3, <1>4, <1>7, <1>9 DEF _handle_timed_out_task

(* The queue is read and numbered anew. *)
LEMMA ReadQueueEffect ==
    ASSUME TypeOK, InHand, NEW m \in Managers, ReadQueue(m)
    PROVE  /\ mgr[m].pc = "renumber"
           /\ \E rows \in RowMaps :
                /\ Becomes(m, "renumbered", mgr[m].task, mgr[m].copy, mgr[m].result, rows)
                /\ \A t \in DOMAIN rows : /\ table[t].status = "queued" /\ rows[t].status = "queued"
                                         /\ rows[t].pos # 0
           /\ UNCHANGED <<table, clock, expired, reports, volume, orphans, redis,
                          crowded, faults>>
  <1>1. /\ DOMAIN Renumbered = Queued(table) /\ Queued(table) \subseteq Requests
        /\ \A t \in Queued(table) : /\ Renumbered[t] \in Row
                                    /\ Renumbered[t].status = "queued"
                                    /\ Renumbered[t].pos # 0
    BY RenumberedRows
  <1>2. Renumbered \in [Queued(table) -> Row]
    BY <1>1 DEF Renumbered
  <1>3. Renumbered \in RowMaps
    BY <1>1, <1>2, MapsOfRows
  <1>4. \A t \in Queued(table) : table[t].status = "queued"
    BY DEF Queued, WithStatus
  <1>5. mgr' = [mgr EXCEPT ![m].pc = "renumbered", ![m].rows = Renumbered]
    BY DEF ReadQueue
  <1>6. "renumbered" \in Steps
    BY DEF Steps
  <1>7. Becomes(m, "renumbered", mgr[m].task, mgr[m].copy, mgr[m].result, Renumbered)
    BY <1>3, <1>5, <1>6, UpdateRows DEF TypeOK
  <1> QED  BY <1>1, <1>3, <1>4, <1>7 DEF ReadQueue

(* What was read is saved. *)
LEMMA UpdateQueuePositionsEffect ==
    ASSUME TypeOK, InHand, NEW m \in Managers, _update_queue_positions(m)
    PROVE  /\ mgr[m].pc = "renumbered"
           /\ \/ LoopsBack(m)
              \/ mgr[m].task = NoTask /\ Becomes(m, "next", NoTask, mgr[m].copy, mgr[m].result, NoRows)
           /\ table' \in [Requests -> Row]
           /\ DOMAIN mgr[m].rows \subseteq Requests
           /\ \A t \in DOMAIN mgr[m].rows : table'[t] = mgr[m].rows[t]
           /\ \A t \in Requests \ DOMAIN mgr[m].rows : table'[t] = table[t]
           /\ UNCHANGED <<clock, expired, reports, volume, orphans, redis, crowded,
                          faults>>
  <1>1. mgr[m].rows \in RowMaps
    BY DEF TypeOK, ThreadState
  <1>2. DOMAIN mgr[m].rows \subseteq Requests
    BY <1>1, MapsOfRows
  <1>3. table' = Saved(mgr[m].rows)
    BY DEF _update_queue_positions
  <1>4. /\ table' \in [Requests -> Row]
        /\ \A t \in Requests : table'[t] = IF t \in DOMAIN mgr[m].rows THEN mgr[m].rows[t] ELSE table[t]
    BY <1>1, <1>3, SavedRows DEF TypeOK
  <1>5. CASE mgr[m].task = NoTask
    <2>1. mgr' = [mgr EXCEPT ![m].pc = "next", ![m].rows = NoRows]
      BY <1>5 DEF _update_queue_positions
    <2>2. "next" \in Steps
      BY DEF Steps
    <2>3. Becomes(m, "next", mgr[m].task, mgr[m].copy, mgr[m].result, NoRows)
      BY <2>1, <2>2, MapsOfRows, UpdateRows DEF TypeOK
    <2> QED  BY <1>2, <1>4, <1>5, <2>3 DEF _update_queue_positions
  <1>6. CASE mgr[m].task # NoTask
    <2>1. LoopsBack(m)
      BY <1>6, LoopEffect DEF _update_queue_positions
    <2> QED  BY <1>2, <1>4, <2>1 DEF _update_queue_positions
  <1> QED  BY <1>5, <1>6

(* A row is running: nothing to do. *)
LEMMA RunningTaskEffect ==
    ASSUME TypeOK, InHand, NEW m \in Managers, RunningTask(m)
    PROVE  /\ mgr[m].pc = "next"
           /\ LoopsBack(m)
           /\ UNCHANGED <<table, clock, expired, reports, volume, orphans, redis,
                          crowded, faults>>
  BY LoopEffect DEF RunningTask

(* No row is running. *)
LEMMA NoRunningTaskEffect ==
    ASSUME TypeOK, InHand, NEW m \in Managers, NoRunningTask(m)
    PROVE  /\ mgr[m].pc = "next"
           /\ Becomes(m, "pick", mgr[m].task, mgr[m].copy, mgr[m].result, mgr[m].rows)
           /\ \A t \in Requests : table[t].status # "running"
           /\ UNCHANGED <<table, clock, expired, reports, volume, orphans, redis,
                          crowded, faults>>
  <1>1. "pick" \in Steps
    BY DEF Steps
  <1>2. mgr' = [mgr EXCEPT ![m].pc = "pick"]
    BY DEF NoRunningTask, Goto
  <1>3. Becomes(m, "pick", mgr[m].task, mgr[m].copy, mgr[m].result, mgr[m].rows)
    BY <1>1, <1>2, UpdatePc DEF TypeOK
  <1> QED  BY <1>3 DEF NoRunningTask, WithStatus

(* There is no next task. *)
LEMMA NextTaskNoneEffect ==
    ASSUME TypeOK, InHand, NEW m \in Managers, NextTaskNone(m)
    PROVE  /\ mgr[m].pc = "pick"
           /\ LoopsBack(m)
           /\ UNCHANGED <<table, clock, expired, reports, volume, orphans, redis,
                          crowded, faults>>
  BY LoopEffect DEF NextTaskNone

(* The head of the queue is read. *)
LEMMA NextTaskEffect ==
    ASSUME TypeOK, InHand, NEW m \in Managers, NextTask(m)
    PROVE  /\ mgr[m].pc = "pick"
           /\ \E t \in Requests : /\ table[t].status = "queued"
                                /\ Becomes(m, "take", t, table[t], mgr[m].result, mgr[m].rows)
           /\ UNCHANGED <<table, clock, expired, reports, volume, orphans, redis,
                          crowded, faults>>
  <1>1. PICK t \in FirstQueued : mgr' = [mgr EXCEPT ![m].pc = "take", ![m].task = t, ![m].copy = table[t]]
    BY DEF NextTask
  <1>2. t \in Requests /\ table[t].status = "queued"
    BY DEF FirstQueued, Queued, WithStatus
  <1>3. table[t] \in Row /\ "take" \in Steps
    BY <1>2 DEF TypeOK, Steps
  <1>4. Becomes(m, "take", t, table[t], mgr[m].result, mgr[m].rows)
    BY <1>1, <1>2, <1>3, UpdateTask DEF TypeOK
  <1> QED  BY <1>2, <1>4 DEF NextTask

(* The row is marked as running. *)
LEMMA MarkRunningEffect ==
    ASSUME TypeOK, InHand, NEW m \in Managers, MarkRunning(m)
    PROVE  /\ mgr[m].pc = "take" /\ mgr[m].task \in Requests
           /\ \E copy \in Row : /\ RowSaved(mgr[m].task, copy)
                            /\ Becomes(m, "analyse", mgr[m].task, copy, mgr[m].result, mgr[m].rows)
                            /\ copy.status = "running"
           /\ expired' \subseteq Requests
           /\ UNCHANGED <<clock, reports, volume, orphans, redis, crowded, faults>>
  <1> DEFINE copy == [mgr[m].copy EXCEPT !.status = "running", !.pos = 0]
  <1>1. mgr[m].pc = "take" /\ mgr[m].task \in Requests
    BY DEF MarkRunning, InHand, TaskSteps
  <1>2. copy \in Row /\ copy.status = "running"
    <2>1. mgr[m].copy \in Row
      BY DEF TypeOK, ThreadState
    <2> QED  BY BuiltRows, <2>1
  <1>3. table' = [table EXCEPT ![mgr[m].task] = copy]
    BY DEF MarkRunning, SaveCopy
  <1>4. mgr' = [mgr EXCEPT ![m].pc = "analyse", ![m].copy = copy]
    BY DEF MarkRunning
  <1>5. "analyse" \in Steps
    BY DEF Steps
  <1> HIDE DEF copy
  <1>6. RowSaved(mgr[m].task, copy)
    BY <1>1, <1>2, <1>3, SaveRow
  <1>7. Becomes(m, "analyse", mgr[m].task, copy, mgr[m].result, mgr[m].rows)
    BY <1>2, <1>4, <1>5, UpdateCopy DEF TypeOK
  <1>8. expired' \subseteq Requests
    BY DEF MarkRunning, TypeOK
  <1> QED  BY <1>1, <1>2, <1>6, <1>7, <1>8 DEF MarkRunning

(* The container has written its result. *)
LEMMA AnalysisEndsEffect ==
    ASSUME TypeOK, InHand, NEW m \in Managers, AnalysisEnds(m)
    PROVE  /\ mgr[m].pc = "analyse"
           /\ Becomes(m, "read", mgr[m].task, mgr[m].copy, mgr[m].result, mgr[m].rows)
           /\ volume' = [volume EXCEPT ![NameOf[PackageFor(m)]] = PackageFor(m)]
           /\ UNCHANGED <<table, clock, expired, reports, orphans, redis, crowded,
                          faults>>
  <1>1. "read" \in Steps
    BY DEF Steps
  <1>2. mgr' = [mgr EXCEPT ![m].pc = "read"]
    BY DEF AnalysisEnds, Goto
  <1>3. Becomes(m, "read", mgr[m].task, mgr[m].copy, mgr[m].result, mgr[m].rows)
    BY <1>1, <1>2, UpdatePc DEF TypeOK
  <1> QED  BY <1>3 DEF AnalysisEnds

(* It has written nothing. *)
LEMMA AnalysisAbortsEffect ==
    ASSUME TypeOK, InHand, NEW m \in Managers, AnalysisAborts(m)
    PROVE  /\ mgr[m].pc = "analyse"
           /\ Becomes(m, "read", mgr[m].task, mgr[m].copy, mgr[m].result, mgr[m].rows)
           /\ faults < MaxFaults /\ faults' = faults + 1
           /\ UNCHANGED <<table, clock, expired, reports, volume, orphans, redis,
                          crowded>>
  <1>1. "read" \in Steps
    BY DEF Steps
  <1>2. mgr' = [mgr EXCEPT ![m].pc = "read"]
    BY DEF AnalysisAborts, Goto
  <1>3. Becomes(m, "read", mgr[m].task, mgr[m].copy, mgr[m].result, mgr[m].rows)
    BY <1>1, <1>2, UpdatePc DEF TypeOK
  <1> QED  BY <1>3 DEF AnalysisAborts, Fault

(* It has failed. *)
LEMMA AnalysisFailsEffect ==
    ASSUME TypeOK, InHand, NEW m \in Managers, AnalysisFails(m)
    PROVE  /\ mgr[m].pc = "analyse"
           /\ Becomes(m, "fail", mgr[m].task, mgr[m].copy, mgr[m].result, mgr[m].rows)
           /\ faults < MaxFaults /\ faults' = faults + 1
           /\ UNCHANGED <<table, clock, expired, reports, volume, orphans, redis,
                          crowded>>
  <1>1. "fail" \in Steps
    BY DEF Steps
  <1>2. mgr' = [mgr EXCEPT ![m].pc = "fail"]
    BY DEF AnalysisFails, Goto
  <1>3. Becomes(m, "fail", mgr[m].task, mgr[m].copy, mgr[m].result, mgr[m].rows)
    BY <1>1, <1>2, UpdatePc DEF TypeOK
  <1> QED  BY <1>3 DEF AnalysisFails, Fault

(* The result file is read. *)
LEMMA GetResultFileEffect ==
    ASSUME TypeOK, InHand, NEW m \in Managers, get_result_file(m)
    PROVE  /\ mgr[m].pc = "read" /\ PackageFor(m) \in Packages
           /\ \E found \in Packages \cup {None} :
                /\ found = volume[NameOf[PackageFor(m)]]
                /\ Becomes(m, IF found = None THEN "fail" ELSE "heartbeat", mgr[m].task, mgr[m].copy, found, mgr[m].rows)
           /\ UNCHANGED <<table, clock, expired, reports, volume, orphans, redis,
                          crowded, faults>>
  <1> DEFINE found == volume[NameOf[PackageFor(m)]]
             pc == IF found = None THEN "fail" ELSE "heartbeat"
  <1>1. mgr[m].pc = "read" /\ PackageFor(m) \in Packages
    BY TableAssumption DEF get_result_file, InHand, TaskSteps, PackageFor, PackageOfTask,
         TableAssumption
  <1>2. found \in Packages \cup {None}
    BY <1>1, WebQueueAssumption DEF TypeOK, WebQueueAssumption
  <1>3. pc \in Steps
    BY DEF Steps
  <1>4. mgr' = [mgr EXCEPT ![m].pc = pc, ![m].result = found]
    BY DEF get_result_file
  <1> HIDE DEF pc, found
  <1>5. Becomes(m, pc, mgr[m].task, mgr[m].copy, found, mgr[m].rows)
    BY <1>2, <1>3, <1>4, UpdateResult DEF TypeOK
  <1> QED  BY <1>1, <1>2, <1>5 DEF get_result_file, pc, found

(* The copy is saved. *)
LEMMA HeartbeatEffect ==
    ASSUME TypeOK, InHand, NEW m \in Managers, Heartbeat(m)
    PROVE  /\ mgr[m].pc = "heartbeat" /\ mgr[m].task \in Requests
           /\ RowSaved(mgr[m].task, mgr[m].copy)
           /\ Becomes(m, "save", mgr[m].task, mgr[m].copy, mgr[m].result, mgr[m].rows)
           /\ UNCHANGED <<clock, expired, reports, volume, orphans, redis, crowded,
                          faults>>
  <1> DEFINE row == mgr[m].copy
  <1>1. mgr[m].pc = "heartbeat" /\ mgr[m].task \in Requests
    BY DEF Heartbeat, InHand, TaskSteps
  <1>2. row \in Row
    BY DEF TypeOK, ThreadState
  <1>3. table' = [table EXCEPT ![mgr[m].task] = row]
    BY DEF Heartbeat, SaveCopy
  <1>4. mgr' = [mgr EXCEPT ![m].pc = "save"]
    BY DEF Heartbeat, Goto
  <1>5. "save" \in Steps
    BY DEF Steps
  <1>6. RowSaved(mgr[m].task, row)
    <2> HIDE DEF row
    <2> QED  BY <1>1, <1>2, <1>3, SaveRow
  <1>7. Becomes(m, "save", mgr[m].task, mgr[m].copy, mgr[m].result, mgr[m].rows)
    BY <1>4, <1>5, UpdatePc DEF TypeOK
  <1> QED  BY <1>1, <1>2, <1>6, <1>7 DEF Heartbeat

(* The report is saved. *)
LEMMA SaveReportEffect ==
    ASSUME TypeOK, InHand, NEW m \in Managers, save_report(m)
    PROVE  /\ mgr[m].pc = "save" /\ PackageFor(m) \in Packages /\ mgr[m].result \in Packages
           /\ ~HasReportRow(PackageFor(m))
           /\ \E row \in [package : Packages, content : Packages, large : BOOLEAN] :
                /\ row.package = PackageFor(m) /\ row.content = mgr[m].result
                /\ reports' = Append(reports, row)
           /\ redis' \in [db : [Packages -> Packages \cup {None}],
                      download : [Packages -> Packages \cup {None}]]
           /\ faults' = faults \/ (faults < MaxFaults /\ faults' = faults + 1)
           /\ Becomes(m, "link", mgr[m].task, mgr[m].copy, mgr[m].result, mgr[m].rows)
           /\ UNCHANGED <<table, clock, expired, volume, orphans, crowded>>
  <1> DEFINE row == [package |-> PackageFor(m), content |-> mgr[m].result, large |-> PackageFor(m) \in LargeReports]
  <1>1. mgr[m].pc = "save" /\ PackageFor(m) \in Packages /\ mgr[m].result \in Packages
    BY TableAssumption DEF save_report, InHand, TaskSteps, PackageFor, PackageOfTask,
         TableAssumption
  <1>2. row \in [package : Packages, content : Packages, large : BOOLEAN]
    BY <1>1
  <1>3. reports' = Append(reports, row)
    BY DEF save_report
  <1>4. "link" \in Steps
    BY DEF Steps
  <1>5. mgr' = [mgr EXCEPT ![m].pc = "link"]
    BY DEF save_report, Goto
  <1>6. Becomes(m, "link", mgr[m].task, mgr[m].copy, mgr[m].result, mgr[m].rows)
    BY <1>4, <1>5, UpdatePc DEF TypeOK
  <1>7. redis' = redis \/ redis' = [redis EXCEPT !.db[PackageFor(m)] = mgr[m].result]
    BY DEF save_report
  <1>8. redis' \in [db : [Packages -> Packages \cup {None}], download : [Packages -> Packages \cup {None}]]
    BY <1>1, <1>7 DEF TypeOK
  <1>9. row.package = PackageFor(m) /\ row.content = mgr[m].result
    OBVIOUS
  <1>10. faults' = faults \/ (faults < MaxFaults /\ faults' = faults + 1)
    BY DEF save_report, Fault
  <1>11. ~HasReportRow(PackageFor(m))
    BY DEF save_report
  <1> HIDE DEF row
  <1> QED  BY <1>1, <1>2, <1>3, <1>6, <1>8, <1>9, <1>10, <1>11 DEF save_report

(* It is refused. *)
LEMMA SaveReportRefusedEffect ==
    ASSUME TypeOK, InHand, NEW m \in Managers, save_report_refused(m)
    PROVE  /\ mgr[m].pc = "save"
           /\ Becomes(m, "fail", mgr[m].task, mgr[m].copy, mgr[m].result, mgr[m].rows)
           /\ UNCHANGED <<table, clock, expired, reports, volume, orphans, redis,
                          crowded, faults>>
  <1>1. "fail" \in Steps
    BY DEF Steps
  <1>2. mgr' = [mgr EXCEPT ![m].pc = "fail"]
    BY DEF save_report_refused, Goto
  <1>3. Becomes(m, "fail", mgr[m].task, mgr[m].copy, mgr[m].result, mgr[m].rows)
    BY <1>1, <1>2, UpdatePc DEF TypeOK
  <1> QED  BY <1>3 DEF save_report_refused

(* The task is completed with the newest report. *)
LEMMA LinkReportEffect ==
    ASSUME TypeOK, InHand, NEW m \in Managers, LinkReport(m)
    PROVE  /\ mgr[m].pc = "link" /\ mgr[m].task \in Requests
           /\ \E copy \in Row : /\ RowSaved(mgr[m].task, copy)
                            /\ Becomes(m, "publish", mgr[m].task, copy, mgr[m].result, mgr[m].rows)
                            /\ copy.status = "completed" /\ copy.report = Latest
           /\ HasReportRow(Latest)
           /\ UNCHANGED <<clock, expired, reports, volume, orphans, redis, crowded,
                          faults>>
  <1> DEFINE copy == [mgr[m].copy EXCEPT !.status = "completed", !.report = Latest]
  <1>0. Latest \in Packages /\ HasReportRow(Latest)
    <2>1. reports \in Seq([package : Packages, content : Packages, large : BOOLEAN]) /\ reports # << >>
      BY DEF TypeOK, InHand, LinkReport
    <2>2. Len(reports) \in DOMAIN reports
      BY <2>1
    <2> QED  BY <2>2, ReportRows DEF Latest, HasReportRow
  <1>1. mgr[m].pc = "link" /\ mgr[m].task \in Requests
    BY DEF LinkReport, InHand, TaskSteps
  <1>2. copy \in Row /\ copy.status = "completed" /\ copy.report = Latest
    <2>1. mgr[m].copy \in Row
      BY DEF TypeOK, ThreadState
    <2> QED  BY <1>0, CompletedRow, <2>1
  <1>3. table' = [table EXCEPT ![mgr[m].task] = copy]
    BY DEF LinkReport, SaveCopy
  <1>4. mgr' = [mgr EXCEPT ![m].pc = "publish", ![m].copy = copy]
    BY DEF LinkReport
  <1>5. "publish" \in Steps
    BY DEF Steps
  <1> HIDE DEF copy
  <1>6. RowSaved(mgr[m].task, copy)
    BY <1>1, <1>2, <1>3, SaveRow
  <1>7. Becomes(m, "publish", mgr[m].task, copy, mgr[m].result, mgr[m].rows)
    BY <1>2, <1>4, <1>5, UpdateCopy DEF TypeOK
  <1> QED  BY <1>0, <1>1, <1>2, <1>6, <1>7 DEF LinkReport

(* The newest report is another row's. *)
LEMMA LinkRefusedEffect ==
    ASSUME TypeOK, InHand, NEW m \in Managers, LinkRefused(m)
    PROVE  /\ mgr[m].pc = "link"
           /\ LoopsBack(m)
           /\ UNCHANGED <<table, clock, expired, reports, volume, orphans, redis,
                          crowded, faults>>
  BY LoopEffect DEF LinkRefused

(* The copy for downloads is stored. *)
LEMMA SaveProfessionalReportEffect ==
    ASSUME TypeOK, InHand, NEW m \in Managers, save_professional_report(m)
    PROVE  /\ mgr[m].pc = "publish" /\ mgr[m].task \in Requests
           /\ RowSaved(mgr[m].task, mgr[m].copy)
           /\ Becomes(m, "renumber", mgr[m].task, mgr[m].copy, mgr[m].result, mgr[m].rows)
           /\ redis' \in [db : [Packages -> Packages \cup {None}],
                      download : [Packages -> Packages \cup {None}]]
           /\ UNCHANGED <<clock, expired, reports, volume, orphans, crowded, faults>>
  <1> DEFINE row == mgr[m].copy
  <1>1. mgr[m].pc = "publish" /\ mgr[m].task \in Requests
    BY DEF save_professional_report, InHand, TaskSteps
  <1>2. row \in Row
    BY DEF TypeOK, ThreadState
  <1>3. table' = [table EXCEPT ![mgr[m].task] = row]
    BY DEF save_professional_report, SaveCopy
  <1>4. mgr' = [mgr EXCEPT ![m].pc = "renumber"]
    BY DEF save_professional_report, Goto
  <1>5. "renumber" \in Steps
    BY DEF Steps
  <1>8. redis' \in [db : [Packages -> Packages \cup {None}], download : [Packages -> Packages \cup {None}]]
    <2>1. get_report(mgr[m].copy.report) \in Packages \cup {None}
      <3>1. HasReportRow(mgr[m].copy.report) /\ mgr[m].copy \in Row
        BY DEF InHand, save_professional_report, TypeOK, ThreadState
      <3> DEFINE p == mgr[m].copy.report
      <3> HIDE DEF p
      <3>2. \E j \in DOMAIN reports : reports[j].package = p
        BY <3>1 DEF HasReportRow, p
      <3>3. PICK j \in DOMAIN reports : ReportOf(p) = reports[j] /\ reports[j].package = p
        BY <3>2 DEF ReportOf
      <3>4. reports[j] \in [package : Packages, content : Packages, large : BOOLEAN]
        BY <3>3, ReportRows
      <3>5. p \in Packages /\ redis.db[p] \in Packages \cup {None} /\ ReportOf(p).content \in Packages
        BY <3>3, <3>4 DEF TypeOK
      <3>6. get_report(p) \in Packages \cup {None}
        BY <3>5 DEF get_report
      <3> QED  BY <3>6 DEF p
    <2>2. PackageFor(m) \in Packages
      BY <1>1, TableAssumption DEF PackageFor, PackageOfTask, TableAssumption
    <2>3. redis' = redis \/ redis' = [redis EXCEPT !.download[PackageFor(m)] = get_report(mgr[m].copy.report)]
      BY DEF save_professional_report
    <2> QED  BY <2>1, <2>2, <2>3 DEF TypeOK
  <1>6. RowSaved(mgr[m].task, row)
    <2> HIDE DEF row
    <2> QED  BY <1>1, <1>2, <1>3, SaveRow
  <1>7. Becomes(m, "renumber", mgr[m].task, mgr[m].copy, mgr[m].result, mgr[m].rows)
    BY <1>4, <1>5, UpdatePc DEF TypeOK
  <1> QED  BY <1>8, <1>1, <1>2, <1>6, <1>7 DEF save_professional_report

(* The task is failed. *)
LEMMA MarkFailedEffect ==
    ASSUME TypeOK, InHand, NEW m \in Managers, MarkFailed(m)
    PROVE  /\ mgr[m].pc = "fail" /\ mgr[m].task \in Requests
           /\ \E row \in Row : RowSaved(mgr[m].task, row) /\ row.status = "failed"
           /\ Becomes(m, "renumber", mgr[m].task, mgr[m].copy, mgr[m].result, mgr[m].rows)
           /\ UNCHANGED <<clock, expired, reports, volume, orphans, redis, crowded,
                          faults>>
  <1> DEFINE row == [mgr[m].copy EXCEPT !.status = "failed", !.pos = 0]
  <1>1. mgr[m].pc = "fail" /\ mgr[m].task \in Requests
    BY DEF MarkFailed, InHand, TaskSteps
  <1>2. row \in Row /\ row.status = "failed"
    BY BuiltRows DEF TypeOK, ThreadState
  <1>3. table' = [table EXCEPT ![mgr[m].task] = row]
    BY DEF MarkFailed, SaveCopy
  <1>4. mgr' = [mgr EXCEPT ![m].pc = "renumber"]
    BY DEF MarkFailed, Goto
  <1>5. "renumber" \in Steps
    BY DEF Steps
  <1>6. RowSaved(mgr[m].task, row)
    <2> HIDE DEF row
    <2> QED  BY <1>1, <1>2, <1>3, SaveRow
  <1>7. Becomes(m, "renumber", mgr[m].task, mgr[m].copy, mgr[m].result, mgr[m].rows)
    BY <1>4, <1>5, UpdatePc DEF TypeOK
  <1> QED  BY <1>1, <1>2, <1>6, <1>7 DEF MarkFailed

(* The list of reports after another one. *)
LEMMA ReportSaved ==
    ASSUME TypeOK, NEW row \in [package : Packages, content : Packages, large : BOOLEAN],
           reports' = Append(reports, row)
    PROVE  /\ reports' \in Seq([package : Packages, content : Packages, large : BOOLEAN])
           /\ reports' # << >>
           /\ Len(reports') \in DOMAIN reports'
           /\ reports'[Len(reports')] = row
           /\ \A i \in DOMAIN reports : i \in DOMAIN reports' /\ reports'[i] = reports[i]
           /\ \A i \in DOMAIN reports' : i \in DOMAIN reports \/ i = Len(reports')
  <1> DEFINE S == [package : Packages, content : Packages, large : BOOLEAN]
  <1>1. reports \in Seq(S) /\ row \in S
    BY DEF TypeOK
  <1> HIDE DEF S
  <1>2. /\ reports' \in Seq(S) /\ Len(reports') = Len(reports) + 1
        /\ \A i \in 1 .. Len(reports) : reports'[i] = reports[i]
        /\ reports'[Len(reports) + 1] = row
    BY <1>1, AppendProperties
  <1>3. Len(reports) \in Nat /\ DOMAIN reports = 1 .. Len(reports)
    BY <1>1, LenProperties
  <1>4. DOMAIN reports' = 1 .. Len(reports) + 1
    BY <1>2, <1>3, LenProperties
  <1>5. reports' # << >>
    BY <1>1, AppendProperties
  <1>6. /\ Len(reports') \in DOMAIN reports'
        /\ \A i \in DOMAIN reports : i \in DOMAIN reports'
        /\ \A i \in DOMAIN reports' : i \in DOMAIN reports \/ i = Len(reports')
    BY <1>2, <1>3, <1>4
  <1> QED  BY <1>2, <1>3, <1>5, <1>6 DEF S

(* The package of a task in hand, and its file. *)
LEMMA PackageInHand ==
    ASSUME InHand, NEW m \in Managers, mgr[m].pc \in TaskSteps
    PROVE  PackageFor(m) \in Packages /\ NameOf[PackageFor(m)] \in Names
  BY TableAssumption, WebQueueAssumption
  DEF InHand, PackageFor, PackageOfTask, TableAssumption, WebQueueAssumption

-----------------------------------------------------------------------------
(* Types. *)

(* The next number of faults. *)
LEMMA NextFaults ==
    ASSUME TypeOK, faults < MaxFaults, faults' = faults + 1
    PROVE  faults' \in 0 .. MaxFaults /\ faults' # 0
  BY WebQueueAssumption DEF TypeOK, WebQueueAssumption

(* Every step keeps the types. *)
LEMMA TypeStep ==
    ASSUME TypeOK, InHand, [Next]_vars
    PROVE  TypeOK'
  <1>1. ASSUME NEW r \in Requests, CreateTask(r) PROVE TypeOK'
    BY <1>1, CreateTaskEffect DEF RowSaved, TypeOK
  <1>2. ASSUME NEW r \in Requests, NextPosition(r) PROVE TypeOK'
    BY <1>2, NextPositionEffect DEF RowSaved, TypeOK
  <1>3. ASSUME NEW m \in Managers, NEW r \in Requests, add_task_to_queue(m,
       r) PROVE TypeOK'
    <2>1. PICK row \in Row : RowSaved(r, row) /\ row.status = "queued" /\ row.pos # 0
      BY <1>3, AddTaskToQueueEffect
    <2>2. /\ Starts(m) /\ table[r].status = "pending" /\ clock' \in Nat
          /\ UNCHANGED <<expired, reports, volume, orphans, redis, faults>>
      BY <1>3, AddTaskToQueueEffect
    <2> QED  BY <2>1, <2>2 DEF Becomes, LoopsBack, Starts, RowSaved, TypeOK
  <1>4. ASSUME NEW r \in Requests, Expires(r) PROVE TypeOK'
    BY <1>4, ExpiresEffect DEF TypeOK
  <1>5. ASSUME NEW m \in Managers, StartWorker(m) PROVE TypeOK'
    BY <1>5, StartWorkerEffect DEF Becomes, LoopsBack, Starts, TypeOK
  <1>6. ASSUME NEW m \in Managers, ProcessEnds(m) PROVE TypeOK'
    <2>1. faults' \in 0 .. MaxFaults
      BY <1>6, ProcessEndsEffect, NextFaults
    <2> QED  BY <1>6, <2>1, ProcessEndsEffect DEF TypeOK, Becomes
  <1>7. ASSUME NEW p \in Packages, OrphanEnds(p) PROVE TypeOK'
    <2>1. volume' \in [Names -> Packages \cup {None}]
      BY <1>7, OrphanEndsEffect, WebQueueAssumption DEF TypeOK, WebQueueAssumption
    <2> QED  BY <1>7, <2>1, OrphanEndsEffect DEF TypeOK
  <1>8. ASSUME NEW p \in Packages, RedisExpires(p) PROVE TypeOK'
    <2>1. faults' \in 0 .. MaxFaults
      BY <1>8, RedisExpiresEffect, NextFaults
    <2> QED  BY <1>8, <2>1, RedisExpiresEffect DEF TypeOK, Becomes
  <1>9. ASSUME NEW m \in Managers, check_timeouts(m) PROVE TypeOK'
    BY <1>9, CheckTimeoutsEffect DEF Becomes, TypeOK
  <1>10. ASSUME NEW m \in Managers, _handle_timed_out_task(m) PROVE TypeOK'
    BY <1>10, HandleTimedOutTaskEffect DEF Becomes, TypeOK
  <1>11. ASSUME NEW m \in Managers, ReadQueue(m) PROVE TypeOK'
    BY <1>11, ReadQueueEffect DEF Becomes, TypeOK
  <1>12. ASSUME NEW m \in Managers, _update_queue_positions(m) PROVE TypeOK'
    BY <1>12, UpdateQueuePositionsEffect DEF Becomes, LoopsBack, TypeOK
  <1>13. ASSUME NEW m \in Managers, RunningTask(m) PROVE TypeOK'
    BY <1>13, RunningTaskEffect DEF Becomes, LoopsBack, TypeOK
  <1>14. ASSUME NEW m \in Managers, NoRunningTask(m) PROVE TypeOK'
    BY <1>14, NoRunningTaskEffect DEF Becomes, TypeOK
  <1>15. ASSUME NEW m \in Managers, NextTaskNone(m) PROVE TypeOK'
    BY <1>15, NextTaskNoneEffect DEF Becomes, LoopsBack, TypeOK
  <1>16. ASSUME NEW m \in Managers, NextTask(m) PROVE TypeOK'
    BY <1>16, NextTaskEffect DEF Becomes, TypeOK
  <1>17. ASSUME NEW m \in Managers, MarkRunning(m) PROVE TypeOK'
    BY <1>17, MarkRunningEffect DEF Becomes, RowSaved, TypeOK
  <1>18. ASSUME NEW m \in Managers, AnalysisEnds(m) PROVE TypeOK'
    <2>1. PackageFor(m) \in Packages /\ NameOf[PackageFor(m)] \in Names
      BY <1>18, AnalysisEndsEffect, PackageInHand DEF TaskSteps
    <2>2. volume' \in [Names -> Packages \cup {None}]
      BY <1>18, <2>1, AnalysisEndsEffect DEF TypeOK
    <2> QED  BY <1>18, <2>2, AnalysisEndsEffect DEF TypeOK, Becomes
  <1>19. ASSUME NEW m \in Managers, AnalysisAborts(m) PROVE TypeOK'
    <2>1. faults' \in 0 .. MaxFaults
      BY <1>19, AnalysisAbortsEffect, NextFaults
    <2> QED  BY <1>19, <2>1, AnalysisAbortsEffect DEF TypeOK, Becomes
  <1>20. ASSUME NEW m \in Managers, AnalysisFails(m) PROVE TypeOK'
    <2>1. faults' \in 0 .. MaxFaults
      BY <1>20, AnalysisFailsEffect, NextFaults
    <2> QED  BY <1>20, <2>1, AnalysisFailsEffect DEF TypeOK, Becomes
  <1>21. ASSUME NEW m \in Managers, get_result_file(m) PROVE TypeOK'
    BY <1>21, GetResultFileEffect DEF Becomes, TypeOK
  <1>22. ASSUME NEW m \in Managers, Heartbeat(m) PROVE TypeOK'
    BY <1>22, HeartbeatEffect DEF Becomes, RowSaved, TypeOK
  <1>23. ASSUME NEW m \in Managers, save_report(m) PROVE TypeOK'
    <2>1. reports' \in Seq([package : Packages, content : Packages, large : BOOLEAN])
      BY <1>23, SaveReportEffect, ReportSaved
    <2>2. faults' \in 0 .. MaxFaults
      BY <1>23, SaveReportEffect, NextFaults DEF TypeOK
    <2> QED  BY <1>23, <2>1, <2>2, SaveReportEffect DEF TypeOK, Becomes
  <1>24. ASSUME NEW m \in Managers, save_report_refused(m) PROVE TypeOK'
    BY <1>24, SaveReportRefusedEffect DEF Becomes, TypeOK
  <1>25. ASSUME NEW m \in Managers, LinkReport(m) PROVE TypeOK'
    BY <1>25, LinkReportEffect DEF Becomes, RowSaved, TypeOK
  <1>26. ASSUME NEW m \in Managers, LinkRefused(m) PROVE TypeOK'
    BY <1>26, LinkRefusedEffect DEF Becomes, LoopsBack, TypeOK
  <1>27. ASSUME NEW m \in Managers, save_professional_report(m) PROVE TypeOK'
    BY <1>27, SaveProfessionalReportEffect DEF Becomes, RowSaved, TypeOK
  <1>28. ASSUME NEW m \in Managers, MarkFailed(m) PROVE TypeOK'
    BY <1>28, MarkFailedEffect DEF Becomes, RowSaved, TypeOK
  <1>29. CASE UNCHANGED vars
    BY <1>29 DEF vars, TypeOK
  <1> QED
    BY <1>1, <1>2, <1>3, <1>4, <1>5, <1>6, <1>7, <1>8, <1>9, <1>10, <1>11, <1>12, <1>13,
         <1>14,
       <1>15, <1>16, <1>17, <1>18, <1>19, <1>20, <1>21, <1>22, <1>23, <1>24, <1>25, <1>26, <1>27, <1>28, <1>29
    DEF Next, Thread

(* Every step keeps what is known of the task in hand. *)
LEMMA InHandStep ==
    ASSUME TypeOK, InHand, [Next]_vars
    PROVE  InHand'
  <1>1. ASSUME NEW r \in Requests, CreateTask(r) PROVE InHand'
    BY <1>1, CreateTaskEffect DEF RowSaved, InHand, TaskSteps, HasReportRow
  <1>2. ASSUME NEW r \in Requests, NextPosition(r) PROVE InHand'
    BY <1>2, NextPositionEffect DEF RowSaved, InHand, TaskSteps, HasReportRow
  <1>3. ASSUME NEW m \in Managers, NEW r \in Requests, add_task_to_queue(m,
       r) PROVE InHand'
    <2>1. PICK row \in Row : RowSaved(r, row) /\ row.status = "queued" /\ row.pos # 0
      BY <1>3, AddTaskToQueueEffect
    <2>2. /\ Starts(m) /\ table[r].status = "pending" /\ clock' \in Nat
          /\ UNCHANGED <<expired, reports, volume, orphans, redis, faults>>
      BY <1>3, AddTaskToQueueEffect
    <2> QED  BY <2>1, <2>2 DEF Becomes, LoopsBack, Starts, RowSaved, InHand, TaskSteps, HasReportRow
  <1>4. ASSUME NEW r \in Requests, Expires(r) PROVE InHand'
    BY <1>4, ExpiresEffect DEF InHand, TaskSteps, HasReportRow
  <1>5. ASSUME NEW m \in Managers, StartWorker(m) PROVE InHand'
    BY <1>5, StartWorkerEffect DEF Becomes, LoopsBack, Starts, InHand, TaskSteps,
         HasReportRow
  <1>6. ASSUME NEW m \in Managers, ProcessEnds(m) PROVE InHand'
    BY <1>6, ProcessEndsEffect DEF Becomes, InHand, TaskSteps, HasReportRow
  <1>7. ASSUME NEW p \in Packages, OrphanEnds(p) PROVE InHand'
    BY <1>7, OrphanEndsEffect DEF InHand, TaskSteps, HasReportRow
  <1>8. ASSUME NEW p \in Packages, RedisExpires(p) PROVE InHand'
    BY <1>8, RedisExpiresEffect DEF InHand, TaskSteps, HasReportRow
  <1>9. ASSUME NEW m \in Managers, check_timeouts(m) PROVE InHand'
    BY <1>9, CheckTimeoutsEffect DEF Becomes, InHand, TaskSteps, HasReportRow
  <1>10. ASSUME NEW m \in Managers, _handle_timed_out_task(m) PROVE InHand'
    BY <1>10, HandleTimedOutTaskEffect DEF Becomes, InHand, TaskSteps, HasReportRow
  <1>11. ASSUME NEW m \in Managers, ReadQueue(m) PROVE InHand'
    BY <1>11, ReadQueueEffect DEF Becomes, InHand, TaskSteps, HasReportRow
  <1>12. ASSUME NEW m \in Managers, _update_queue_positions(m) PROVE InHand'
    BY <1>12, UpdateQueuePositionsEffect DEF Becomes, LoopsBack, InHand, TaskSteps,
         HasReportRow
  <1>13. ASSUME NEW m \in Managers, RunningTask(m) PROVE InHand'
    BY <1>13, RunningTaskEffect DEF Becomes, LoopsBack, InHand, TaskSteps, HasReportRow
  <1>14. ASSUME NEW m \in Managers, NoRunningTask(m) PROVE InHand'
    BY <1>14, NoRunningTaskEffect DEF Becomes, InHand, TaskSteps, HasReportRow
  <1>15. ASSUME NEW m \in Managers, NextTaskNone(m) PROVE InHand'
    BY <1>15, NextTaskNoneEffect DEF Becomes, LoopsBack, InHand, TaskSteps, HasReportRow
  <1>16. ASSUME NEW m \in Managers, NextTask(m) PROVE InHand'
    BY <1>16, NextTaskEffect DEF Becomes, InHand, TaskSteps, HasReportRow
  <1>17. ASSUME NEW m \in Managers, MarkRunning(m) PROVE InHand'
    BY <1>17, MarkRunningEffect DEF Becomes, RowSaved, InHand, TaskSteps, HasReportRow
  <1>18. ASSUME NEW m \in Managers, AnalysisEnds(m) PROVE InHand'
    BY <1>18, AnalysisEndsEffect DEF Becomes, InHand, TaskSteps, HasReportRow
  <1>19. ASSUME NEW m \in Managers, AnalysisAborts(m) PROVE InHand'
    BY <1>19, AnalysisAbortsEffect DEF Becomes, InHand, TaskSteps, HasReportRow
  <1>20. ASSUME NEW m \in Managers, AnalysisFails(m) PROVE InHand'
    BY <1>20, AnalysisFailsEffect DEF Becomes, InHand, TaskSteps, HasReportRow
  <1>21. ASSUME NEW m \in Managers, get_result_file(m) PROVE InHand'
    BY <1>21, GetResultFileEffect DEF Becomes, InHand, TaskSteps, HasReportRow
  <1>22. ASSUME NEW m \in Managers, Heartbeat(m) PROVE InHand'
    BY <1>22, HeartbeatEffect DEF Becomes, RowSaved, InHand, TaskSteps, HasReportRow
  <1>23. ASSUME NEW m \in Managers, save_report(m) PROVE InHand'
    <2>1. PICK row \in [package : Packages, content : Packages, large : BOOLEAN] :
               reports' = Append(reports, row)
      BY <1>23, SaveReportEffect
    <2>2. reports' # << >> /\ \A i \in DOMAIN reports : i \in DOMAIN reports' /\ reports'[i] = reports[i]
      BY <2>1, ReportSaved
    <2>4. \A k \in Managers : mgr'[k].pc = "publish" =>
              \E i \in DOMAIN reports' : reports'[i].package = mgr'[k].copy.report
      <3>1. \A k \in Managers : mgr'[k].pc = "publish" => mgr'[k] = mgr[k]
        BY <1>23, SaveReportEffect DEF Becomes
      <3> QED  BY <3>1, <2>2 DEF InHand, HasReportRow
    <2>5. \A k \in Managers : mgr'[k].task = mgr[k].task /\ mgr'[k].result = mgr[k].result
      BY <1>23, SaveReportEffect DEF Becomes
    <2>6. \A k \in Managers : mgr'[k].pc # mgr[k].pc => mgr[k].pc = "save" /\ mgr'[k].pc = "link"
      BY <1>23, SaveReportEffect DEF Becomes
    <2> QED  BY <2>2, <2>4, <2>5, <2>6 DEF InHand, TaskSteps, HasReportRow
  <1>24. ASSUME NEW m \in Managers, save_report_refused(m) PROVE InHand'
    BY <1>24, SaveReportRefusedEffect DEF Becomes, InHand, TaskSteps, HasReportRow
  <1>25. ASSUME NEW m \in Managers, LinkReport(m) PROVE InHand'
    BY <1>25, LinkReportEffect DEF Becomes, RowSaved, InHand, TaskSteps, HasReportRow
  <1>26. ASSUME NEW m \in Managers, LinkRefused(m) PROVE InHand'
    BY <1>26, LinkRefusedEffect DEF Becomes, LoopsBack, InHand, TaskSteps, HasReportRow
  <1>27. ASSUME NEW m \in Managers, save_professional_report(m) PROVE InHand'
    BY <1>27, SaveProfessionalReportEffect DEF Becomes, RowSaved, InHand, TaskSteps,
         HasReportRow
  <1>28. ASSUME NEW m \in Managers, MarkFailed(m) PROVE InHand'
    BY <1>28, MarkFailedEffect DEF Becomes, RowSaved, InHand, TaskSteps, HasReportRow
  <1>29. CASE UNCHANGED vars
    BY <1>29 DEF vars, InHand, TaskSteps, HasReportRow
  <1> QED
    BY <1>1, <1>2, <1>3, <1>4, <1>5, <1>6, <1>7, <1>8, <1>9, <1>10, <1>11, <1>12, <1>13,
         <1>14,
       <1>15, <1>16, <1>17, <1>18, <1>19, <1>20, <1>21, <1>22, <1>23, <1>24, <1>25, <1>26, <1>27, <1>28, <1>29
    DEF Next, Thread

-----------------------------------------------------------------------------
(* Rows, reports and files. *)

(* The copy a thread will save is running, or completed to be published. *)
CopyKept ==
    \A m \in Managers :
        /\ mgr[m].pc \in {"analyse", "read", "heartbeat", "save", "link", "fail"} =>
               mgr[m].copy.status = "running"
        /\ mgr[m].pc = "publish" => mgr[m].copy.status = "completed"

(* Queued rows have positions, in the table and among the rows to be saved. *)
Numbered ==
    /\ \A t \in Requests : table[t].status = "queued" => table[t].pos # 0
    /\ \A m \in Managers : mgr[m].pc = "renumbered" =>
           \A t \in DOMAIN mgr[m].rows : /\ mgr[m].rows[t].status = "queued"
                                         /\ mgr[m].rows[t].pos # 0

(* A package has one report. *)
OneReport == \A i, j \in DOMAIN reports : reports[i].package = reports[j].package => i = j

(* A result file, a result and a report are about a package of the right name. *)
SameName ==
    /\ \A n \in Names : volume[n] # None => NameOf[volume[n]] = n
    /\ \A m \in Managers : mgr[m].pc \in {"heartbeat", "save"} =>
           NameOf[mgr[m].result] = NameOf[PackageFor(m)]
    /\ \A i \in DOMAIN reports : NameOf[reports[i].content] = NameOf[reports[i].package]

(* A copy is saved as it was written. *)
LEMMA CopyStep ==
    ASSUME TypeOK, InHand, CopyKept, [Next]_vars
    PROVE  CopyKept'
  <1>1. ASSUME NEW r \in Requests, CreateTask(r) PROVE CopyKept'
    BY <1>1, CreateTaskEffect DEF RowSaved, CopyKept
  <1>2. ASSUME NEW r \in Requests, NextPosition(r) PROVE CopyKept'
    BY <1>2, NextPositionEffect DEF RowSaved, CopyKept
  <1>3. ASSUME NEW m \in Managers, NEW r \in Requests, add_task_to_queue(m,
       r) PROVE CopyKept'
    <2>1. PICK row \in Row : RowSaved(r, row) /\ row.status = "queued" /\ row.pos # 0
      BY <1>3, AddTaskToQueueEffect
    <2>2. /\ Starts(m) /\ table[r].status = "pending" /\ clock' \in Nat
          /\ UNCHANGED <<expired, reports, volume, orphans, redis, faults>>
      BY <1>3, AddTaskToQueueEffect
    <2> QED  BY <2>1, <2>2 DEF Becomes, LoopsBack, Starts, RowSaved, CopyKept
  <1>4. ASSUME NEW r \in Requests, Expires(r) PROVE CopyKept'
    BY <1>4, ExpiresEffect DEF CopyKept
  <1>5. ASSUME NEW m \in Managers, StartWorker(m) PROVE CopyKept'
    BY <1>5, StartWorkerEffect DEF Becomes, LoopsBack, Starts, CopyKept
  <1>6. ASSUME NEW m \in Managers, ProcessEnds(m) PROVE CopyKept'
    BY <1>6, ProcessEndsEffect DEF Becomes, CopyKept
  <1>7. ASSUME NEW p \in Packages, OrphanEnds(p) PROVE CopyKept'
    BY <1>7, OrphanEndsEffect DEF CopyKept
  <1>8. ASSUME NEW p \in Packages, RedisExpires(p) PROVE CopyKept'
    BY <1>8, RedisExpiresEffect DEF CopyKept
  <1>9. ASSUME NEW m \in Managers, check_timeouts(m) PROVE CopyKept'
    BY <1>9, CheckTimeoutsEffect DEF Becomes, CopyKept
  <1>10. ASSUME NEW m \in Managers, _handle_timed_out_task(m) PROVE CopyKept'
    BY <1>10, HandleTimedOutTaskEffect DEF Becomes, CopyKept
  <1>11. ASSUME NEW m \in Managers, ReadQueue(m) PROVE CopyKept'
    BY <1>11, ReadQueueEffect DEF Becomes, CopyKept
  <1>12. ASSUME NEW m \in Managers, _update_queue_positions(m) PROVE CopyKept'
    BY <1>12, UpdateQueuePositionsEffect DEF Becomes, LoopsBack, CopyKept
  <1>13. ASSUME NEW m \in Managers, RunningTask(m) PROVE CopyKept'
    BY <1>13, RunningTaskEffect DEF Becomes, LoopsBack, CopyKept
  <1>14. ASSUME NEW m \in Managers, NoRunningTask(m) PROVE CopyKept'
    BY <1>14, NoRunningTaskEffect DEF Becomes, CopyKept
  <1>15. ASSUME NEW m \in Managers, NextTaskNone(m) PROVE CopyKept'
    BY <1>15, NextTaskNoneEffect DEF Becomes, LoopsBack, CopyKept
  <1>16. ASSUME NEW m \in Managers, NextTask(m) PROVE CopyKept'
    BY <1>16, NextTaskEffect DEF Becomes, CopyKept
  <1>17. ASSUME NEW m \in Managers, MarkRunning(m) PROVE CopyKept'
    BY <1>17, MarkRunningEffect DEF Becomes, RowSaved, CopyKept
  <1>18. ASSUME NEW m \in Managers, AnalysisEnds(m) PROVE CopyKept'
    BY <1>18, AnalysisEndsEffect DEF Becomes, CopyKept
  <1>19. ASSUME NEW m \in Managers, AnalysisAborts(m) PROVE CopyKept'
    BY <1>19, AnalysisAbortsEffect DEF Becomes, CopyKept
  <1>20. ASSUME NEW m \in Managers, AnalysisFails(m) PROVE CopyKept'
    BY <1>20, AnalysisFailsEffect DEF Becomes, CopyKept
  <1>21. ASSUME NEW m \in Managers, get_result_file(m) PROVE CopyKept'
    BY <1>21, GetResultFileEffect DEF Becomes, CopyKept
  <1>22. ASSUME NEW m \in Managers, Heartbeat(m) PROVE CopyKept'
    BY <1>22, HeartbeatEffect DEF Becomes, RowSaved, CopyKept
  <1>23. ASSUME NEW m \in Managers, save_report(m) PROVE CopyKept'
    BY <1>23, SaveReportEffect DEF Becomes, CopyKept
  <1>24. ASSUME NEW m \in Managers, save_report_refused(m) PROVE CopyKept'
    BY <1>24, SaveReportRefusedEffect DEF Becomes, CopyKept
  <1>25. ASSUME NEW m \in Managers, LinkReport(m) PROVE CopyKept'
    BY <1>25, LinkReportEffect DEF Becomes, RowSaved, CopyKept
  <1>26. ASSUME NEW m \in Managers, LinkRefused(m) PROVE CopyKept'
    BY <1>26, LinkRefusedEffect DEF Becomes, LoopsBack, CopyKept
  <1>27. ASSUME NEW m \in Managers, save_professional_report(m) PROVE CopyKept'
    BY <1>27, SaveProfessionalReportEffect DEF Becomes, RowSaved, CopyKept
  <1>28. ASSUME NEW m \in Managers, MarkFailed(m) PROVE CopyKept'
    BY <1>28, MarkFailedEffect DEF Becomes, RowSaved, CopyKept
  <1>29. CASE UNCHANGED vars
    BY <1>29 DEF vars, CopyKept
  <1> QED
    BY <1>1, <1>2, <1>3, <1>4, <1>5, <1>6, <1>7, <1>8, <1>9, <1>10, <1>11, <1>12, <1>13,
         <1>14,
       <1>15, <1>16, <1>17, <1>18, <1>19, <1>20, <1>21, <1>22, <1>23, <1>24, <1>25, <1>26, <1>27, <1>28, <1>29
    DEF Next, Thread

(* Positions are kept. *)
LEMMA NumberedStep ==
    ASSUME TypeOK, InHand, CopyKept, Numbered, [Next]_vars
    PROVE  Numbered'
  <1>1. ASSUME NEW r \in Requests, CreateTask(r) PROVE Numbered'
    BY <1>1, CreateTaskEffect DEF RowSaved, Numbered
  <1>2. ASSUME NEW r \in Requests, NextPosition(r) PROVE Numbered'
    BY <1>2, NextPositionEffect DEF RowSaved, Numbered
  <1>3. ASSUME NEW m \in Managers, NEW r \in Requests, add_task_to_queue(m,
       r) PROVE Numbered'
    <2>1. PICK row \in Row : RowSaved(r, row) /\ row.status = "queued" /\ row.pos # 0
      BY <1>3, AddTaskToQueueEffect
    <2>2. /\ Starts(m) /\ table[r].status = "pending" /\ clock' \in Nat
          /\ UNCHANGED <<expired, reports, volume, orphans, redis, faults>>
      BY <1>3, AddTaskToQueueEffect
    <2> QED  BY <2>1, <2>2 DEF Becomes, LoopsBack, Starts, RowSaved, Numbered
  <1>4. ASSUME NEW r \in Requests, Expires(r) PROVE Numbered'
    BY <1>4, ExpiresEffect DEF Numbered
  <1>5. ASSUME NEW m \in Managers, StartWorker(m) PROVE Numbered'
    BY <1>5, StartWorkerEffect DEF Becomes, LoopsBack, Starts, Numbered
  <1>6. ASSUME NEW m \in Managers, ProcessEnds(m) PROVE Numbered'
    BY <1>6, ProcessEndsEffect DEF Becomes, Numbered
  <1>7. ASSUME NEW p \in Packages, OrphanEnds(p) PROVE Numbered'
    BY <1>7, OrphanEndsEffect DEF Numbered
  <1>8. ASSUME NEW p \in Packages, RedisExpires(p) PROVE Numbered'
    BY <1>8, RedisExpiresEffect DEF Numbered
  <1>9. ASSUME NEW m \in Managers, check_timeouts(m) PROVE Numbered'
    BY <1>9, CheckTimeoutsEffect DEF Becomes, Numbered
  <1>10. ASSUME NEW m \in Managers, _handle_timed_out_task(m) PROVE Numbered'
    BY <1>10, HandleTimedOutTaskEffect DEF Becomes, Numbered
  <1>11. ASSUME NEW m \in Managers, ReadQueue(m) PROVE Numbered'
    BY <1>11, ReadQueueEffect DEF Becomes, Numbered
  <1>12. ASSUME NEW m \in Managers, _update_queue_positions(m) PROVE Numbered'
    <2>1. /\ \A t \in DOMAIN mgr[m].rows : table'[t].status = "queued" /\ table'[t].pos # 0
          /\ \A t \in Requests \ DOMAIN mgr[m].rows : table'[t] = table[t]
      BY <1>12, UpdateQueuePositionsEffect DEF Numbered
    <2>2. \A k \in Managers : mgr'[k] = mgr[k] \/ mgr'[k].pc \in {"next", "loop"}
      BY <1>12, UpdateQueuePositionsEffect DEF LoopsBack, Becomes
    <2> QED  BY <2>1, <2>2 DEF Numbered
  <1>13. ASSUME NEW m \in Managers, RunningTask(m) PROVE Numbered'
    BY <1>13, RunningTaskEffect DEF Becomes, LoopsBack, Numbered
  <1>14. ASSUME NEW m \in Managers, NoRunningTask(m) PROVE Numbered'
    BY <1>14, NoRunningTaskEffect DEF Becomes, Numbered
  <1>15. ASSUME NEW m \in Managers, NextTaskNone(m) PROVE Numbered'
    BY <1>15, NextTaskNoneEffect DEF Becomes, LoopsBack, Numbered
  <1>16. ASSUME NEW m \in Managers, NextTask(m) PROVE Numbered'
    BY <1>16, NextTaskEffect DEF Becomes, Numbered
  <1>17. ASSUME NEW m \in Managers, MarkRunning(m) PROVE Numbered'
    BY <1>17, MarkRunningEffect DEF Becomes, RowSaved, Numbered
  <1>18. ASSUME NEW m \in Managers, AnalysisEnds(m) PROVE Numbered'
    BY <1>18, AnalysisEndsEffect DEF Becomes, Numbered
  <1>19. ASSUME NEW m \in Managers, AnalysisAborts(m) PROVE Numbered'
    BY <1>19, AnalysisAbortsEffect DEF Becomes, Numbered
  <1>20. ASSUME NEW m \in Managers, AnalysisFails(m) PROVE Numbered'
    BY <1>20, AnalysisFailsEffect DEF Becomes, Numbered
  <1>21. ASSUME NEW m \in Managers, get_result_file(m) PROVE Numbered'
    BY <1>21, GetResultFileEffect DEF Becomes, Numbered
  <1>22. ASSUME NEW m \in Managers, Heartbeat(m) PROVE Numbered'
    <2>1. mgr[m].copy.status = "running"
      BY <1>22, HeartbeatEffect DEF CopyKept
    <2> QED  BY <1>22, <2>1, HeartbeatEffect DEF RowSaved, Becomes, Numbered
  <1>23. ASSUME NEW m \in Managers, save_report(m) PROVE Numbered'
    BY <1>23, SaveReportEffect DEF Becomes, Numbered
  <1>24. ASSUME NEW m \in Managers, save_report_refused(m) PROVE Numbered'
    BY <1>24, SaveReportRefusedEffect DEF Becomes, Numbered
  <1>25. ASSUME NEW m \in Managers, LinkReport(m) PROVE Numbered'
    BY <1>25, LinkReportEffect DEF Becomes, RowSaved, Numbered
  <1>26. ASSUME NEW m \in Managers, LinkRefused(m) PROVE Numbered'
    BY <1>26, LinkRefusedEffect DEF Becomes, LoopsBack, Numbered
  <1>27. ASSUME NEW m \in Managers, save_professional_report(m) PROVE Numbered'
    <2>1. mgr[m].copy.status = "completed"
      BY <1>27, SaveProfessionalReportEffect DEF CopyKept
    <2> QED  BY <1>27, <2>1, SaveProfessionalReportEffect DEF RowSaved, Becomes, Numbered
  <1>28. ASSUME NEW m \in Managers, MarkFailed(m) PROVE Numbered'
    BY <1>28, MarkFailedEffect DEF Becomes, RowSaved, Numbered
  <1>29. CASE UNCHANGED vars
    BY <1>29 DEF vars, Numbered
  <1> QED
    BY <1>1, <1>2, <1>3, <1>4, <1>5, <1>6, <1>7, <1>8, <1>9, <1>10, <1>11, <1>12, <1>13,
         <1>14,
       <1>15, <1>16, <1>17, <1>18, <1>19, <1>20, <1>21, <1>22, <1>23, <1>24, <1>25, <1>26, <1>27, <1>28, <1>29
    DEF Next, Thread

(* A second report of a package is refused. *)
LEMMA OneReportStep ==
    ASSUME TypeOK, InHand, OneReport, [Next]_vars
    PROVE  OneReport'
  <1>1. ASSUME NEW r \in Requests, CreateTask(r) PROVE OneReport'
    BY <1>1, CreateTaskEffect DEF RowSaved, OneReport
  <1>2. ASSUME NEW r \in Requests, NextPosition(r) PROVE OneReport'
    BY <1>2, NextPositionEffect DEF RowSaved, OneReport
  <1>3. ASSUME NEW m \in Managers, NEW r \in Requests, add_task_to_queue(m,
       r) PROVE OneReport'
    <2>1. PICK row \in Row : RowSaved(r, row) /\ row.status = "queued" /\ row.pos # 0
      BY <1>3, AddTaskToQueueEffect
    <2>2. /\ Starts(m) /\ table[r].status = "pending" /\ clock' \in Nat
          /\ UNCHANGED <<expired, reports, volume, orphans, redis, faults>>
      BY <1>3, AddTaskToQueueEffect
    <2> QED  BY <2>1, <2>2 DEF Becomes, LoopsBack, Starts, RowSaved, OneReport
  <1>4. ASSUME NEW r \in Requests, Expires(r) PROVE OneReport'
    BY <1>4, ExpiresEffect DEF OneReport
  <1>5. ASSUME NEW m \in Managers, StartWorker(m) PROVE OneReport'
    BY <1>5, StartWorkerEffect DEF Becomes, LoopsBack, Starts, OneReport
  <1>6. ASSUME NEW m \in Managers, ProcessEnds(m) PROVE OneReport'
    BY <1>6, ProcessEndsEffect DEF Becomes, OneReport
  <1>7. ASSUME NEW p \in Packages, OrphanEnds(p) PROVE OneReport'
    BY <1>7, OrphanEndsEffect DEF OneReport
  <1>8. ASSUME NEW p \in Packages, RedisExpires(p) PROVE OneReport'
    BY <1>8, RedisExpiresEffect DEF OneReport
  <1>9. ASSUME NEW m \in Managers, check_timeouts(m) PROVE OneReport'
    BY <1>9, CheckTimeoutsEffect DEF Becomes, OneReport
  <1>10. ASSUME NEW m \in Managers, _handle_timed_out_task(m) PROVE OneReport'
    BY <1>10, HandleTimedOutTaskEffect DEF Becomes, OneReport
  <1>11. ASSUME NEW m \in Managers, ReadQueue(m) PROVE OneReport'
    BY <1>11, ReadQueueEffect DEF Becomes, OneReport
  <1>12. ASSUME NEW m \in Managers, _update_queue_positions(m) PROVE OneReport'
    BY <1>12, UpdateQueuePositionsEffect DEF Becomes, LoopsBack, OneReport
  <1>13. ASSUME NEW m \in Managers, RunningTask(m) PROVE OneReport'
    BY <1>13, RunningTaskEffect DEF Becomes, LoopsBack, OneReport
  <1>14. ASSUME NEW m \in Managers, NoRunningTask(m) PROVE OneReport'
    BY <1>14, NoRunningTaskEffect DEF Becomes, OneReport
  <1>15. ASSUME NEW m \in Managers, NextTaskNone(m) PROVE OneReport'
    BY <1>15, NextTaskNoneEffect DEF Becomes, LoopsBack, OneReport
  <1>16. ASSUME NEW m \in Managers, NextTask(m) PROVE OneReport'
    BY <1>16, NextTaskEffect DEF Becomes, OneReport
  <1>17. ASSUME NEW m \in Managers, MarkRunning(m) PROVE OneReport'
    BY <1>17, MarkRunningEffect DEF Becomes, RowSaved, OneReport
  <1>18. ASSUME NEW m \in Managers, AnalysisEnds(m) PROVE OneReport'
    BY <1>18, AnalysisEndsEffect DEF Becomes, OneReport
  <1>19. ASSUME NEW m \in Managers, AnalysisAborts(m) PROVE OneReport'
    BY <1>19, AnalysisAbortsEffect DEF Becomes, OneReport
  <1>20. ASSUME NEW m \in Managers, AnalysisFails(m) PROVE OneReport'
    BY <1>20, AnalysisFailsEffect DEF Becomes, OneReport
  <1>21. ASSUME NEW m \in Managers, get_result_file(m) PROVE OneReport'
    BY <1>21, GetResultFileEffect DEF Becomes, OneReport
  <1>22. ASSUME NEW m \in Managers, Heartbeat(m) PROVE OneReport'
    BY <1>22, HeartbeatEffect DEF Becomes, RowSaved, OneReport
  <1>23. ASSUME NEW m \in Managers, save_report(m) PROVE OneReport'
    <2>1. PICK row \in [package : Packages, content : Packages, large : BOOLEAN] :
               row.package = PackageFor(m) /\ reports' = Append(reports, row)
      BY <1>23, SaveReportEffect
    <2>2. /\ reports'[Len(reports')] = row
          /\ \A i \in DOMAIN reports : i \in DOMAIN reports' /\ reports'[i] = reports[i]
          /\ \A i \in DOMAIN reports' : i \in DOMAIN reports \/ i = Len(reports')
      BY <2>1, ReportSaved
    <2>3. \A i \in DOMAIN reports : reports[i].package # row.package
      BY <1>23, <2>1, SaveReportEffect DEF HasReportRow
    <2> QED  BY <2>2, <2>3 DEF OneReport
  <1>24. ASSUME NEW m \in Managers, save_report_refused(m) PROVE OneReport'
    BY <1>24, SaveReportRefusedEffect DEF Becomes, OneReport
  <1>25. ASSUME NEW m \in Managers, LinkReport(m) PROVE OneReport'
    BY <1>25, LinkReportEffect DEF Becomes, RowSaved, OneReport
  <1>26. ASSUME NEW m \in Managers, LinkRefused(m) PROVE OneReport'
    BY <1>26, LinkRefusedEffect DEF Becomes, LoopsBack, OneReport
  <1>27. ASSUME NEW m \in Managers, save_professional_report(m) PROVE OneReport'
    BY <1>27, SaveProfessionalReportEffect DEF Becomes, RowSaved, OneReport
  <1>28. ASSUME NEW m \in Managers, MarkFailed(m) PROVE OneReport'
    BY <1>28, MarkFailedEffect DEF Becomes, RowSaved, OneReport
  <1>29. CASE UNCHANGED vars
    BY <1>29 DEF vars, OneReport
  <1> QED
    BY <1>1, <1>2, <1>3, <1>4, <1>5, <1>6, <1>7, <1>8, <1>9, <1>10, <1>11, <1>12, <1>13,
         <1>14,
       <1>15, <1>16, <1>17, <1>18, <1>19, <1>20, <1>21, <1>22, <1>23, <1>24, <1>25, <1>26, <1>27, <1>28, <1>29
    DEF Next, Thread

(* Names are kept. *)
LEMMA SameNameStep ==
    ASSUME TypeOK, InHand, SameName, [Next]_vars
    PROVE  SameName'
  <1>1. ASSUME NEW r \in Requests, CreateTask(r) PROVE SameName'
    BY <1>1, CreateTaskEffect DEF RowSaved, SameName, PackageFor
  <1>2. ASSUME NEW r \in Requests, NextPosition(r) PROVE SameName'
    BY <1>2, NextPositionEffect DEF RowSaved, SameName, PackageFor
  <1>3. ASSUME NEW m \in Managers, NEW r \in Requests, add_task_to_queue(m,
       r) PROVE SameName'
    <2>1. PICK row \in Row : RowSaved(r, row) /\ row.status = "queued" /\ row.pos # 0
      BY <1>3, AddTaskToQueueEffect
    <2>2. /\ Starts(m) /\ table[r].status = "pending" /\ clock' \in Nat
          /\ UNCHANGED <<expired, reports, volume, orphans, redis, faults>>
      BY <1>3, AddTaskToQueueEffect
    <2> QED  BY <2>1, <2>2 DEF Becomes, LoopsBack, Starts, RowSaved, SameName, PackageFor
  <1>4. ASSUME NEW r \in Requests, Expires(r) PROVE SameName'
    BY <1>4, ExpiresEffect DEF SameName, PackageFor
  <1>5. ASSUME NEW m \in Managers, StartWorker(m) PROVE SameName'
    BY <1>5, StartWorkerEffect DEF Becomes, LoopsBack, Starts, SameName, PackageFor
  <1>6. ASSUME NEW m \in Managers, ProcessEnds(m) PROVE SameName'
    BY <1>6, ProcessEndsEffect DEF Becomes, SameName, PackageFor
  <1>7. ASSUME NEW p \in Packages, OrphanEnds(p) PROVE SameName'
    <2>1. \A n \in Names : volume'[n] = IF n = NameOf[p] THEN p ELSE volume[n]
      BY <1>7, OrphanEndsEffect DEF TypeOK
    <2> QED  BY <1>7, <2>1, OrphanEndsEffect DEF SameName, PackageFor
  <1>8. ASSUME NEW p \in Packages, RedisExpires(p) PROVE SameName'
    BY <1>8, RedisExpiresEffect DEF SameName, PackageFor
  <1>9. ASSUME NEW m \in Managers, check_timeouts(m) PROVE SameName'
    BY <1>9, CheckTimeoutsEffect DEF Becomes, SameName, PackageFor
  <1>10. ASSUME NEW m \in Managers, _handle_timed_out_task(m) PROVE SameName'
    BY <1>10, HandleTimedOutTaskEffect DEF Becomes, SameName, PackageFor
  <1>11. ASSUME NEW m \in Managers, ReadQueue(m) PROVE SameName'
    BY <1>11, ReadQueueEffect DEF Becomes, SameName, PackageFor
  <1>12. ASSUME NEW m \in Managers, _update_queue_positions(m) PROVE SameName'
    BY <1>12, UpdateQueuePositionsEffect DEF Becomes, LoopsBack, SameName, PackageFor
  <1>13. ASSUME NEW m \in Managers, RunningTask(m) PROVE SameName'
    BY <1>13, RunningTaskEffect DEF Becomes, LoopsBack, SameName, PackageFor
  <1>14. ASSUME NEW m \in Managers, NoRunningTask(m) PROVE SameName'
    BY <1>14, NoRunningTaskEffect DEF Becomes, SameName, PackageFor
  <1>15. ASSUME NEW m \in Managers, NextTaskNone(m) PROVE SameName'
    BY <1>15, NextTaskNoneEffect DEF Becomes, LoopsBack, SameName, PackageFor
  <1>16. ASSUME NEW m \in Managers, NextTask(m) PROVE SameName'
    BY <1>16, NextTaskEffect DEF Becomes, SameName, PackageFor
  <1>17. ASSUME NEW m \in Managers, MarkRunning(m) PROVE SameName'
    BY <1>17, MarkRunningEffect DEF Becomes, RowSaved, SameName, PackageFor
  <1>18. ASSUME NEW m \in Managers, AnalysisEnds(m) PROVE SameName'
    <2>1. \A n \in Names : volume'[n] = IF n = NameOf[PackageFor(m)] THEN PackageFor(m) ELSE volume[n]
      BY <1>18, AnalysisEndsEffect DEF TypeOK
    <2>2. \A n \in Names : volume'[n] # None => NameOf[volume'[n]] = n
      BY <2>1 DEF SameName
    <2>3. \A k \in Managers : mgr'[k] = mgr[k] \/ mgr'[k].pc = "read"
      BY <1>18, AnalysisEndsEffect DEF Becomes
    <2>4. \A k \in Managers : mgr'[k].pc \in {"heartbeat", "save"} =>
              NameOf[mgr'[k].result] = NameOf[PackageFor(k)']
      BY <2>3 DEF SameName, PackageFor
    <2> QED  BY <1>18, <2>2, <2>4, AnalysisEndsEffect DEF SameName
  <1>19. ASSUME NEW m \in Managers, AnalysisAborts(m) PROVE SameName'
    BY <1>19, AnalysisAbortsEffect DEF Becomes, SameName, PackageFor
  <1>20. ASSUME NEW m \in Managers, AnalysisFails(m) PROVE SameName'
    BY <1>20, AnalysisFailsEffect DEF Becomes, SameName, PackageFor
  <1>21. ASSUME NEW m \in Managers, get_result_file(m) PROVE SameName'
    <2>1. PICK found \in Packages \cup {None} :
              /\ found = volume[NameOf[PackageFor(m)]]
              /\ Becomes(m, IF found = None THEN "fail" ELSE "heartbeat", mgr[m].task, mgr[m].copy,
                         found, mgr[m].rows)
      BY <1>21, GetResultFileEffect
    <2>2. NameOf[PackageFor(m)] \in Names
      BY <1>21, GetResultFileEffect, PackageInHand DEF TaskSteps
    <2>3. found # None => NameOf[found] = NameOf[PackageFor(m)]
      BY <2>1, <2>2 DEF SameName
    <2>4. /\ mgr'[m].pc = IF found = None THEN "fail" ELSE "heartbeat"
          /\ mgr'[m].result = found /\ PackageFor(m)' = PackageFor(m)
          /\ \A k \in Managers \ {m} : mgr'[k] = mgr[k] /\ PackageFor(k)' = PackageFor(k)
      BY <2>1 DEF Becomes, PackageFor
    <2>5. \A k \in Managers : mgr'[k].pc \in {"heartbeat", "save"} =>
              NameOf[mgr'[k].result] = NameOf[PackageFor(k)']
      BY <2>3, <2>4 DEF SameName
    <2> QED  BY <1>21, <2>5, GetResultFileEffect DEF SameName
  <1>22. ASSUME NEW m \in Managers, Heartbeat(m) PROVE SameName'
    BY <1>22, HeartbeatEffect DEF Becomes, RowSaved, SameName, PackageFor
  <1>23. ASSUME NEW m \in Managers, save_report(m) PROVE SameName'
    <2>1. PICK row \in [package : Packages, content : Packages, large : BOOLEAN] :
               row.package = PackageFor(m) /\ row.content = mgr[m].result /\ reports' = Append(reports, row)
      BY <1>23, SaveReportEffect
    <2>2. /\ reports'[Len(reports')] = row
          /\ \A i \in DOMAIN reports : i \in DOMAIN reports' /\ reports'[i] = reports[i]
          /\ \A i \in DOMAIN reports' : i \in DOMAIN reports \/ i = Len(reports')
      BY <2>1, ReportSaved
    <2>3. NameOf[row.content] = NameOf[row.package]
      BY <1>23, <2>1, SaveReportEffect DEF SameName
    <2>4. \A k \in Managers : mgr'[k] = mgr[k] \/ mgr'[k].pc = "link"
      BY <1>23, SaveReportEffect DEF Becomes
    <2>5. \A k \in Managers : mgr'[k].pc \in {"heartbeat", "save"} =>
              NameOf[mgr'[k].result] = NameOf[PackageFor(k)']
      BY <2>4 DEF SameName, PackageFor
    <2>6. \A i \in DOMAIN reports' : NameOf[reports'[i].content] = NameOf[reports'[i].package]
      BY <2>2, <2>3 DEF SameName
    <2> QED  BY <1>23, <2>5, <2>6, SaveReportEffect DEF SameName
  <1>24. ASSUME NEW m \in Managers, save_report_refused(m) PROVE SameName'
    BY <1>24, SaveReportRefusedEffect DEF Becomes, SameName, PackageFor
  <1>25. ASSUME NEW m \in Managers, LinkReport(m) PROVE SameName'
    BY <1>25, LinkReportEffect DEF Becomes, RowSaved, SameName, PackageFor
  <1>26. ASSUME NEW m \in Managers, LinkRefused(m) PROVE SameName'
    BY <1>26, LinkRefusedEffect DEF Becomes, LoopsBack, SameName, PackageFor
  <1>27. ASSUME NEW m \in Managers, save_professional_report(m) PROVE SameName'
    BY <1>27, SaveProfessionalReportEffect DEF Becomes, RowSaved, SameName, PackageFor
  <1>28. ASSUME NEW m \in Managers, MarkFailed(m) PROVE SameName'
    BY <1>28, MarkFailedEffect DEF Becomes, RowSaved, SameName, PackageFor
  <1>29. CASE UNCHANGED vars
    BY <1>29 DEF vars, SameName, PackageFor
  <1> QED
    BY <1>1, <1>2, <1>3, <1>4, <1>5, <1>6, <1>7, <1>8, <1>9, <1>10, <1>11, <1>12, <1>13,
         <1>14,
       <1>15, <1>16, <1>17, <1>18, <1>19, <1>20, <1>21, <1>22, <1>23, <1>24, <1>25, <1>26, <1>27, <1>28, <1>29
    DEF Next, Thread

-----------------------------------------------------------------------------
(* A thread that is alone. *)

(* Unless crowded, at most one thread is up. *)
OneUp == crowded = FALSE => \A k, m \in Managers : Up(k) /\ Up(m) => k = m

(* What a thread that is alone knows of the table: the rows it read are still
   what they were, and its own task is as it left it. *)
Undisturbed(m) ==
    /\ mgr[m].pc = "timeouts" => \A t \in DOMAIN mgr[m].rows : table[t].status = "running"
    /\ mgr[m].pc = "renumbered" => \A t \in DOMAIN mgr[m].rows : table[t].status = "queued"
    /\ mgr[m].pc \in {"pick", "take"} => \A t \in Requests : table[t].status # "running"
    /\ mgr[m].pc = "take" => table[mgr[m].task].status = "queued"
    /\ mgr[m].pc \in {"analyse", "read", "heartbeat", "save", "link", "fail"} =>
           table[mgr[m].task].status = "running"
    /\ mgr[m].pc = "publish" => table[mgr[m].task].status = "completed"

Alone == crowded = FALSE => \A m \in Managers : Undisturbed(m)

(* Unless crowded, a completed row has its own report: the newest one is that of
   the thread that is about to link it. *)
Linked ==
    crowded = FALSE =>
        /\ \A t \in Requests : table[t].status = "completed" => table[t].report = PackageOfTask(t)
        /\ \A m \in Managers : mgr[m].pc = "link" => Latest = PackageFor(m)
        /\ \A m \in Managers : mgr[m].pc = "publish" => mgr[m].copy.report = PackageFor(m)

(* Unless crowded, and without a fault, the file of a package is its own. *)
Faultless ==
    crowded = FALSE /\ faults = 0 =>
        /\ orphans = {}
        /\ \A m \in Managers : mgr[m].pc = "read" =>
               volume[NameOf[PackageFor(m)]] = PackageFor(m)
        /\ \A m \in Managers : mgr[m].pc \in {"heartbeat", "save"} => mgr[m].result = PackageFor(m)
        /\ \A i \in DOMAIN reports : reports[i].content = reports[i].package

(* Only the first thread is started unless it is crowded. *)
LEMMA OneUpStep ==
    ASSUME TypeOK, InHand, OneUp, [Next]_vars
    PROVE  OneUp'
  <1>1. ASSUME NEW r \in Requests, CreateTask(r) PROVE OneUp'
    BY <1>1, CreateTaskEffect DEF RowSaved, OneUp, Up
  <1>2. ASSUME NEW r \in Requests, NextPosition(r) PROVE OneUp'
    BY <1>2, NextPositionEffect DEF RowSaved, OneUp, Up
  <1>3. ASSUME NEW m \in Managers, NEW r \in Requests, add_task_to_queue(m,
       r) PROVE OneUp'
    <2>1. PICK row \in Row : RowSaved(r, row) /\ row.status = "queued" /\ row.pos # 0
      BY <1>3, AddTaskToQueueEffect
    <2>2. /\ Starts(m) /\ table[r].status = "pending" /\ clock' \in Nat
          /\ UNCHANGED <<expired, reports, volume, orphans, redis, faults>>
      BY <1>3, AddTaskToQueueEffect
    <2> QED  BY <2>1, <2>2 DEF Becomes, LoopsBack, Starts, RowSaved, OneUp, Up
  <1>4. ASSUME NEW r \in Requests, Expires(r) PROVE OneUp'
    BY <1>4, ExpiresEffect DEF OneUp, Up
  <1>5. ASSUME NEW m \in Managers, StartWorker(m) PROVE OneUp'
    BY <1>5, StartWorkerEffect DEF Becomes, LoopsBack, Starts, OneUp, Up
  <1>6. ASSUME NEW m \in Managers, ProcessEnds(m) PROVE OneUp'
    BY <1>6, ProcessEndsEffect DEF Becomes, OneUp, Up
  <1>7. ASSUME NEW p \in Packages, OrphanEnds(p) PROVE OneUp'
    BY <1>7, OrphanEndsEffect DEF OneUp, Up
  <1>8. ASSUME NEW p \in Packages, RedisExpires(p) PROVE OneUp'
    BY <1>8, RedisExpiresEffect DEF OneUp, Up
  <1>9. ASSUME NEW m \in Managers, check_timeouts(m) PROVE OneUp'
    BY <1>9, CheckTimeoutsEffect DEF Becomes, OneUp, Up
  <1>10. ASSUME NEW m \in Managers, _handle_timed_out_task(m) PROVE OneUp'
    BY <1>10, HandleTimedOutTaskEffect DEF Becomes, OneUp, Up
  <1>11. ASSUME NEW m \in Managers, ReadQueue(m) PROVE OneUp'
    BY <1>11, ReadQueueEffect DEF Becomes, OneUp, Up
  <1>12. ASSUME NEW m \in Managers, _update_queue_positions(m) PROVE OneUp'
    BY <1>12, UpdateQueuePositionsEffect DEF Becomes, LoopsBack, OneUp, Up
  <1>13. ASSUME NEW m \in Managers, RunningTask(m) PROVE OneUp'
    BY <1>13, RunningTaskEffect DEF Becomes, LoopsBack, OneUp, Up
  <1>14. ASSUME NEW m \in Managers, NoRunningTask(m) PROVE OneUp'
    BY <1>14, NoRunningTaskEffect DEF Becomes, OneUp, Up
  <1>15. ASSUME NEW m \in Managers, NextTaskNone(m) PROVE OneUp'
    BY <1>15, NextTaskNoneEffect DEF Becomes, LoopsBack, OneUp, Up
  <1>16. ASSUME NEW m \in Managers, NextTask(m) PROVE OneUp'
    BY <1>16, NextTaskEffect DEF Becomes, OneUp, Up
  <1>17. ASSUME NEW m \in Managers, MarkRunning(m) PROVE OneUp'
    BY <1>17, MarkRunningEffect DEF Becomes, RowSaved, OneUp, Up
  <1>18. ASSUME NEW m \in Managers, AnalysisEnds(m) PROVE OneUp'
    BY <1>18, AnalysisEndsEffect DEF Becomes, OneUp, Up
  <1>19. ASSUME NEW m \in Managers, AnalysisAborts(m) PROVE OneUp'
    BY <1>19, AnalysisAbortsEffect DEF Becomes, OneUp, Up
  <1>20. ASSUME NEW m \in Managers, AnalysisFails(m) PROVE OneUp'
    BY <1>20, AnalysisFailsEffect DEF Becomes, OneUp, Up
  <1>21. ASSUME NEW m \in Managers, get_result_file(m) PROVE OneUp'
    BY <1>21, GetResultFileEffect DEF Becomes, OneUp, Up
  <1>22. ASSUME NEW m \in Managers, Heartbeat(m) PROVE OneUp'
    BY <1>22, HeartbeatEffect DEF Becomes, RowSaved, OneUp, Up
  <1>23. ASSUME NEW m \in Managers, save_report(m) PROVE OneUp'
    BY <1>23, SaveReportEffect DEF Becomes, OneUp, Up
  <1>24. ASSUME NEW m \in Managers, save_report_refused(m) PROVE OneUp'
    BY <1>24, SaveReportRefusedEffect DEF Becomes, OneUp, Up
  <1>25. ASSUME NEW m \in Managers, LinkReport(m) PROVE OneUp'
    BY <1>25, LinkReportEffect DEF Becomes, RowSaved, OneUp, Up
  <1>26. ASSUME NEW m \in Managers, LinkRefused(m) PROVE OneUp'
    BY <1>26, LinkRefusedEffect DEF Becomes, LoopsBack, OneUp, Up
  <1>27. ASSUME NEW m \in Managers, save_professional_report(m) PROVE OneUp'
    BY <1>27, SaveProfessionalReportEffect DEF Becomes, RowSaved, OneUp, Up
  <1>28. ASSUME NEW m \in Managers, MarkFailed(m) PROVE OneUp'
    BY <1>28, MarkFailedEffect DEF Becomes, RowSaved, OneUp, Up
  <1>29. CASE UNCHANGED vars
    BY <1>29 DEF vars, OneUp, Up
  <1> QED
    BY <1>1, <1>2, <1>3, <1>4, <1>5, <1>6, <1>7, <1>8, <1>9, <1>10, <1>11, <1>12, <1>13,
         <1>14,
       <1>15, <1>16, <1>17, <1>18, <1>19, <1>20, <1>21, <1>22, <1>23, <1>24, <1>25, <1>26, <1>27, <1>28, <1>29
    DEF Next, Thread

(* The rows of a thread are rows of the table. *)
LEMMA RowsInHand ==
    ASSUME TypeOK, NEW m \in Managers
    PROVE  DOMAIN mgr[m].rows \subseteq Requests
  BY MapsOfRows DEF TypeOK, ThreadState

(* A thread that takes a step is the only one. *)
LEMMA OthersDown ==
    ASSUME OneUp, crowded = FALSE, NEW m \in Managers, mgr[m].pc # "down"
    PROVE  \A k \in Managers \ {m} : mgr[k].pc = "down"
  BY DEF OneUp, Up

(* A row that is created or queued was in no one's hands. *)
LEMMA NewRowUndisturbed ==
    ASSUME TypeOK, InHand, NEW m \in Managers, Undisturbed(m), NEW r \in Requests,
         NEW row \in Row,
           RowSaved(r, row), table[r].status \in {"absent", "pending"},
           row.status \in {"pending", "queued"}, mgr'[m] = mgr[m]
    PROVE  Undisturbed(m)'
  <1>1. \A t \in Requests : t # r => table'[t] = table[t]
    BY DEF RowSaved
  <1>2. table'[r].status \in {"pending", "queued"}
    BY DEF RowSaved
  <1>3. DOMAIN mgr[m].rows \subseteq Requests
    BY RowsInHand
  <1>4. mgr[m].pc \in TaskSteps => mgr[m].task \in Requests
    BY DEF InHand
  <1> QED  BY <1>1, <1>2, <1>3, <1>4 DEF Undisturbed, TaskSteps

(* A thread that is alone finds the table as it left it. *)
LEMMA AloneStep ==
    ASSUME TypeOK, InHand, CopyKept, Numbered, OneUp, Alone, [Next]_vars
    PROVE  Alone'
  <1>1. ASSUME NEW r \in Requests, CreateTask(r) PROVE Alone'
    <2>1. PICK row \in Row : RowSaved(r, row) /\ row.status = "pending"
      BY <1>1, CreateTaskEffect
    <2>2. UNCHANGED <<mgr, crowded>> /\ table[r].status \in {"absent", "pending"}
      BY <1>1, CreateTaskEffect
    <2> QED  BY <2>1, <2>2, NewRowUndisturbed DEF Alone
  <1>2. ASSUME NEW r \in Requests, NextPosition(r) PROVE Alone'
    <2>1. PICK row \in Row : RowSaved(r, row) /\ row.status = "pending"
      BY <1>2, NextPositionEffect
    <2>2. UNCHANGED <<mgr, crowded>> /\ table[r].status \in {"absent", "pending"}
      BY <1>2, NextPositionEffect
    <2> QED  BY <2>1, <2>2, NewRowUndisturbed DEF Alone
  <1>3. ASSUME NEW m \in Managers, NEW r \in Requests, add_task_to_queue(m,
       r) PROVE Alone'
    <2>1. PICK row \in Row : RowSaved(r, row) /\ row.status = "queued"
      BY <1>3, AddTaskToQueueEffect
    <2>2. Starts(m) /\ table[r].status = "pending"
      BY <1>3, AddTaskToQueueEffect
    <2> SUFFICES ASSUME crowded' = FALSE, NEW k \in Managers PROVE Undisturbed(k)'
      BY DEF Alone
    <2>3. crowded = FALSE /\ (mgr'[k] = mgr[k] \/ mgr'[k].pc = "loop")
      BY <2>2 DEF Starts, LoopsBack, Becomes
    <2>4. CASE mgr'[k] = mgr[k]
      BY <2>1, <2>2, <2>3, <2>4, NewRowUndisturbed DEF Alone
    <2>5. CASE mgr'[k].pc = "loop"
      BY <2>5 DEF Undisturbed
    <2> QED  BY <2>3, <2>4, <2>5
  <1>4. ASSUME NEW r \in Requests, Expires(r) PROVE Alone'
    BY <1>4, ExpiresEffect DEF Alone, Undisturbed
  <1>5. ASSUME NEW m \in Managers, StartWorker(m) PROVE Alone'
    <2>1. Starts(m) /\ table' = table
      BY <1>5, StartWorkerEffect
    <2> SUFFICES ASSUME crowded' = FALSE, NEW k \in Managers PROVE Undisturbed(k)'
      BY DEF Alone
    <2>2. crowded = FALSE /\ (mgr'[k] = mgr[k] \/ mgr'[k].pc = "loop")
      BY <2>1 DEF Starts, LoopsBack, Becomes
    <2> QED  BY <2>1, <2>2 DEF Undisturbed, Alone
  <1>6. ASSUME NEW m \in Managers, ProcessEnds(m) PROVE Alone'
    <2> SUFFICES ASSUME crowded' = FALSE PROVE \A k \in Managers : Undisturbed(k)'
      BY DEF Alone
    <2>1. crowded = FALSE /\ mgr[m].pc # "down"
      BY <1>6, ProcessEndsEffect DEF ProcessEnds, Up
    <2>2. \A k \in Managers \ {m} : mgr[k].pc = "down"
      BY <2>1, OthersDown
    <2>3. \A k \in Managers \ {m} : mgr'[k].pc = "down"
      BY <1>6, <2>2, ProcessEndsEffect DEF Becomes
    <2>4. Undisturbed(m) /\ DOMAIN mgr[m].rows \subseteq Requests
      BY <2>1, RowsInHand DEF Alone
    <2>5. Undisturbed(m)'
      BY <1>6, <2>4, ProcessEndsEffect DEF Becomes, Undisturbed
    <2>6. \A k \in Managers \ {m} : Undisturbed(k)'
      BY <2>3 DEF Undisturbed
    <2> QED  BY <2>5, <2>6
  <1>7. ASSUME NEW p \in Packages, OrphanEnds(p) PROVE Alone'
    BY <1>7, OrphanEndsEffect DEF Alone, Undisturbed
  <1>8. ASSUME NEW p \in Packages, RedisExpires(p) PROVE Alone'
    BY <1>8, RedisExpiresEffect DEF Alone, Undisturbed
  <1>9. ASSUME NEW m \in Managers, check_timeouts(m) PROVE Alone'
    <2> SUFFICES ASSUME crowded' = FALSE PROVE \A k \in Managers : Undisturbed(k)'
      BY DEF Alone
    <2>1. crowded = FALSE /\ mgr[m].pc # "down"
      BY <1>9, CheckTimeoutsEffect
    <2>2. \A k \in Managers \ {m} : mgr[k].pc = "down"
      BY <2>1, OthersDown
    <2>3. \A k \in Managers \ {m} : mgr'[k].pc = "down"
      BY <1>9, <2>2, CheckTimeoutsEffect DEF Becomes
    <2>4. Undisturbed(m) /\ DOMAIN mgr[m].rows \subseteq Requests
      BY <2>1, RowsInHand DEF Alone
    <2>5. Undisturbed(m)'
      BY <1>9, <2>4, CheckTimeoutsEffect DEF Becomes, Undisturbed
    <2>6. \A k \in Managers \ {m} : Undisturbed(k)'
      BY <2>3 DEF Undisturbed
    <2> QED  BY <2>5, <2>6
  <1>10. ASSUME NEW m \in Managers, _handle_timed_out_task(m) PROVE Alone'
    <2> SUFFICES ASSUME crowded' = FALSE PROVE \A k \in Managers : Undisturbed(k)'
      BY DEF Alone
    <2>1. crowded = FALSE /\ mgr[m].pc # "down"
      BY <1>10, HandleTimedOutTaskEffect
    <2>2. \A k \in Managers \ {m} : mgr[k].pc = "down"
      BY <2>1, OthersDown
    <2>3. \A k \in Managers \ {m} : mgr'[k].pc = "down"
      BY <1>10, <2>2, HandleTimedOutTaskEffect DEF Becomes
    <2>4. Undisturbed(m) /\ DOMAIN mgr[m].rows \subseteq Requests
      BY <2>1, RowsInHand DEF Alone
    <2>5. Undisturbed(m)'
      BY <1>10, <2>4, HandleTimedOutTaskEffect DEF Becomes, Undisturbed
    <2>6. \A k \in Managers \ {m} : Undisturbed(k)'
      BY <2>3 DEF Undisturbed
    <2> QED  BY <2>5, <2>6
  <1>11. ASSUME NEW m \in Managers, ReadQueue(m) PROVE Alone'
    <2> SUFFICES ASSUME crowded' = FALSE PROVE \A k \in Managers : Undisturbed(k)'
      BY DEF Alone
    <2>1. crowded = FALSE /\ mgr[m].pc # "down"
      BY <1>11, ReadQueueEffect
    <2>2. \A k \in Managers \ {m} : mgr[k].pc = "down"
      BY <2>1, OthersDown
    <2>3. \A k \in Managers \ {m} : mgr'[k].pc = "down"
      BY <1>11, <2>2, ReadQueueEffect DEF Becomes
    <2>4. Undisturbed(m) /\ DOMAIN mgr[m].rows \subseteq Requests
      BY <2>1, RowsInHand DEF Alone
    <2>5. Undisturbed(m)'
      BY <1>11, <2>4, ReadQueueEffect DEF Becomes, Undisturbed
    <2>6. \A k \in Managers \ {m} : Undisturbed(k)'
      BY <2>3 DEF Undisturbed
    <2> QED  BY <2>5, <2>6
  <1>12. ASSUME NEW m \in Managers, _update_queue_positions(m) PROVE Alone'
    <2> SUFFICES ASSUME crowded' = FALSE PROVE \A k \in Managers : Undisturbed(k)'
      BY DEF Alone
    <2>1. crowded = FALSE /\ mgr[m].pc # "down"
      BY <1>12, UpdateQueuePositionsEffect
    <2>2. \A k \in Managers \ {m} : mgr[k].pc = "down"
      BY <2>1, OthersDown
    <2>3. \A k \in Managers \ {m} : mgr'[k].pc = "down"
      BY <1>12, <2>2, UpdateQueuePositionsEffect DEF Becomes, LoopsBack
    <2>4. Undisturbed(m) /\ DOMAIN mgr[m].rows \subseteq Requests
      BY <2>1, RowsInHand DEF Alone
    <2>5. Undisturbed(m)'
      BY <1>12, <2>4, UpdateQueuePositionsEffect DEF Becomes, Undisturbed, LoopsBack,
           CopyKept, Numbered
    <2>6. \A k \in Managers \ {m} : Undisturbed(k)'
      BY <2>3 DEF Undisturbed
    <2> QED  BY <2>5, <2>6
  <1>13. ASSUME NEW m \in Managers, RunningTask(m) PROVE Alone'
    <2> SUFFICES ASSUME crowded' = FALSE PROVE \A k \in Managers : Undisturbed(k)'
      BY DEF Alone
    <2>1. crowded = FALSE /\ mgr[m].pc # "down"
      BY <1>13, RunningTaskEffect
    <2>2. \A k \in Managers \ {m} : mgr[k].pc = "down"
      BY <2>1, OthersDown
    <2>3. \A k \in Managers \ {m} : mgr'[k].pc = "down"
      BY <1>13, <2>2, RunningTaskEffect DEF Becomes, LoopsBack
    <2>4. Undisturbed(m) /\ DOMAIN mgr[m].rows \subseteq Requests
      BY <2>1, RowsInHand DEF Alone
    <2>5. Undisturbed(m)'
      BY <1>13, <2>4, RunningTaskEffect DEF Becomes, Undisturbed, LoopsBack
    <2>6. \A k \in Managers \ {m} : Undisturbed(k)'
      BY <2>3 DEF Undisturbed
    <2> QED  BY <2>5, <2>6
  <1>14. ASSUME NEW m \in Managers, NoRunningTask(m) PROVE Alone'
    <2> SUFFICES ASSUME crowded' = FALSE PROVE \A k \in Managers : Undisturbed(k)'
      BY DEF Alone
    <2>1. crowded = FALSE /\ mgr[m].pc # "down"
      BY <1>14, NoRunningTaskEffect
    <2>2. \A k \in Managers \ {m} : mgr[k].pc = "down"
      BY <2>1, OthersDown
    <2>3. \A k \in Managers \ {m} : mgr'[k].pc = "down"
      BY <1>14, <2>2, NoRunningTaskEffect DEF Becomes
    <2>4. Undisturbed(m) /\ DOMAIN mgr[m].rows \subseteq Requests
      BY <2>1, RowsInHand DEF Alone
    <2>5. Undisturbed(m)'
      BY <1>14, <2>4, NoRunningTaskEffect DEF Becomes, Undisturbed
    <2>6. \A k \in Managers \ {m} : Undisturbed(k)'
      BY <2>3 DEF Undisturbed
    <2> QED  BY <2>5, <2>6
  <1>15. ASSUME NEW m \in Managers, NextTaskNone(m) PROVE Alone'
    <2> SUFFICES ASSUME crowded' = FALSE PROVE \A k \in Managers : Undisturbed(k)'
      BY DEF Alone
    <2>1. crowded = FALSE /\ mgr[m].pc # "down"
      BY <1>15, NextTaskNoneEffect
    <2>2. \A k \in Managers \ {m} : mgr[k].pc = "down"
      BY <2>1, OthersDown
    <2>3. \A k \in Managers \ {m} : mgr'[k].pc = "down"
      BY <1>15, <2>2, NextTaskNoneEffect DEF Becomes, LoopsBack
    <2>4. Undisturbed(m) /\ DOMAIN mgr[m].rows \subseteq Requests
      BY <2>1, RowsInHand DEF Alone
    <2>5. Undisturbed(m)'
      BY <1>15, <2>4, NextTaskNoneEffect DEF Becomes, Undisturbed, LoopsBack
    <2>6. \A k \in Managers \ {m} : Undisturbed(k)'
      BY <2>3 DEF Undisturbed
    <2> QED  BY <2>5, <2>6
  <1>16. ASSUME NEW m \in Managers, NextTask(m) PROVE Alone'
    <2> SUFFICES ASSUME crowded' = FALSE PROVE \A k \in Managers : Undisturbed(k)'
      BY DEF Alone
    <2>1. crowded = FALSE /\ mgr[m].pc # "down"
      BY <1>16, NextTaskEffect
    <2>2. \A k \in Managers \ {m} : mgr[k].pc = "down"
      BY <2>1, OthersDown
    <2>3. \A k \in Managers \ {m} : mgr'[k].pc = "down"
      BY <1>16, <2>2, NextTaskEffect DEF Becomes
    <2>4. Undisturbed(m) /\ DOMAIN mgr[m].rows \subseteq Requests
      BY <2>1, RowsInHand DEF Alone
    <2>5. Undisturbed(m)'
      BY <1>16, <2>4, NextTaskEffect DEF Becomes, Undisturbed
    <2>6. \A k \in Managers \ {m} : Undisturbed(k)'
      BY <2>3 DEF Undisturbed
    <2> QED  BY <2>5, <2>6
  <1>17. ASSUME NEW m \in Managers, MarkRunning(m) PROVE Alone'
    <2> SUFFICES ASSUME crowded' = FALSE PROVE \A k \in Managers : Undisturbed(k)'
      BY DEF Alone
    <2>1. crowded = FALSE /\ mgr[m].pc # "down"
      BY <1>17, MarkRunningEffect
    <2>2. \A k \in Managers \ {m} : mgr[k].pc = "down"
      BY <2>1, OthersDown
    <2>3. \A k \in Managers \ {m} : mgr'[k].pc = "down"
      BY <1>17, <2>2, MarkRunningEffect DEF Becomes
    <2>4. Undisturbed(m) /\ DOMAIN mgr[m].rows \subseteq Requests
      BY <2>1, RowsInHand DEF Alone
    <2>5. Undisturbed(m)'
      BY <1>17, <2>4, MarkRunningEffect DEF Becomes, Undisturbed, RowSaved
    <2>6. \A k \in Managers \ {m} : Undisturbed(k)'
      BY <2>3 DEF Undisturbed
    <2> QED  BY <2>5, <2>6
  <1>18. ASSUME NEW m \in Managers, AnalysisEnds(m) PROVE Alone'
    <2> SUFFICES ASSUME crowded' = FALSE PROVE \A k \in Managers : Undisturbed(k)'
      BY DEF Alone
    <2>1. crowded = FALSE /\ mgr[m].pc # "down"
      BY <1>18, AnalysisEndsEffect
    <2>2. \A k \in Managers \ {m} : mgr[k].pc = "down"
      BY <2>1, OthersDown
    <2>3. \A k \in Managers \ {m} : mgr'[k].pc = "down"
      BY <1>18, <2>2, AnalysisEndsEffect DEF Becomes
    <2>4. Undisturbed(m) /\ DOMAIN mgr[m].rows \subseteq Requests
      BY <2>1, RowsInHand DEF Alone
    <2>5. Undisturbed(m)'
      BY <1>18, <2>4, AnalysisEndsEffect DEF Becomes, Undisturbed
    <2>6. \A k \in Managers \ {m} : Undisturbed(k)'
      BY <2>3 DEF Undisturbed
    <2> QED  BY <2>5, <2>6
  <1>19. ASSUME NEW m \in Managers, AnalysisAborts(m) PROVE Alone'
    <2> SUFFICES ASSUME crowded' = FALSE PROVE \A k \in Managers : Undisturbed(k)'
      BY DEF Alone
    <2>1. crowded = FALSE /\ mgr[m].pc # "down"
      BY <1>19, AnalysisAbortsEffect
    <2>2. \A k \in Managers \ {m} : mgr[k].pc = "down"
      BY <2>1, OthersDown
    <2>3. \A k \in Managers \ {m} : mgr'[k].pc = "down"
      BY <1>19, <2>2, AnalysisAbortsEffect DEF Becomes
    <2>4. Undisturbed(m) /\ DOMAIN mgr[m].rows \subseteq Requests
      BY <2>1, RowsInHand DEF Alone
    <2>5. Undisturbed(m)'
      BY <1>19, <2>4, AnalysisAbortsEffect DEF Becomes, Undisturbed
    <2>6. \A k \in Managers \ {m} : Undisturbed(k)'
      BY <2>3 DEF Undisturbed
    <2> QED  BY <2>5, <2>6
  <1>20. ASSUME NEW m \in Managers, AnalysisFails(m) PROVE Alone'
    <2> SUFFICES ASSUME crowded' = FALSE PROVE \A k \in Managers : Undisturbed(k)'
      BY DEF Alone
    <2>1. crowded = FALSE /\ mgr[m].pc # "down"
      BY <1>20, AnalysisFailsEffect
    <2>2. \A k \in Managers \ {m} : mgr[k].pc = "down"
      BY <2>1, OthersDown
    <2>3. \A k \in Managers \ {m} : mgr'[k].pc = "down"
      BY <1>20, <2>2, AnalysisFailsEffect DEF Becomes
    <2>4. Undisturbed(m) /\ DOMAIN mgr[m].rows \subseteq Requests
      BY <2>1, RowsInHand DEF Alone
    <2>5. Undisturbed(m)'
      BY <1>20, <2>4, AnalysisFailsEffect DEF Becomes, Undisturbed
    <2>6. \A k \in Managers \ {m} : Undisturbed(k)'
      BY <2>3 DEF Undisturbed
    <2> QED  BY <2>5, <2>6
  <1>21. ASSUME NEW m \in Managers, get_result_file(m) PROVE Alone'
    <2> SUFFICES ASSUME crowded' = FALSE PROVE \A k \in Managers : Undisturbed(k)'
      BY DEF Alone
    <2>1. crowded = FALSE /\ mgr[m].pc # "down"
      BY <1>21, GetResultFileEffect
    <2>2. \A k \in Managers \ {m} : mgr[k].pc = "down"
      BY <2>1, OthersDown
    <2>3. \A k \in Managers \ {m} : mgr'[k].pc = "down"
      BY <1>21, <2>2, GetResultFileEffect DEF Becomes
    <2>4. Undisturbed(m) /\ DOMAIN mgr[m].rows \subseteq Requests
      BY <2>1, RowsInHand DEF Alone
    <2>5. Undisturbed(m)'
      BY <1>21, <2>4, GetResultFileEffect DEF Becomes, Undisturbed
    <2>6. \A k \in Managers \ {m} : Undisturbed(k)'
      BY <2>3 DEF Undisturbed
    <2> QED  BY <2>5, <2>6
  <1>22. ASSUME NEW m \in Managers, Heartbeat(m) PROVE Alone'
    <2> SUFFICES ASSUME crowded' = FALSE PROVE \A k \in Managers : Undisturbed(k)'
      BY DEF Alone
    <2>1. crowded = FALSE /\ mgr[m].pc # "down"
      BY <1>22, HeartbeatEffect
    <2>2. \A k \in Managers \ {m} : mgr[k].pc = "down"
      BY <2>1, OthersDown
    <2>3. \A k \in Managers \ {m} : mgr'[k].pc = "down"
      BY <1>22, <2>2, HeartbeatEffect DEF Becomes
    <2>4. Undisturbed(m) /\ DOMAIN mgr[m].rows \subseteq Requests
      BY <2>1, RowsInHand DEF Alone
    <2>5. Undisturbed(m)'
      BY <1>22, <2>4, HeartbeatEffect DEF Becomes, Undisturbed, RowSaved, CopyKept,
           Numbered
    <2>6. \A k \in Managers \ {m} : Undisturbed(k)'
      BY <2>3 DEF Undisturbed
    <2> QED  BY <2>5, <2>6
  <1>23. ASSUME NEW m \in Managers, save_report(m) PROVE Alone'
    <2> SUFFICES ASSUME crowded' = FALSE PROVE \A k \in Managers : Undisturbed(k)'
      BY DEF Alone
    <2>1. crowded = FALSE /\ mgr[m].pc # "down"
      BY <1>23, SaveReportEffect
    <2>2. \A k \in Managers \ {m} : mgr[k].pc = "down"
      BY <2>1, OthersDown
    <2>3. \A k \in Managers \ {m} : mgr'[k].pc = "down"
      BY <1>23, <2>2, SaveReportEffect DEF Becomes
    <2>4. Undisturbed(m) /\ DOMAIN mgr[m].rows \subseteq Requests
      BY <2>1, RowsInHand DEF Alone
    <2>5. Undisturbed(m)'
      BY <1>23, <2>4, SaveReportEffect DEF Becomes, Undisturbed
    <2>6. \A k \in Managers \ {m} : Undisturbed(k)'
      BY <2>3 DEF Undisturbed
    <2> QED  BY <2>5, <2>6
  <1>24. ASSUME NEW m \in Managers, save_report_refused(m) PROVE Alone'
    <2> SUFFICES ASSUME crowded' = FALSE PROVE \A k \in Managers : Undisturbed(k)'
      BY DEF Alone
    <2>1. crowded = FALSE /\ mgr[m].pc # "down"
      BY <1>24, SaveReportRefusedEffect
    <2>2. \A k \in Managers \ {m} : mgr[k].pc = "down"
      BY <2>1, OthersDown
    <2>3. \A k \in Managers \ {m} : mgr'[k].pc = "down"
      BY <1>24, <2>2, SaveReportRefusedEffect DEF Becomes
    <2>4. Undisturbed(m) /\ DOMAIN mgr[m].rows \subseteq Requests
      BY <2>1, RowsInHand DEF Alone
    <2>5. Undisturbed(m)'
      BY <1>24, <2>4, SaveReportRefusedEffect DEF Becomes, Undisturbed
    <2>6. \A k \in Managers \ {m} : Undisturbed(k)'
      BY <2>3 DEF Undisturbed
    <2> QED  BY <2>5, <2>6
  <1>25. ASSUME NEW m \in Managers, LinkReport(m) PROVE Alone'
    <2> SUFFICES ASSUME crowded' = FALSE PROVE \A k \in Managers : Undisturbed(k)'
      BY DEF Alone
    <2>1. crowded = FALSE /\ mgr[m].pc # "down"
      BY <1>25, LinkReportEffect
    <2>2. \A k \in Managers \ {m} : mgr[k].pc = "down"
      BY <2>1, OthersDown
    <2>3. \A k \in Managers \ {m} : mgr'[k].pc = "down"
      BY <1>25, <2>2, LinkReportEffect DEF Becomes
    <2>4. Undisturbed(m) /\ DOMAIN mgr[m].rows \subseteq Requests
      BY <2>1, RowsInHand DEF Alone
    <2>5. Undisturbed(m)'
      BY <1>25, <2>4, LinkReportEffect DEF Becomes, Undisturbed, RowSaved
    <2>6. \A k \in Managers \ {m} : Undisturbed(k)'
      BY <2>3 DEF Undisturbed
    <2> QED  BY <2>5, <2>6
  <1>26. ASSUME NEW m \in Managers, LinkRefused(m) PROVE Alone'
    <2> SUFFICES ASSUME crowded' = FALSE PROVE \A k \in Managers : Undisturbed(k)'
      BY DEF Alone
    <2>1. crowded = FALSE /\ mgr[m].pc # "down"
      BY <1>26, LinkRefusedEffect
    <2>2. \A k \in Managers \ {m} : mgr[k].pc = "down"
      BY <2>1, OthersDown
    <2>3. \A k \in Managers \ {m} : mgr'[k].pc = "down"
      BY <1>26, <2>2, LinkRefusedEffect DEF Becomes, LoopsBack
    <2>4. Undisturbed(m) /\ DOMAIN mgr[m].rows \subseteq Requests
      BY <2>1, RowsInHand DEF Alone
    <2>5. Undisturbed(m)'
      BY <1>26, <2>4, LinkRefusedEffect DEF Becomes, Undisturbed, LoopsBack
    <2>6. \A k \in Managers \ {m} : Undisturbed(k)'
      BY <2>3 DEF Undisturbed
    <2> QED  BY <2>5, <2>6
  <1>27. ASSUME NEW m \in Managers, save_professional_report(m) PROVE Alone'
    <2> SUFFICES ASSUME crowded' = FALSE PROVE \A k \in Managers : Undisturbed(k)'
      BY DEF Alone
    <2>1. crowded = FALSE /\ mgr[m].pc # "down"
      BY <1>27, SaveProfessionalReportEffect
    <2>2. \A k \in Managers \ {m} : mgr[k].pc = "down"
      BY <2>1, OthersDown
    <2>3. \A k \in Managers \ {m} : mgr'[k].pc = "down"
      BY <1>27, <2>2, SaveProfessionalReportEffect DEF Becomes
    <2>4. Undisturbed(m) /\ DOMAIN mgr[m].rows \subseteq Requests
      BY <2>1, RowsInHand DEF Alone
    <2>5. Undisturbed(m)'
      BY <1>27, <2>4, SaveProfessionalReportEffect DEF Becomes, Undisturbed, RowSaved,
           CopyKept, Numbered
    <2>6. \A k \in Managers \ {m} : Undisturbed(k)'
      BY <2>3 DEF Undisturbed
    <2> QED  BY <2>5, <2>6
  <1>28. ASSUME NEW m \in Managers, MarkFailed(m) PROVE Alone'
    <2> SUFFICES ASSUME crowded' = FALSE PROVE \A k \in Managers : Undisturbed(k)'
      BY DEF Alone
    <2>1. crowded = FALSE /\ mgr[m].pc # "down"
      BY <1>28, MarkFailedEffect
    <2>2. \A k \in Managers \ {m} : mgr[k].pc = "down"
      BY <2>1, OthersDown
    <2>3. \A k \in Managers \ {m} : mgr'[k].pc = "down"
      BY <1>28, <2>2, MarkFailedEffect DEF Becomes
    <2>4. Undisturbed(m) /\ DOMAIN mgr[m].rows \subseteq Requests
      BY <2>1, RowsInHand DEF Alone
    <2>5. Undisturbed(m)'
      BY <1>28, <2>4, MarkFailedEffect DEF Becomes, Undisturbed, RowSaved
    <2>6. \A k \in Managers \ {m} : Undisturbed(k)'
      BY <2>3 DEF Undisturbed
    <2> QED  BY <2>5, <2>6
  <1>29. CASE UNCHANGED vars
    BY <1>29 DEF vars, Alone, Undisturbed
  <1> QED
    BY <1>1, <1>2, <1>3, <1>4, <1>5, <1>6, <1>7, <1>8, <1>9, <1>10, <1>11, <1>12, <1>13,
         <1>14,
       <1>15, <1>16, <1>17, <1>18, <1>19, <1>20, <1>21, <1>22, <1>23, <1>24, <1>25, <1>26, <1>27, <1>28, <1>29
    DEF Next, Thread

(* A completed row has its own report. *)
LEMMA LinkedStep ==
    ASSUME TypeOK, InHand, CopyKept, Numbered, OneUp, Linked, [Next]_vars
    PROVE  Linked'
  <1>1. ASSUME NEW r \in Requests, CreateTask(r) PROVE Linked'
    BY <1>1, CreateTaskEffect DEF RowSaved, Linked, Latest, PackageFor
  <1>2. ASSUME NEW r \in Requests, NextPosition(r) PROVE Linked'
    BY <1>2, NextPositionEffect DEF RowSaved, Linked, Latest, PackageFor
  <1>3. ASSUME NEW m \in Managers, NEW r \in Requests, add_task_to_queue(m,
       r) PROVE Linked'
    <2>1. PICK row \in Row : RowSaved(r, row) /\ row.status = "queued" /\ row.pos # 0
      BY <1>3, AddTaskToQueueEffect
    <2>2. /\ Starts(m) /\ table[r].status = "pending" /\ clock' \in Nat
          /\ UNCHANGED <<expired, reports, volume, orphans, redis, faults>>
      BY <1>3, AddTaskToQueueEffect
    <2> QED  BY <2>1, <2>2 DEF Becomes, LoopsBack, Starts, RowSaved, Linked, Latest, PackageFor
  <1>4. ASSUME NEW r \in Requests, Expires(r) PROVE Linked'
    BY <1>4, ExpiresEffect DEF Linked, Latest, PackageFor
  <1>5. ASSUME NEW m \in Managers, StartWorker(m) PROVE Linked'
    BY <1>5, StartWorkerEffect DEF Becomes, LoopsBack, Starts, Linked, Latest, PackageFor
  <1>6. ASSUME NEW m \in Managers, ProcessEnds(m) PROVE Linked'
    BY <1>6, ProcessEndsEffect DEF Becomes, Linked, Latest, PackageFor
  <1>7. ASSUME NEW p \in Packages, OrphanEnds(p) PROVE Linked'
    BY <1>7, OrphanEndsEffect DEF Linked, Latest, PackageFor
  <1>8. ASSUME NEW p \in Packages, RedisExpires(p) PROVE Linked'
    BY <1>8, RedisExpiresEffect DEF Linked, Latest, PackageFor
  <1>9. ASSUME NEW m \in Managers, check_timeouts(m) PROVE Linked'
    BY <1>9, CheckTimeoutsEffect DEF Becomes, Linked, Latest, PackageFor
  <1>10. ASSUME NEW m \in Managers, _handle_timed_out_task(m) PROVE Linked'
    BY <1>10, HandleTimedOutTaskEffect DEF Becomes, Linked, Latest, PackageFor
  <1>11. ASSUME NEW m \in Managers, ReadQueue(m) PROVE Linked'
    BY <1>11, ReadQueueEffect DEF Becomes, Linked, Latest, PackageFor
  <1>12. ASSUME NEW m \in Managers, _update_queue_positions(m) PROVE Linked'
    <2>1. /\ \A t \in DOMAIN mgr[m].rows : table'[t].status = "queued"
          /\ \A t \in Requests \ DOMAIN mgr[m].rows : table'[t] = table[t]
      BY <1>12, UpdateQueuePositionsEffect DEF Numbered
    <2>2. \A k \in Managers : mgr'[k] = mgr[k] \/ mgr'[k].pc \in {"next", "loop"}
      BY <1>12, UpdateQueuePositionsEffect DEF LoopsBack, Becomes
    <2>3. UNCHANGED <<reports, crowded>>
      BY <1>12, UpdateQueuePositionsEffect
    <2> QED  BY <2>1, <2>2, <2>3 DEF Linked, Latest, PackageFor
  <1>13. ASSUME NEW m \in Managers, RunningTask(m) PROVE Linked'
    BY <1>13, RunningTaskEffect DEF Becomes, LoopsBack, Linked, Latest, PackageFor
  <1>14. ASSUME NEW m \in Managers, NoRunningTask(m) PROVE Linked'
    BY <1>14, NoRunningTaskEffect DEF Becomes, Linked, Latest, PackageFor
  <1>15. ASSUME NEW m \in Managers, NextTaskNone(m) PROVE Linked'
    BY <1>15, NextTaskNoneEffect DEF Becomes, LoopsBack, Linked, Latest, PackageFor
  <1>16. ASSUME NEW m \in Managers, NextTask(m) PROVE Linked'
    BY <1>16, NextTaskEffect DEF Becomes, Linked, Latest, PackageFor
  <1>17. ASSUME NEW m \in Managers, MarkRunning(m) PROVE Linked'
    BY <1>17, MarkRunningEffect DEF Becomes, RowSaved, Linked, Latest, PackageFor
  <1>18. ASSUME NEW m \in Managers, AnalysisEnds(m) PROVE Linked'
    BY <1>18, AnalysisEndsEffect DEF Becomes, Linked, Latest, PackageFor
  <1>19. ASSUME NEW m \in Managers, AnalysisAborts(m) PROVE Linked'
    BY <1>19, AnalysisAbortsEffect DEF Becomes, Linked, Latest, PackageFor
  <1>20. ASSUME NEW m \in Managers, AnalysisFails(m) PROVE Linked'
    BY <1>20, AnalysisFailsEffect DEF Becomes, Linked, Latest, PackageFor
  <1>21. ASSUME NEW m \in Managers, get_result_file(m) PROVE Linked'
    BY <1>21, GetResultFileEffect DEF Becomes, Linked, Latest, PackageFor
  <1>22. ASSUME NEW m \in Managers, Heartbeat(m) PROVE Linked'
    <2>1. mgr[m].copy.status = "running"
      BY <1>22, HeartbeatEffect DEF CopyKept
    <2> QED  BY <1>22, <2>1, HeartbeatEffect DEF RowSaved, Becomes, Linked, Latest, PackageFor
  <1>23. ASSUME NEW m \in Managers, save_report(m) PROVE Linked'
    <2> SUFFICES ASSUME crowded' = FALSE PROVE Linked'
      BY DEF Linked
    <2>1. PICK row \in [package : Packages, content : Packages, large : BOOLEAN] :
               row.package = PackageFor(m) /\ reports' = Append(reports, row)
      BY <1>23, SaveReportEffect
    <2>2. Latest' = PackageFor(m)
      BY <2>1, ReportSaved DEF Latest
    <2>3. crowded = FALSE /\ \A k \in Managers \ {m} : mgr[k].pc = "down"
      BY <1>23, SaveReportEffect, OthersDown
    <2>4. mgr'[m].pc = "link" /\ PackageFor(m)' = PackageFor(m)
      BY <1>23, SaveReportEffect DEF Becomes, PackageFor
    <2>5. \A k \in Managers \ {m} : mgr'[k].pc = "down"
      BY <1>23, <2>3, SaveReportEffect DEF Becomes
    <2>6. table' = table
      BY <1>23, SaveReportEffect
    <2> QED  BY <2>2, <2>3, <2>4, <2>5, <2>6 DEF Linked
  <1>24. ASSUME NEW m \in Managers, save_report_refused(m) PROVE Linked'
    BY <1>24, SaveReportRefusedEffect DEF Becomes, Linked, Latest, PackageFor
  <1>25. ASSUME NEW m \in Managers, LinkReport(m) PROVE Linked'
    <2>1. PICK copy \in Row : /\ RowSaved(mgr[m].task, copy)
                              /\ Becomes(m, "publish", mgr[m].task, copy, mgr[m].result, mgr[m].rows)
                              /\ copy.status = "completed" /\ copy.report = Latest
      BY <1>25, LinkReportEffect
    <2>2. mgr[m].pc = "link" /\ mgr[m].task \in Requests /\ UNCHANGED <<reports, crowded>>
      BY <1>25, LinkReportEffect
    <2> SUFFICES ASSUME crowded' = FALSE PROVE Linked'
      BY DEF Linked
    <2>3. crowded = FALSE /\ copy.report = PackageOfTask(mgr[m].task)
      BY <2>1, <2>2 DEF Linked, PackageFor
    <2>4. \A t \in Requests : table'[t].status = "completed" => table'[t].report = PackageOfTask(t)
      BY <2>1, <2>2, <2>3 DEF RowSaved, Linked
    <2>5. \A k \in Managers : mgr'[k].pc = "publish" => mgr'[k].copy.report = PackageFor(k)'
      BY <2>1, <2>3 DEF Becomes, Linked, PackageFor
    <2>6. \A k \in Managers : mgr'[k].pc = "link" => Latest' = PackageFor(k)'
      BY <2>1, <2>2, <2>3 DEF Becomes, Linked, PackageFor, Latest
    <2> QED  BY <2>4, <2>5, <2>6 DEF Linked
  <1>26. ASSUME NEW m \in Managers, LinkRefused(m) PROVE Linked'
    BY <1>26, LinkRefusedEffect DEF Becomes, LoopsBack, Linked, Latest, PackageFor
  <1>27. ASSUME NEW m \in Managers, save_professional_report(m) PROVE Linked'
    <2> SUFFICES ASSUME crowded' = FALSE PROVE Linked'
      BY DEF Linked
    <2>1. crowded = FALSE /\ mgr[m].copy.report = PackageOfTask(mgr[m].task)
      BY <1>27, SaveProfessionalReportEffect DEF Linked, PackageFor
    <2> QED  BY <1>27, <2>1, SaveProfessionalReportEffect DEF RowSaved, Becomes, Linked, Latest, PackageFor
  <1>28. ASSUME NEW m \in Managers, MarkFailed(m) PROVE Linked'
    BY <1>28, MarkFailedEffect DEF Becomes, RowSaved, Linked, Latest, PackageFor
  <1>29. CASE UNCHANGED vars
    BY <1>29 DEF vars, Linked, Latest, PackageFor
  <1> QED
    BY <1>1, <1>2, <1>3, <1>4, <1>5, <1>6, <1>7, <1>8, <1>9, <1>10, <1>11, <1>12, <1>13,
         <1>14,
       <1>15, <1>16, <1>17, <1>18, <1>19, <1>20, <1>21, <1>22, <1>23, <1>24, <1>25, <1>26, <1>27, <1>28, <1>29
    DEF Next, Thread

(* Without a fault a result is about its own package. *)
LEMMA FaultlessStep ==
    ASSUME TypeOK, InHand, OneUp, Faultless, [Next]_vars
    PROVE  Faultless'
  <1>1. ASSUME NEW r \in Requests, CreateTask(r) PROVE Faultless'
    BY <1>1, CreateTaskEffect DEF RowSaved, Faultless, PackageFor
  <1>2. ASSUME NEW r \in Requests, NextPosition(r) PROVE Faultless'
    BY <1>2, NextPositionEffect DEF RowSaved, Faultless, PackageFor
  <1>3. ASSUME NEW m \in Managers, NEW r \in Requests, add_task_to_queue(m,
       r) PROVE Faultless'
    <2>1. PICK row \in Row : RowSaved(r, row) /\ row.status = "queued" /\ row.pos # 0
      BY <1>3, AddTaskToQueueEffect
    <2>2. /\ Starts(m) /\ table[r].status = "pending" /\ clock' \in Nat
          /\ UNCHANGED <<expired, reports, volume, orphans, redis, faults>>
      BY <1>3, AddTaskToQueueEffect
    <2> QED  BY <2>1, <2>2 DEF Becomes, LoopsBack, Starts, RowSaved, Faultless, PackageFor
  <1>4. ASSUME NEW r \in Requests, Expires(r) PROVE Faultless'
    BY <1>4, ExpiresEffect DEF Faultless, PackageFor
  <1>5. ASSUME NEW m \in Managers, StartWorker(m) PROVE Faultless'
    BY <1>5, StartWorkerEffect DEF Becomes, LoopsBack, Starts, Faultless, PackageFor
  <1>6. ASSUME NEW m \in Managers, ProcessEnds(m) PROVE Faultless'
    BY <1>6, ProcessEndsEffect, NextFaults DEF Faultless
  <1>7. ASSUME NEW p \in Packages, OrphanEnds(p) PROVE Faultless'
    BY <1>7, OrphanEndsEffect DEF Faultless, PackageFor
  <1>8. ASSUME NEW p \in Packages, RedisExpires(p) PROVE Faultless'
    BY <1>8, RedisExpiresEffect, NextFaults DEF Faultless
  <1>9. ASSUME NEW m \in Managers, check_timeouts(m) PROVE Faultless'
    BY <1>9, CheckTimeoutsEffect DEF Becomes, Faultless, PackageFor
  <1>10. ASSUME NEW m \in Managers, _handle_timed_out_task(m) PROVE Faultless'
    BY <1>10, HandleTimedOutTaskEffect DEF Becomes, Faultless, PackageFor
  <1>11. ASSUME NEW m \in Managers, ReadQueue(m) PROVE Faultless'
    BY <1>11, ReadQueueEffect DEF Becomes, Faultless, PackageFor
  <1>12. ASSUME NEW m \in Managers, _update_queue_positions(m) PROVE Faultless'
    BY <1>12, UpdateQueuePositionsEffect DEF Becomes, LoopsBack, Faultless, PackageFor
  <1>13. ASSUME NEW m \in Managers, RunningTask(m) PROVE Faultless'
    BY <1>13, RunningTaskEffect DEF Becomes, LoopsBack, Faultless, PackageFor
  <1>14. ASSUME NEW m \in Managers, NoRunningTask(m) PROVE Faultless'
    BY <1>14, NoRunningTaskEffect DEF Becomes, Faultless, PackageFor
  <1>15. ASSUME NEW m \in Managers, NextTaskNone(m) PROVE Faultless'
    BY <1>15, NextTaskNoneEffect DEF Becomes, LoopsBack, Faultless, PackageFor
  <1>16. ASSUME NEW m \in Managers, NextTask(m) PROVE Faultless'
    BY <1>16, NextTaskEffect DEF Becomes, Faultless, PackageFor
  <1>17. ASSUME NEW m \in Managers, MarkRunning(m) PROVE Faultless'
    BY <1>17, MarkRunningEffect DEF Becomes, RowSaved, Faultless, PackageFor
  <1>18. ASSUME NEW m \in Managers, AnalysisEnds(m) PROVE Faultless'
    <2> SUFFICES ASSUME crowded' = FALSE, faults' = 0 PROVE Faultless'
      BY DEF Faultless
    <2>1. crowded = FALSE /\ faults = 0 /\ \A k \in Managers \ {m} : mgr[k].pc = "down"
      BY <1>18, AnalysisEndsEffect, OthersDown
    <2>2. NameOf[PackageFor(m)] \in Names
      BY <1>18, AnalysisEndsEffect, PackageInHand DEF TaskSteps
    <2>3. volume'[NameOf[PackageFor(m)]] = PackageFor(m)
      BY <1>18, <2>2, AnalysisEndsEffect DEF TypeOK
    <2>4. mgr'[m].pc = "read" /\ PackageFor(m)' = PackageFor(m)
      BY <1>18, AnalysisEndsEffect DEF Becomes, PackageFor
    <2>5. \A k \in Managers \ {m} : mgr'[k].pc = "down"
      BY <1>18, <2>1, AnalysisEndsEffect DEF Becomes
    <2>6. UNCHANGED <<orphans, reports>>
      BY <1>18, AnalysisEndsEffect
    <2> QED  BY <2>1, <2>3, <2>4, <2>5, <2>6 DEF Faultless
  <1>19. ASSUME NEW m \in Managers, AnalysisAborts(m) PROVE Faultless'
    BY <1>19, AnalysisAbortsEffect, NextFaults DEF Faultless
  <1>20. ASSUME NEW m \in Managers, AnalysisFails(m) PROVE Faultless'
    BY <1>20, AnalysisFailsEffect, NextFaults DEF Faultless
  <1>21. ASSUME NEW m \in Managers, get_result_file(m) PROVE Faultless'
    <2>1. PICK found \in Packages \cup {None} :
              /\ found = volume[NameOf[PackageFor(m)]]
              /\ Becomes(m, IF found = None THEN "fail" ELSE "heartbeat", mgr[m].task, mgr[m].copy,
                         found, mgr[m].rows)
      BY <1>21, GetResultFileEffect
    <2> SUFFICES ASSUME crowded' = FALSE, faults' = 0 PROVE Faultless'
      BY DEF Faultless
    <2>2. /\ crowded = FALSE /\ faults = 0 /\ mgr[m].pc = "read"
          /\ UNCHANGED <<orphans, reports, volume>>
      BY <1>21, GetResultFileEffect
    <2>3. found = PackageFor(m)
      BY <2>1, <2>2 DEF Faultless
    <2>4. /\ mgr'[m].pc \in {"fail", "heartbeat"}
          /\ mgr'[m].result = PackageFor(m)' /\ PackageFor(m)' = PackageFor(m)
          /\ \A k \in Managers \ {m} : mgr'[k] = mgr[k] /\ PackageFor(k)' = PackageFor(k)
      BY <2>1, <2>3 DEF Becomes, PackageFor
    <2> QED  BY <2>2, <2>4 DEF Faultless
  <1>22. ASSUME NEW m \in Managers, Heartbeat(m) PROVE Faultless'
    BY <1>22, HeartbeatEffect DEF Becomes, RowSaved, Faultless, PackageFor
  <1>23. ASSUME NEW m \in Managers, save_report(m) PROVE Faultless'
    <2> SUFFICES ASSUME crowded' = FALSE, faults' = 0 PROVE Faultless'
      BY DEF Faultless
    <2>1. PICK row \in [package : Packages, content : Packages, large : BOOLEAN] :
               row.package = PackageFor(m) /\ row.content = mgr[m].result /\ reports' = Append(reports, row)
      BY <1>23, SaveReportEffect
    <2>2. /\ reports'[Len(reports')] = row
          /\ \A i \in DOMAIN reports : i \in DOMAIN reports' /\ reports'[i] = reports[i]
          /\ \A i \in DOMAIN reports' : i \in DOMAIN reports \/ i = Len(reports')
      BY <2>1, ReportSaved
    <2>3. /\ crowded = FALSE /\ faults = 0 /\ mgr[m].pc = "save"
          /\ UNCHANGED <<orphans, volume>>
      BY <1>23, SaveReportEffect, NextFaults
    <2>4. row.content = row.package
      BY <2>1, <2>3 DEF Faultless
    <2>5. \A k \in Managers : mgr'[k] = mgr[k] \/ mgr'[k].pc = "link"
      BY <1>23, SaveReportEffect DEF Becomes
    <2>6. \A i \in DOMAIN reports' : reports'[i].content = reports'[i].package
      BY <2>2, <2>3, <2>4 DEF Faultless
    <2> QED  BY <2>3, <2>5, <2>6 DEF Faultless, PackageFor
  <1>24. ASSUME NEW m \in Managers, save_report_refused(m) PROVE Faultless'
    BY <1>24, SaveReportRefusedEffect DEF Becomes, Faultless, PackageFor
  <1>25. ASSUME NEW m \in Managers, LinkReport(m) PROVE Faultless'
    BY <1>25, LinkReportEffect DEF Becomes, RowSaved, Faultless, PackageFor
  <1>26. ASSUME NEW m \in Managers, LinkRefused(m) PROVE Faultless'
    BY <1>26, LinkRefusedEffect DEF Becomes, LoopsBack, Faultless, PackageFor
  <1>27. ASSUME NEW m \in Managers, save_professional_report(m) PROVE Faultless'
    BY <1>27, SaveProfessionalReportEffect DEF Becomes, RowSaved, Faultless, PackageFor
  <1>28. ASSUME NEW m \in Managers, MarkFailed(m) PROVE Faultless'
    BY <1>28, MarkFailedEffect DEF Becomes, RowSaved, Faultless, PackageFor
  <1>29. CASE UNCHANGED vars
    BY <1>29 DEF vars, Faultless, PackageFor
  <1> QED
    BY <1>1, <1>2, <1>3, <1>4, <1>5, <1>6, <1>7, <1>8, <1>9, <1>10, <1>11, <1>12, <1>13,
         <1>14,
       <1>15, <1>16, <1>17, <1>18, <1>19, <1>20, <1>21, <1>22, <1>23, <1>24, <1>25, <1>26, <1>27, <1>28, <1>29
    DEF Next, Thread

-----------------------------------------------------------------------------
(* The rows move as TaskLifecycle allows. *)

(* The status of one row changes. *)
LEMMA OneStatus ==
    ASSUME TypeOK, NEW t \in Requests, NEW row, RowSaved(t, row)
    PROVE  status' = [status EXCEPT ![t] = row.status]
  BY DEF TypeOK, RowSaved, status

(* A row is failed. *)
LEMMA OneFails ==
    ASSUME NEW t \in Requests, status[t] = "running",
         status' = [status EXCEPT ![t] = "failed"]
    PROVE  Lifecycle!Next
  <1>1. Lifecycle!Fail({t})
    BY DEF Lifecycle!Fail, status
  <1> QED  BY <1>1 DEF Lifecycle!Next

(* Unless crowded, a step is one of TaskLifecycle or changes no status. *)
LEMMA QueueRefines ==
    ASSUME TypeOK, InHand, CopyKept, Numbered, Alone, [Next]_vars
    PROVE  [crowded' \/ Lifecycle!Next]_status
  <1>1. ASSUME NEW r \in Requests, CreateTask(r) PROVE [crowded' \/ Lifecycle!Next]_status
    <2>1. status' = [status EXCEPT ![r] = "pending"] /\ status[r] = "absent"
      BY <1>1, CreateTaskEffect, OneStatus DEF status
    <2> QED  BY <2>1 DEF Lifecycle!Next, Lifecycle!Submit
  <1>2. ASSUME NEW r \in Requests,
       NextPosition(r) PROVE [crowded' \/ Lifecycle!Next]_status
    <2>1. status' = [status EXCEPT ![r] = "pending"] /\ status[r] = "pending"
      BY <1>2, NextPositionEffect, OneStatus DEF status
    <2> QED  BY <2>1 DEF status
  <1>3. ASSUME NEW m \in Managers, NEW r \in Requests, add_task_to_queue(m,
       r) PROVE [crowded' \/ Lifecycle!Next]_status
    <2>1. status' = [status EXCEPT ![r] = "queued"] /\ status[r] = "pending"
      BY <1>3, AddTaskToQueueEffect, OneStatus DEF status
    <2> QED  BY <2>1 DEF Lifecycle!Next, Lifecycle!Queue
  <1>4. ASSUME NEW r \in Requests, Expires(r) PROVE [crowded' \/ Lifecycle!Next]_status
    BY <1>4, ExpiresEffect DEF status
  <1>5. ASSUME NEW m \in Managers,
       StartWorker(m) PROVE [crowded' \/ Lifecycle!Next]_status
    BY <1>5, StartWorkerEffect DEF Becomes, LoopsBack, Starts, status
  <1>6. ASSUME NEW m \in Managers,
       ProcessEnds(m) PROVE [crowded' \/ Lifecycle!Next]_status
    BY <1>6, ProcessEndsEffect DEF Becomes, status
  <1>7. ASSUME NEW p \in Packages, OrphanEnds(p) PROVE [crowded' \/ Lifecycle!Next]_status
    BY <1>7, OrphanEndsEffect DEF status
  <1>8. ASSUME NEW p \in Packages,
       RedisExpires(p) PROVE [crowded' \/ Lifecycle!Next]_status
    BY <1>8, RedisExpiresEffect DEF status
  <1>9. ASSUME NEW m \in Managers,
       check_timeouts(m) PROVE [crowded' \/ Lifecycle!Next]_status
    BY <1>9, CheckTimeoutsEffect DEF Becomes, status
  <1>10. ASSUME NEW m \in Managers,
       _handle_timed_out_task(m) PROVE [crowded' \/ Lifecycle!Next]_status
    <2> SUFFICES ASSUME crowded' = FALSE PROVE Lifecycle!Next
      BY TypeStep DEF TypeOK
    <2> DEFINE S == DOMAIN mgr[m].rows
    <2>1. /\ S \subseteq Requests
          /\ \A t \in S : table'[t].status = "failed"
          /\ \A t \in Requests \ S : table'[t] = table[t]
      BY <1>10, HandleTimedOutTaskEffect
    <2>2. crowded = FALSE /\ mgr[m].pc = "timeouts"
      BY <1>10, HandleTimedOutTaskEffect
    <2>3. \A t \in S : table[t].status = "running"
      BY <2>2 DEF Alone, Undisturbed
    <2> HIDE DEF S
    <2>4. Lifecycle!Fail(S)
      BY <2>1, <2>3 DEF Lifecycle!Fail, status
    <2> QED  BY <2>1, <2>4 DEF Lifecycle!Next
  <1>11. ASSUME NEW m \in Managers, ReadQueue(m) PROVE [crowded' \/ Lifecycle!Next]_status
    BY <1>11, ReadQueueEffect DEF Becomes, status
  <1>12. ASSUME NEW m \in Managers,
       _update_queue_positions(m) PROVE [crowded' \/ Lifecycle!Next]_status
    <2> SUFFICES ASSUME crowded' = FALSE PROVE status' = status
      BY TypeStep DEF TypeOK
    <2> DEFINE S == DOMAIN mgr[m].rows
    <2>1. /\ S \subseteq Requests
          /\ \A t \in S : table'[t] = mgr[m].rows[t]
          /\ \A t \in Requests \ S : table'[t] = table[t]
      BY <1>12, UpdateQueuePositionsEffect
    <2>2. crowded = FALSE /\ mgr[m].pc = "renumbered"
      BY <1>12, UpdateQueuePositionsEffect
    <2>3. \A t \in S : table[t].status = "queued" /\ mgr[m].rows[t].status = "queued"
      BY <2>2 DEF Alone, Undisturbed, Numbered
    <2>4. \A t \in Requests : table'[t].status = table[t].status
      BY <2>1, <2>3
    <2> QED  BY <2>4 DEF status
  <1>13. ASSUME NEW m \in Managers,
       RunningTask(m) PROVE [crowded' \/ Lifecycle!Next]_status
    BY <1>13, RunningTaskEffect DEF Becomes, LoopsBack, status
  <1>14. ASSUME NEW m \in Managers,
       NoRunningTask(m) PROVE [crowded' \/ Lifecycle!Next]_status
    BY <1>14, NoRunningTaskEffect DEF Becomes, status
  <1>15. ASSUME NEW m \in Managers,
       NextTaskNone(m) PROVE [crowded' \/ Lifecycle!Next]_status
    BY <1>15, NextTaskNoneEffect DEF Becomes, LoopsBack, status
  <1>16. ASSUME NEW m \in Managers, NextTask(m) PROVE [crowded' \/ Lifecycle!Next]_status
    BY <1>16, NextTaskEffect DEF Becomes, status
  <1>17. ASSUME NEW m \in Managers,
       MarkRunning(m) PROVE [crowded' \/ Lifecycle!Next]_status
    <2> SUFFICES ASSUME crowded' = FALSE PROVE [Lifecycle!Next]_status
      BY TypeStep DEF TypeOK
    <2> DEFINE t == mgr[m].task
    <2>1. crowded = FALSE /\ t \in Requests
      BY <1>17, MarkRunningEffect
    <2>2. status' = [status EXCEPT ![t] = "running"]
      BY <1>17, MarkRunningEffect, OneStatus
    <2>3. status[t] = "queued" /\ \A u \in Requests : status[u] # "running"
      BY <1>17, <2>1, MarkRunningEffect DEF Alone, Undisturbed, status
    <2> HIDE DEF t
    <2> QED  BY <2>1, <2>2, <2>3 DEF Lifecycle!Next, Lifecycle!Start
  <1>18. ASSUME NEW m \in Managers,
       AnalysisEnds(m) PROVE [crowded' \/ Lifecycle!Next]_status
    BY <1>18, AnalysisEndsEffect DEF Becomes, status
  <1>19. ASSUME NEW m \in Managers,
       AnalysisAborts(m) PROVE [crowded' \/ Lifecycle!Next]_status
    BY <1>19, AnalysisAbortsEffect DEF Becomes, status
  <1>20. ASSUME NEW m \in Managers,
       AnalysisFails(m) PROVE [crowded' \/ Lifecycle!Next]_status
    BY <1>20, AnalysisFailsEffect DEF Becomes, status
  <1>21. ASSUME NEW m \in Managers,
       get_result_file(m) PROVE [crowded' \/ Lifecycle!Next]_status
    BY <1>21, GetResultFileEffect DEF Becomes, status
  <1>22. ASSUME NEW m \in Managers, Heartbeat(m) PROVE [crowded' \/ Lifecycle!Next]_status
    <2> SUFFICES ASSUME crowded' = FALSE PROVE [Lifecycle!Next]_status
      BY TypeStep DEF TypeOK
    <2> DEFINE t == mgr[m].task
    <2>1. crowded = FALSE /\ t \in Requests
      BY <1>22, HeartbeatEffect
    <2>2. status' = [status EXCEPT ![t] = "running"]
      BY <1>22, HeartbeatEffect, OneStatus DEF CopyKept
    <2>3. status[t] = "running"
      BY <1>22, <2>1, HeartbeatEffect DEF Alone, Undisturbed, status
    <2> HIDE DEF t
    <2> QED  BY <2>1, <2>2, <2>3 DEF status
  <1>23. ASSUME NEW m \in Managers,
       save_report(m) PROVE [crowded' \/ Lifecycle!Next]_status
    BY <1>23, SaveReportEffect DEF Becomes, status
  <1>24. ASSUME NEW m \in Managers,
       save_report_refused(m) PROVE [crowded' \/ Lifecycle!Next]_status
    BY <1>24, SaveReportRefusedEffect DEF Becomes, status
  <1>25. ASSUME NEW m \in Managers,
       LinkReport(m) PROVE [crowded' \/ Lifecycle!Next]_status
    <2> SUFFICES ASSUME crowded' = FALSE PROVE [Lifecycle!Next]_status
      BY TypeStep DEF TypeOK
    <2> DEFINE t == mgr[m].task
    <2>1. crowded = FALSE /\ t \in Requests
      BY <1>25, LinkReportEffect
    <2>2. status' = [status EXCEPT ![t] = "completed"]
      BY <1>25, LinkReportEffect, OneStatus
    <2>3. status[t] = "running"
      BY <1>25, <2>1, LinkReportEffect DEF Alone, Undisturbed, status
    <2> HIDE DEF t
    <2> QED  BY <2>1, <2>2, <2>3 DEF Lifecycle!Next, Lifecycle!Complete
  <1>26. ASSUME NEW m \in Managers,
       LinkRefused(m) PROVE [crowded' \/ Lifecycle!Next]_status
    BY <1>26, LinkRefusedEffect DEF Becomes, LoopsBack, status
  <1>27. ASSUME NEW m \in Managers,
       save_professional_report(m) PROVE [crowded' \/ Lifecycle!Next]_status
    <2> SUFFICES ASSUME crowded' = FALSE PROVE [Lifecycle!Next]_status
      BY TypeStep DEF TypeOK
    <2> DEFINE t == mgr[m].task
    <2>1. crowded = FALSE /\ t \in Requests
      BY <1>27, SaveProfessionalReportEffect
    <2>2. status' = [status EXCEPT ![t] = "completed"]
      BY <1>27, SaveProfessionalReportEffect, OneStatus DEF CopyKept
    <2>3. status[t] = "completed"
      BY <1>27, <2>1, SaveProfessionalReportEffect DEF Alone, Undisturbed, status
    <2> HIDE DEF t
    <2> QED  BY <2>1, <2>2, <2>3 DEF status
  <1>28. ASSUME NEW m \in Managers,
       MarkFailed(m) PROVE [crowded' \/ Lifecycle!Next]_status
    <2> SUFFICES ASSUME crowded' = FALSE PROVE [Lifecycle!Next]_status
      BY TypeStep DEF TypeOK
    <2> DEFINE t == mgr[m].task
    <2>1. crowded = FALSE /\ t \in Requests
      BY <1>28, MarkFailedEffect
    <2>2. status' = [status EXCEPT ![t] = "failed"]
      BY <1>28, MarkFailedEffect, OneStatus
    <2>3. status[t] = "running"
      BY <1>28, <2>1, MarkFailedEffect DEF Alone, Undisturbed, status
    <2> HIDE DEF t
    <2> QED  BY OneFails, <2>1, <2>2, <2>3
  <1>29. CASE UNCHANGED vars
    BY <1>29 DEF vars, status
  <1> QED
    BY <1>1, <1>2, <1>3, <1>4, <1>5, <1>6, <1>7, <1>8, <1>9, <1>10, <1>11, <1>12, <1>13,
         <1>14,
       <1>15, <1>16, <1>17, <1>18, <1>19, <1>20, <1>21, <1>22, <1>23, <1>24, <1>25, <1>26, <1>27, <1>28, <1>29
    DEF Next, Thread

-----------------------------------------------------------------------------
(* The inductive invariant, and what follows from it. *)

QueueInv ==
    /\ TypeOK
    /\ InHand
    /\ CopyKept
    /\ Numbered
    /\ OneReport
    /\ SameName
    /\ OneUp
    /\ Alone
    /\ Linked
    /\ Faultless

(* It holds at the start ... *)
LEMMA QueueInit == Init => QueueInv
  <1> SUFFICES ASSUME Init PROVE QueueInv
    OBVIOUS
  <1> USE DEF Init
  <1>1. \A m \in Managers : mgr[m] = Down /\ mgr[m].pc = "down"
    BY ThreadDown
  <1>2. \A t \in Requests : table[t] = NoRow /\ table[t].status = "absent"
    BY DEF NoRow
  <1>3. reports = << >> /\ DOMAIN reports = {}
    OBVIOUS
  <1>4. TypeOK
    <2>1. table \in [Requests -> Row]
      BY BuiltRows
    <2>2. mgr \in [Managers -> ThreadState]
      BY ThreadDown
    <2>3. reports \in Seq([package : Packages, content : Packages, large : BOOLEAN])
      OBVIOUS
    <2>4. redis \in [db : [Packages -> Packages \cup {None}], download : [Packages -> Packages \cup {None}]]
      OBVIOUS
    <2>5. faults \in 0 .. MaxFaults
      BY WebQueueAssumption DEF WebQueueAssumption
    <2> QED  BY <2>1, <2>2, <2>3, <2>4, <2>5 DEF TypeOK
  <1>5. InHand /\ CopyKept
    BY <1>1 DEF InHand, TaskSteps, CopyKept
  <1>6. Numbered
    BY <1>1, <1>2 DEF Numbered
  <1>7. OneReport
    BY <1>3 DEF OneReport
  <1>8. SameName
    BY <1>1, <1>3 DEF SameName
  <1>9. OneUp
    BY <1>1 DEF OneUp, Up
  <1>10. Alone
    BY <1>1 DEF Alone, Undisturbed
  <1>11. Linked
    BY <1>1, <1>2 DEF Linked
  <1>12. Faultless
    BY <1>1, <1>3 DEF Faultless
  <1> QED  BY <1>4, <1>5, <1>6, <1>7, <1>8, <1>9, <1>10, <1>11, <1>12 DEF QueueInv

(* ... and every step keeps it. *)
LEMMA QueueStep ==
    ASSUME QueueInv, [Next]_vars
    PROVE  QueueInv'
  BY TypeStep, InHandStep, CopyStep, NumberedStep, OneReportStep, SameNameStep,
       OneUpStep, AloneStep,
     LinkedStep, FaultlessStep
  DEF QueueInv

\* queue_manager.py: the columns, files, Redis entries and threads have their types,
\* for every number of requests, processes and faults.
THEOREM QueueTypeCorrect == Spec => []TypeOK
  <1>1. QueueInv => TypeOK
    BY DEF QueueInv
  <1> QED  BY <1>1, QueueInit, QueueStep, PTL DEF Spec

\* task_queue_position_api: 0 stands for the running task, and no queued row is ever
\* shown with it, although a thread renumbers rows it has read before others change
\* them, and any number of threads do so at once.
THEOREM QueuedIsNotShownAsRunning == Spec => []PositionsShown
  <1>1. QueueInv => PositionsShown
    BY DEF QueueInv, Numbered, PositionsShown, queue_status_api, Queued, WithStatus,
       task_queue_position_api, TypeOK, Row
  <1> QED  BY <1>1, QueueInit, QueueStep, PTL DEF Spec

\* _process_task: the newest report and the file of the package's name are the task's
\* own.  Unless two threads have been up at one time, a completed row has the report of
\* its own package; a package has one report, about a package of that name, and without
\* a fault about that very package.
THEOREM LinkedReportIsOwn == Spec => []OwnReport
  <1>1. QueueInv => OwnReport
    <2> SUFFICES ASSUME QueueInv PROVE OwnReport
      OBVIOUS
    <2>1. \A i, j \in DOMAIN reports : reports[i].package = reports[j].package => i = j
      BY DEF QueueInv, OneReport
    <2>2. \A i \in DOMAIN reports :
            /\ NameOf[reports[i].content] = NameOf[reports[i].package]
            /\ ~crowded /\ faults = 0 => reports[i].content = reports[i].package
      BY DEF QueueInv, SameName, Faultless
    <2>3. ASSUME ~crowded, NEW r \in Requests, task_status_api(r).status = "completed"
          PROVE  task_status_api(r).result = PackageOfTask(r)
      <3>1. table[r].status = "completed" /\ crowded = FALSE
        BY <2>3 DEF task_status_api, QueueInv, TypeOK
      <3>2. table[r].report = PackageOfTask(r)
        BY <3>1 DEF QueueInv, Linked
      <3>3. table[r].report # NoReport
        BY <3>2, TableAssumption DEF PackageOfTask, TableAssumption
      <3> QED  BY <3>1, <3>2, <3>3 DEF task_status_api
    <2> QED  BY <2>1, <2>2, <2>3 DEF OwnReport
  <1> QED  BY <1>1, QueueInit, QueueStep, PTL DEF Spec

\* "Ensures only one container runs at a time" (queue_manager.py): every step of a
\* thread, a request, a timeout or a crash is one of TaskLifecycle, or changes no
\* status, unless two threads have been up at one time.
THEOREM ThreadImplementsLifecycle == Spec => QueueImplementsLifecycle
  <1>1. QueueInv /\ [Next]_vars => [crowded' \/ Lifecycle!Next]_status
    BY QueueRefines DEF QueueInv
  <1> QED  BY <1>1, QueueInit, QueueStep, PTL DEF Spec, QueueImplementsLifecycle

=============================================================================
