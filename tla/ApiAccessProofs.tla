--------------------------- MODULE ApiAccessProofs ---------------------------
(***************************************************************************)
(* Proofs about the gate of the REST API and about paging: the hourly      *)
(* limit, the revocation of a key and the completeness of a paged list,    *)
(* for any number of request threads, tasks and requests.                  *)
(***************************************************************************)
EXTENDS ApiAccess, FiniteSetTheorems, WellFoundedInduction, TLAPS

-----------------------------------------------------------------------------
(* Paging.  The rank of a row is the number of newer ones. *)
Above(T, x) == {y \in T : y > x}

(* A set of numbers has a least element. *)
LEMMA LeastElement ==
    ASSUME NEW S, S \subseteq Nat, S # {}
    PROVE  \E x \in S : \A y \in S : x <= y
  <1>1. \E x \in S : \A y \in S : ~(<<y, x>> \in OpToRel(<, Nat))
    BY NatLessThanWellFounded, WFMin
  <1>2. PICK x \in S : \A y \in S : ~(<<y, x>> \in OpToRel(<, Nat))
    BY <1>1
  <1>3. \A y \in S : ~(y < x)
    BY <1>2 DEF OpToRel
  <1> QED  BY <1>3

(* The next newer row has the next smaller rank. *)
LEMMA NextNewer ==
    ASSUME NEW T, T \subseteq Nat, IsFiniteSet(T), NEW z \in T,
           Cardinality(Above(T, z)) # 0
    PROVE  \E w \in T : Cardinality(Above(T, z)) = Cardinality(Above(T, w)) + 1
  <1>1. IsFiniteSet(Above(T, z)) /\ Above(T, z) \subseteq T
    BY FS_Subset DEF Above
  <1>2. Above(T, z) # {}
    BY <1>1, FS_EmptySet
  <1>3. PICK w \in Above(T, z) : \A y \in Above(T, z) : w <= y
    BY <1>1, <1>2, LeastElement
  <1>4. w \in T /\ w \in Nat /\ w > z /\ z \in Nat
    BY <1>3 DEF Above
  <1>5. Above(T, z) = Above(T, w) \cup {w}
    <2>1. \A y \in T : y > z <=> y > w \/ y = w
      <3> SUFFICES ASSUME NEW y \in T PROVE y > z <=> y > w \/ y = w
        OBVIOUS
      <3>1. y > z => w <= y
        BY <1>3 DEF Above
      <3> QED  BY <1>4, <3>1
    <2> QED  BY <1>4, <2>1 DEF Above
  <1>6. w \notin Above(T, w) /\ IsFiniteSet(Above(T, w))
    BY <1>4, FS_Subset DEF Above
  <1>7. Cardinality(Above(T, w) \cup {w}) = Cardinality(Above(T, w)) + 1
    BY <1>6, FS_AddElement
  <1> QED  BY <1>4, <1>5, <1>7

(* Every rank up to that of a row is the rank of some row: there is no gap in the
   pages. *)
LEMMA NoGap ==
    ASSUME NEW T, T \subseteq Nat, IsFiniteSet(T), NEW k \in Nat,
           NEW x \in T, Cardinality(Above(T, x)) >= k
    PROVE  \E z \in T : Cardinality(Above(T, z)) = k
  <1> DEFINE rank(z) == Cardinality(Above(T, z))
             R == {rank(z) : z \in {u \in T : rank(u) >= k}}
  <1>1. \A z \in T : rank(z) \in Nat
    BY FS_Subset, FS_CardinalityType DEF Above
  <1>2. \A z \in T : rank(z) # 0 => \E w \in T : rank(z) = rank(w) + 1
    BY NextNewer
  <1> HIDE DEF rank
  <1>3. R \subseteq Nat /\ R # {}
    <2>1. rank(x) \in R
      BY DEF rank
    <2> QED  BY <1>1, <2>1
  <1>4. PICK m \in R : \A n \in R : m <= n
    BY <1>3, LeastElement
  <1>5. PICK z \in T : rank(z) = m /\ rank(z) >= k
    BY <1>4
  <1>6. CASE m # k
    <2>1. PICK w \in T : rank(z) = rank(w) + 1
      BY <1>1, <1>2, <1>5, <1>6
    <2>2. rank(w) >= k /\ rank(w) \in Nat /\ rank(w) < m
      BY <1>1, <1>5, <1>6, <2>1
    <2>3. rank(w) \in R
      BY <2>2
    <2> QED  BY <1>3, <1>4, <2>2, <2>3
  <1>7. CASE m = k
    BY <1>5, <1>7 DEF rank
  <1> QED  BY <1>6, <1>7

(* page_size is between one and a hundred, whatever the client asks for. *)
LEMMA PageSizePositive ==
    ASSUME ApiAssumption
    PROVE  page_size \in Nat \ {0}
  <1>1. Max({1, PageSize}) \in Nat \ {0}
    <2>1. \E x \in {1, PageSize} : \A y \in {1, PageSize} : x >= y
      BY DEF ApiAssumption
    <2>2. Max({1, PageSize}) \in {1, PageSize} /\ \A y \in {1, PageSize} : Max({1, PageSize}) >= y
      BY <2>1 DEF Max
    <2> QED  BY <2>2 DEF ApiAssumption
  <1> DEFINE m == Max({1, PageSize})
  <1> HIDE DEF m
  <1>2. \E x \in {100, m} : \A y \in {100, m} : x <= y
    BY <1>1 DEF m
  <1>3. Min({100, m}) \in {100, m}
    BY <1>2 DEF Min
  <1> QED  BY <1>1, <1>3 DEF page_size, m

-----------------------------------------------------------------------------
(* The gate.  A check that goes on to store its count has read one below the
   limit. *)
BelowLimit == \A t \in Threads : thread[t].pc = "set" => thread[t].seen < Limit

(* The entry outlives the last admission by an hour ... *)
WindowKept == \A n \in 1 .. Limit + 1 : age[n] + ttl >= Hour

(* ... and, unless two checks overlapped, one check is under way at a time, which
   has read all that was counted, so the count covers the admissions of the hour. *)
OneCheck ==
    /\ \A t, u \in Threads : thread[t].pc = "set" /\ thread[u].pc = "set" => t = u
    /\ \A t \in Threads : thread[t].pc = "set" => thread[t].seen >= count

CountCovers == \A n \in 1 .. Limit + 1 : n > count => age[n] >= Hour

GateInv ==
    /\ TypeOK /\ BelowLimit /\ WindowKept
    /\ ~overlap => OneCheck /\ CountCovers

(* A client that pages: the rows it has not seen yet are on the pages to come. *)
UnseenAhead ==
    client.page # 0 /\ client.deleted = FALSE =>
        /\ client.start \subseteq tasks
        /\ \A x \in client.start \ client.seen :
                Cardinality(Above(tasks, x)) >= (client.page - 1) * page_size

(* What a request is recorded as. *)
LEMMA RequestType ==
    ASSUME ApiAssumption
    PROVE  NoRequest \in [pc : Steps, view : Views, copy : BOOLEAN, seen : 0 .. Limit]
  BY DEF NoRequest, Steps, Views, ApiAssumption

(* The lookup of a key refuses the request or lets it go on to the count. *)
LEMMA LookupEffect ==
    ASSUME ApiAssumption, TypeOK, NEW t \in Threads, LookupKey(t)
    PROVE  \E r \in [pc : {"idle", "get"}, view : Views, copy : BOOLEAN, seen : 0 .. Limit] :
                thread' = [thread EXCEPT ![t] = r]
  <1>1. CASE active
    <2> DEFINE r == [thread[t] EXCEPT !.pc = "get", !.copy = TRUE]
    <2>1. thread' = [thread EXCEPT ![t] = r]
      BY <1>1 DEF LookupKey, TypeOK
    <2>2. r \in [pc : {"idle", "get"}, view : Views, copy : BOOLEAN, seen : 0 .. Limit]
      BY DEF TypeOK
    <2> QED  BY <2>1, <2>2
  <1>2. CASE ~active
    <2>1. thread' = [thread EXCEPT ![t] = NoRequest]
      BY <1>2 DEF LookupKey, Respond
    <2>2. NoRequest \in [pc : {"idle", "get"}, view : Views, copy : BOOLEAN, seen : 0 .. Limit]
      BY DEF NoRequest, Views, ApiAssumption
    <2> QED  BY <2>1, <2>2
  <1> QED  BY <1>1, <1>2

(* A new row does not lower the rank of another. *)
LEMMA RankGrows ==
    ASSUME NEW T, NEW n, IsFiniteSet(T \cup {n}), NEW x
    PROVE  Cardinality(Above(T \cup {n}, x)) >= Cardinality(Above(T, x))
  <1>1. Above(T, x) \subseteq Above(T \cup {n}, x) /\ Above(T \cup {n}, x) \subseteq T \cup {n}
    BY DEF Above
  <1>2. IsFiniteSet(Above(T \cup {n}, x))
    BY <1>1, FS_Subset
  <1>3. Cardinality(Above(T, x)) <= Cardinality(Above(T \cup {n}, x))
    BY <1>1, <1>2, FS_Subset
  <1>4. /\ Cardinality(Above(T, x)) \in Nat
        /\ Cardinality(Above(T \cup {n}, x)) \in Nat
    BY <1>1, <1>2, FS_Subset, FS_CardinalityType
  <1> QED  BY <1>3, <1>4

(* The rows of a key are finitely many. *)
LEMMA RowsFinite ==
    ASSUME NEW n \in Nat, NEW T, T \subseteq 1 .. n
    PROVE  IsFiniteSet(T) /\ T \subseteq Nat
  <1>1. T \in SUBSET Nat /\ \A x \in T : x <= n
    OBVIOUS
  <1> QED  BY <1>1, FS_BoundedSetOfNaturals

(* Where one page ends the next begins. *)
LEMMA PageArithmetic ==
    ASSUME NEW p \in Nat \ {0}, NEW q \in Nat \ {0}
    PROVE  /\ (p - 1) * q \in Nat /\ p * q = (p - 1) * q + q
           /\ p + 1 - 1 = p
  OBVIOUS

(* A rank is a number. *)
LEMMA RankNat ==
    ASSUME NEW T, IsFiniteSet(T), NEW x
    PROVE  Cardinality(Above(T, x)) \in Nat
  BY FS_Subset, FS_CardinalityType DEF Above

(* Every step keeps the types; the count never exceeds the limit. *)
LEMMA AccessTypeStep ==
    ASSUME ApiAssumption, TypeOK, BelowLimit, [Next]_vars
    PROVE  TypeOK'
  <1> USE DEF ApiAssumption, TypeOK, Steps, Views, NoRequest, BelowLimit, keyRow, gate,
       table
  <1>1. ASSUME NEW t \in Threads, LookupKey(t) PROVE TypeOK'
    <2>1. PICK r \in [pc : {"idle", "get"}, view : Views, copy : BOOLEAN, seen : 0 .. Limit] :
            thread' = [thread EXCEPT ![t] = r]
      BY <1>1, LookupEffect
    <2>2. UNCHANGED <<keyRow, gate, table>>
      BY <1>1 DEF LookupKey
    <2> QED  BY <2>1, <2>2
  <1>2. ASSUME NEW t \in Threads, ReadCount(t) PROVE TypeOK'
    <2>1. CASE Exceeded(count)
      <3>1. thread' = [thread EXCEPT ![t] = NoRequest] /\ UNCHANGED overlap
        BY <1>2, <2>1 DEF ReadCount, Respond
      <3>2. UNCHANGED <<keyRow, count, ttl, age, table>>
        BY <1>2 DEF ReadCount
      <3> QED  BY <3>1, <3>2
    <2>2. CASE ~Exceeded(count)
      <3>1. /\ thread' = [thread EXCEPT ![t].pc = "set", ![t].seen = count]
            /\ overlap' = (overlap \/ Overlapped(t))
        BY <1>2, <2>2 DEF ReadCount
      <3>2. UNCHANGED <<keyRow, count, ttl, age, table>>
        BY <1>2 DEF ReadCount
      <3>3. overlap' \in BOOLEAN
        BY <3>1
      <3>4. thread' = [thread EXCEPT ![t] = [thread[t] EXCEPT !.pc = "set", !.seen = count]]
        BY <3>1
      <3>5. [thread[t] EXCEPT !.pc = "set", !.seen = count]
                \in [pc : Steps, view : Views, copy : BOOLEAN, seen : 0 .. Limit]
        OBVIOUS
      <3>6. thread' \in [Threads -> [pc : Steps, view : Views, copy : BOOLEAN, seen : 0 .. Limit]]
        BY <3>4, <3>5
      <3> QED  BY <3>2, <3>3, <3>6
    <2> QED  BY <2>1, <2>2
  <1>3. ASSUME NEW t \in Threads, SetCount(t) PROVE TypeOK'
    <2>1. thread[t].seen < Limit /\ thread[t].seen \in 0 .. Limit
      BY <1>3 DEF SetCount
    <2>2. count' \in 0 .. Limit /\ ttl' \in 0 .. Hour
      BY <1>3, <2>1 DEF SetCount
    <2>3. age' \in [1 .. Limit + 1 -> 0 .. Hour]
      BY <1>3 DEF SetCount, Admit
    <2>4. thread' \in [Threads -> [pc : Steps, view : Views, copy : BOOLEAN, seen : 0 .. Limit]]
      BY <1>3 DEF SetCount, Goto
    <2> QED  BY <1>3, <2>2, <2>3, <2>4 DEF SetCount
  <1>4. ASSUME NEW t \in Threads, TouchKey(t) PROVE TypeOK'
    BY <1>4 DEF TouchKey, Goto
  <1>5. ASSUME NEW t \in Threads, analyze_api(t) PROVE TypeOK'
    BY <1>5 DEF analyze_api, Respond
  <1>6. ASSUME NEW t \in Threads, analyze_api_reuses(t) PROVE TypeOK'
    BY <1>6 DEF analyze_api_reuses, Respond
  <1>7. ASSUME NEW t \in Threads, list_tasks_api(t) PROVE TypeOK'
    <2>1. thread' \in [Threads -> [pc : Steps, view : Views, copy : BOOLEAN, seen : 0 .. Limit]]
      BY <1>7, RequestType DEF list_tasks_api, Respond
    <2>2. \A p : page_items(p) \subseteq 1 .. created
      BY DEF page_items
    <2>3. client' \in [page : Nat, start : SUBSET (1 .. created), seen : SUBSET (1 .. created),
                       deleted : BOOLEAN]
      BY <1>7, <2>2 DEF list_tasks_api
    <2> QED  BY <1>7, <2>1, <2>3 DEF list_tasks_api
  <1>8. ASSUME NEW t \in Threads, NEW v \in Views, Receive(t, v) PROVE TypeOK'
    <2>1. [NoRequest EXCEPT !.pc = "lookup", !.view = v]
                \in [pc : Steps, view : Views, copy : BOOLEAN, seen : 0 .. Limit]
      BY RequestType
    <2>2. thread' = [thread EXCEPT ![t] = [NoRequest EXCEPT !.pc = "lookup", !.view = v]]
      BY <1>8 DEF Receive
    <2>3. thread' \in [Threads -> [pc : Steps, view : Views, copy : BOOLEAN, seen : 0 .. Limit]]
      BY <2>1, <2>2
    <2> QED  BY <1>8, <2>3 DEF Receive
  <1>9. ASSUME NEW b \in BOOLEAN, SetActive(b) PROVE TypeOK'
    BY <1>9 DEF SetActive
  <1>10. ASSUME NEW x \in tasks, cleanup_old_tasks(x) PROVE TypeOK'
    BY <1>10 DEF cleanup_old_tasks
  <1>11. CASE Tick
    BY <1>11 DEF Tick
  <1>12. CASE UNCHANGED vars
    BY <1>12 DEF vars
  <1> QED
    BY <1>1, <1>2, <1>3, <1>4, <1>5, <1>6, <1>7, <1>8, <1>9, <1>10, <1>11, <1>12
       DEF Next, Thread

(* Every step keeps a count that was read below the limit. *)
LEMMA BelowLimitStep ==
    ASSUME ApiAssumption, TypeOK, BelowLimit, [Next]_vars
    PROVE  BelowLimit'
  <1> USE DEF ApiAssumption, TypeOK, Steps, Views, NoRequest, BelowLimit, keyRow, gate,
       table
  <1>1. ASSUME NEW t \in Threads, LookupKey(t) PROVE BelowLimit'
    <2>1. PICK r \in [pc : {"idle", "get"}, view : Views, copy : BOOLEAN, seen : 0 .. Limit] :
            thread' = [thread EXCEPT ![t] = r]
      BY <1>1, LookupEffect
    <2>2. UNCHANGED <<keyRow, gate, table>>
      BY <1>1 DEF LookupKey
    <2> QED  BY <2>1, <2>2
  <1>2. ASSUME NEW t \in Threads, ReadCount(t) PROVE BelowLimit'
    <2>1. CASE Exceeded(count)
      <3>1. thread' = [thread EXCEPT ![t] = NoRequest] /\ UNCHANGED overlap
        BY <1>2, <2>1 DEF ReadCount, Respond
      <3>2. UNCHANGED <<keyRow, count, ttl, age, table>>
        BY <1>2 DEF ReadCount
      <3> QED  BY <3>1, <3>2
    <2>2. CASE ~Exceeded(count)
      <3>1. /\ thread' = [thread EXCEPT ![t].pc = "set", ![t].seen = count]
            /\ overlap' = (overlap \/ Overlapped(t))
        BY <1>2, <2>2 DEF ReadCount
      <3>2. UNCHANGED <<keyRow, count, ttl, age, table>>
        BY <1>2 DEF ReadCount
      <3>3. count < Limit
        BY <2>2 DEF Exceeded
      <3> QED  BY <3>1, <3>3
    <2> QED  BY <2>1, <2>2
  <1>3. ASSUME NEW t \in Threads, SetCount(t) PROVE BelowLimit'
    BY <1>3 DEF SetCount, Admit, Goto
  <1>4. ASSUME NEW t \in Threads, TouchKey(t) PROVE BelowLimit'
    BY <1>4 DEF TouchKey, Goto
  <1>5. ASSUME NEW t \in Threads, analyze_api(t) PROVE BelowLimit'
    BY <1>5 DEF analyze_api, Respond
  <1>6. ASSUME NEW t \in Threads, analyze_api_reuses(t) PROVE BelowLimit'
    BY <1>6 DEF analyze_api_reuses, Respond
  <1>7. ASSUME NEW t \in Threads, list_tasks_api(t) PROVE BelowLimit'
    BY <1>7 DEF list_tasks_api, Respond
  <1>8. ASSUME NEW t \in Threads, NEW v \in Views, Receive(t, v) PROVE BelowLimit'
    BY <1>8 DEF Receive
  <1>9. ASSUME NEW b \in BOOLEAN, SetActive(b) PROVE BelowLimit'
    BY <1>9 DEF SetActive
  <1>10. ASSUME NEW x \in tasks, cleanup_old_tasks(x) PROVE BelowLimit'
    BY <1>10 DEF cleanup_old_tasks
  <1>11. CASE Tick
    BY <1>11 DEF Tick
  <1>12. CASE UNCHANGED vars
    BY <1>12 DEF vars
  <1> QED
    BY <1>1, <1>2, <1>3, <1>4, <1>5, <1>6, <1>7, <1>8, <1>9, <1>10, <1>11, <1>12
       DEF Next, Thread

(* Every step keeps the entry for an hour after the last admission. *)
LEMMA WindowStep ==
    ASSUME ApiAssumption, TypeOK, WindowKept, [Next]_vars
    PROVE  WindowKept'
  <1> USE DEF ApiAssumption, TypeOK, Steps, Views, NoRequest, WindowKept, keyRow, gate,
       table
  <1>1. ASSUME NEW t \in Threads, LookupKey(t) PROVE WindowKept'
    BY <1>1 DEF LookupKey, Respond
  <1>2. ASSUME NEW t \in Threads, ReadCount(t) PROVE WindowKept'
    BY <1>2 DEF ReadCount, Respond, Exceeded, Overlapped
  <1>3. ASSUME NEW t \in Threads, SetCount(t) PROVE WindowKept'
    BY <1>3 DEF SetCount, Admit, Goto
  <1>4. ASSUME NEW t \in Threads, TouchKey(t) PROVE WindowKept'
    BY <1>4 DEF TouchKey, Goto
  <1>5. ASSUME NEW t \in Threads, analyze_api(t) PROVE WindowKept'
    BY <1>5 DEF analyze_api, Respond
  <1>6. ASSUME NEW t \in Threads, analyze_api_reuses(t) PROVE WindowKept'
    BY <1>6 DEF analyze_api_reuses, Respond
  <1>7. ASSUME NEW t \in Threads, list_tasks_api(t) PROVE WindowKept'
    BY <1>7 DEF list_tasks_api, Respond
  <1>8. ASSUME NEW t \in Threads, NEW v \in Views, Receive(t, v) PROVE WindowKept'
    BY <1>8 DEF Receive
  <1>9. ASSUME NEW b \in BOOLEAN, SetActive(b) PROVE WindowKept'
    BY <1>9 DEF SetActive
  <1>10. ASSUME NEW x \in tasks, cleanup_old_tasks(x) PROVE WindowKept'
    BY <1>10 DEF cleanup_old_tasks
  <1>11. CASE Tick
    BY <1>11 DEF Tick
  <1>12. CASE UNCHANGED vars
    BY <1>12 DEF vars
  <1> QED
    BY <1>1, <1>2, <1>3, <1>4, <1>5, <1>6, <1>7, <1>8, <1>9, <1>10, <1>11, <1>12
       DEF Next, Thread

(* As long as no two checks overlap, one is under way at a time. *)
LEMMA OneCheckStep ==
    ASSUME ApiAssumption, TypeOK, BelowLimit, overlap = FALSE => OneCheck,
         overlap' = FALSE, [Next]_vars
    PROVE  OneCheck'
  <1> USE DEF ApiAssumption, TypeOK, Steps, Views, NoRequest, OneCheck, keyRow, gate,
       table
  <1>1. ASSUME NEW t \in Threads, LookupKey(t) PROVE OneCheck'
    <2>1. PICK r \in [pc : {"idle", "get"}, view : Views, copy : BOOLEAN, seen : 0 .. Limit] :
            thread' = [thread EXCEPT ![t] = r]
      BY <1>1, LookupEffect
    <2>2. UNCHANGED <<keyRow, gate, table>>
      BY <1>1 DEF LookupKey
    <2> QED  BY <2>1, <2>2
  <1>2. ASSUME NEW t \in Threads, ReadCount(t) PROVE OneCheck'
    <2>1. CASE Exceeded(count)
      <3>1. thread' = [thread EXCEPT ![t] = NoRequest] /\ UNCHANGED overlap
        BY <1>2, <2>1 DEF ReadCount, Respond
      <3>2. UNCHANGED <<keyRow, count, ttl, age, table>>
        BY <1>2 DEF ReadCount
      <3> QED  BY <3>1, <3>2
    <2>2. CASE ~Exceeded(count)
      <3>1. /\ thread' = [thread EXCEPT ![t].pc = "set", ![t].seen = count]
            /\ overlap' = (overlap \/ Overlapped(t))
        BY <1>2, <2>2 DEF ReadCount
      <3>2. UNCHANGED <<keyRow, count, ttl, age, table>>
        BY <1>2 DEF ReadCount
      <3>3. overlap = FALSE /\ ~Overlapped(t)
        BY <3>1
      <3>4. \A u \in Threads \ {t} : thread[u].pc # "set" /\ thread'[u] = thread[u]
        BY <3>1, <3>3 DEF Overlapped
      <3>5. thread'[t].seen = count' /\ count' >= count
        BY <3>1, <3>2
      <3>6. \A u \in Threads : thread'[u].pc = "set" => u = t
        BY <3>4
      <3>7. \A u, w \in Threads : thread'[u].pc = "set" /\ thread'[w].pc = "set" => u = w
        BY <3>6
      <3>8. \A u \in Threads : thread'[u].pc = "set" => thread'[u].seen >= count'
        <4>1. count' \in Nat
          BY <3>2
        <4> QED  BY <3>5, <3>6, <4>1
      <3> QED  BY <3>7, <3>8
    <2> QED  BY <2>1, <2>2
  <1>3. ASSUME NEW t \in Threads, SetCount(t) PROVE OneCheck'
    BY <1>3 DEF SetCount, Admit, Goto
  <1>4. ASSUME NEW t \in Threads, TouchKey(t) PROVE OneCheck'
    BY <1>4 DEF TouchKey, Goto
  <1>5. ASSUME NEW t \in Threads, analyze_api(t) PROVE OneCheck'
    BY <1>5 DEF analyze_api, Respond
  <1>6. ASSUME NEW t \in Threads, analyze_api_reuses(t) PROVE OneCheck'
    BY <1>6 DEF analyze_api_reuses, Respond
  <1>7. ASSUME NEW t \in Threads, list_tasks_api(t) PROVE OneCheck'
    BY <1>7 DEF list_tasks_api, Respond
  <1>8. ASSUME NEW t \in Threads, NEW v \in Views, Receive(t, v) PROVE OneCheck'
    BY <1>8 DEF Receive
  <1>9. ASSUME NEW b \in BOOLEAN, SetActive(b) PROVE OneCheck'
    BY <1>9 DEF SetActive
  <1>10. ASSUME NEW x \in tasks, cleanup_old_tasks(x) PROVE OneCheck'
    BY <1>10 DEF cleanup_old_tasks
  <1>11. CASE Tick
    BY <1>11 DEF Tick
  <1>12. CASE UNCHANGED vars
    BY <1>12 DEF vars
  <1> QED
    BY <1>1, <1>2, <1>3, <1>4, <1>5, <1>6, <1>7, <1>8, <1>9, <1>10, <1>11, <1>12
       DEF Next, Thread

(* As long as no two checks overlap, the count covers the hour. *)
LEMMA CountStep ==
    ASSUME ApiAssumption, TypeOK, WindowKept, overlap = FALSE => OneCheck /\ CountCovers,
         overlap' = FALSE, [Next]_vars
    PROVE  CountCovers'
  <1> USE DEF ApiAssumption, TypeOK, Steps, Views, NoRequest, WindowKept, OneCheck,
       CountCovers, keyRow, gate, table
  <1>1. ASSUME NEW t \in Threads, LookupKey(t) PROVE CountCovers'
    BY <1>1 DEF LookupKey, Respond
  <1>2. ASSUME NEW t \in Threads, ReadCount(t) PROVE CountCovers'
    BY <1>2 DEF ReadCount, Respond, Exceeded, Overlapped
  <1>3. ASSUME NEW t \in Threads, SetCount(t) PROVE CountCovers'
    BY <1>3 DEF SetCount, Admit, Goto
  <1>4. ASSUME NEW t \in Threads, TouchKey(t) PROVE CountCovers'
    BY <1>4 DEF TouchKey, Goto
  <1>5. ASSUME NEW t \in Threads, analyze_api(t) PROVE CountCovers'
    BY <1>5 DEF analyze_api, Respond
  <1>6. ASSUME NEW t \in Threads, analyze_api_reuses(t) PROVE CountCovers'
    BY <1>6 DEF analyze_api_reuses, Respond
  <1>7. ASSUME NEW t \in Threads, list_tasks_api(t) PROVE CountCovers'
    BY <1>7 DEF list_tasks_api, Respond
  <1>8. ASSUME NEW t \in Threads, NEW v \in Views, Receive(t, v) PROVE CountCovers'
    BY <1>8 DEF Receive
  <1>9. ASSUME NEW b \in BOOLEAN, SetActive(b) PROVE CountCovers'
    BY <1>9 DEF SetActive
  <1>10. ASSUME NEW x \in tasks, cleanup_old_tasks(x) PROVE CountCovers'
    BY <1>10 DEF cleanup_old_tasks
  <1>11. CASE Tick
    BY <1>11 DEF Tick
  <1>12. CASE UNCHANGED vars
    BY <1>12 DEF vars
  <1> QED
    BY <1>1, <1>2, <1>3, <1>4, <1>5, <1>6, <1>7, <1>8, <1>9, <1>10, <1>11, <1>12
       DEF Next, Thread

(* Every step keeps the rows the client has not seen ahead of it. *)
LEMMA PagingStep ==
    ASSUME ApiAssumption, TypeOK, TypeOK', UnseenAhead, PagesComplete, [Next]_vars
    PROVE  (UnseenAhead /\ PagesComplete)'
  <1> USE DEF ApiAssumption, TypeOK, Steps, Views, NoRequest, UnseenAhead, PagesComplete,
       keyRow, gate, table
  <1>1. ASSUME NEW t \in Threads, LookupKey(t) PROVE (UnseenAhead /\ PagesComplete)'
    BY <1>1 DEF LookupKey, Respond
  <1>2. ASSUME NEW t \in Threads, ReadCount(t) PROVE (UnseenAhead /\ PagesComplete)'
    BY <1>2 DEF ReadCount, Respond, Exceeded, Overlapped
  <1>3. ASSUME NEW t \in Threads, SetCount(t) PROVE (UnseenAhead /\ PagesComplete)'
    BY <1>3 DEF SetCount, Admit, Goto
  <1>4. ASSUME NEW t \in Threads, TouchKey(t) PROVE (UnseenAhead /\ PagesComplete)'
    BY <1>4 DEF TouchKey, Goto
  <1>5. ASSUME NEW t \in Threads, analyze_api(t) PROVE (UnseenAhead /\ PagesComplete)'
    <2>0. /\ created \in Nat /\ tasks \subseteq 1 .. created
          /\ created' \in Nat /\ tasks' \subseteq 1 .. created'
      OBVIOUS
    <2>1. /\ tasks' = tasks \cup {created + 1} /\ UNCHANGED client
          /\ IsFiniteSet(tasks) /\ IsFiniteSet(tasks')
      <3>1. tasks' = tasks \cup {created + 1} /\ UNCHANGED client
        BY <1>5 DEF analyze_api
      <3> HIDE DEF TypeOK
      <3>2. IsFiniteSet(tasks) /\ IsFiniteSet(tasks')
        BY <2>0, RowsFinite
      <3> QED  BY <3>1, <3>2
    <2> HIDE DEF TypeOK
    <2>2. \A x \in tasks : Cardinality(Above(tasks', x)) >= Cardinality(Above(tasks, x))
      BY <2>1, RankGrows
    <2>3. \A x \in tasks : /\ Cardinality(Above(tasks', x)) \in Nat
                          /\ Cardinality(Above(tasks, x)) \in Nat
      BY <2>1, RankNat
    <2>4. page_size \in Nat
      BY PageSizePositive
    <2>5. client.page \in Nat
      BY DEF TypeOK
    <2>6. client.page # 0 => (client.page - 1) * page_size \in Nat
      BY <2>4, <2>5
    <2> HIDE DEF page_size
    <2> DEFINE lo == (client.page - 1) * page_size
    <2>7. ASSUME client.page # 0, client.deleted = FALSE,
                 NEW x \in client.start \ client.seen
          PROVE  Cardinality(Above(tasks', x)) >= lo
      <3>1. x \in tasks /\ Cardinality(Above(tasks, x)) >= lo /\ lo \in Nat
        BY <2>6, <2>7
      <3> HIDE DEF lo
      <3> QED  BY <2>2, <2>3, <3>1
    <2>8. UnseenAhead'
      BY <2>1, <2>7
    <2> QED  BY <2>1, <2>8
  <1>6. ASSUME NEW t \in Threads,
       analyze_api_reuses(t) PROVE (UnseenAhead /\ PagesComplete)'
    BY <1>6 DEF analyze_api_reuses, Respond
  <1>7. ASSUME NEW t \in Threads, list_tasks_api(t) PROVE (UnseenAhead /\ PagesComplete)'
    <2> DEFINE first == client.page = 0
               page == IF first THEN 1 ELSE client.page
               start == IF first THEN tasks ELSE client.start
               seen == IF first THEN {} ELSE client.seen
               items == page_items(page)
               rank(x) == Cardinality(Above(tasks, x))
    <2>1. /\ client'.page = (IF items = {} THEN 0 ELSE page + 1)
          /\ client'.start = start /\ client'.seen = seen \cup items
          /\ client'.deleted = (~first /\ client.deleted)
          /\ tasks' = tasks
      BY <1>7 DEF list_tasks_api
    <2>2. page \in Nat \ {0} /\ page_size \in Nat \ {0}
      BY PageSizePositive
    <2>3. IsFiniteSet(tasks) /\ tasks \subseteq Nat
      <3>1. created \in Nat /\ tasks \subseteq 1 .. created
        OBVIOUS
      <3> HIDE DEF TypeOK
      <3> QED  BY <3>1, RowsFinite
    <2>3a. client.deleted \in BOOLEAN
      OBVIOUS
    <2> HIDE DEF TypeOK
    <2>4. \A x \in tasks : rank(x) \in Nat
      BY <2>3, RankNat
    <2>5. /\ (page - 1) * page_size \in Nat
          /\ page * page_size = (page - 1) * page_size + page_size
          /\ page + 1 - 1 = page
      BY ONLY <2>2, PageArithmetic
    <2> DEFINE lo == (page - 1) * page_size
    <2>6. \A x \in tasks : x \in items <=> rank(x) \in lo .. lo + page_size - 1
      <3> DEFINE hi == page * page_size
      <3>1. \A x \in tasks : x \in items <=> rank(x) \in lo .. hi - 1
        BY DEF page_items, Above
      <3>2. hi = lo + page_size
        BY ONLY <2>5
      <3>3. lo \in Nat
        BY <2>5
      <3> HIDE DEF lo, hi, items, rank
      <3>4. hi - 1 = lo + page_size - 1
        BY <2>2, <3>2, <3>3
      <3> QED  BY <3>1, <3>4
    <2>7. SUFFICES ASSUME client'.deleted = FALSE PROVE (UnseenAhead /\ PagesComplete)'
      BY <2>1
    <2>8. start \subseteq tasks /\ \A x \in start \ seen : rank(x) >= lo
      <3>1. CASE first
        <4>1. lo = 0 /\ start = tasks
          BY <2>2, <3>1
        <4> QED  BY <2>4, <4>1
      <3>2. CASE ~first
        <4>1. client.deleted = FALSE
          BY <2>1, <2>3a, <2>7, <3>2
        <4> QED  BY <3>2, <4>1
      <3> QED  BY <3>1, <3>2
    <2>8a. lo \in Nat
      BY <2>5
    <2> HIDE DEF lo, rank, items, page, start, seen
    <2>9. items # {} => \A x \in start \ (seen \cup items) : rank(x) >= lo + page_size
      <3> SUFFICES ASSUME NEW x \in start \ (seen \cup items) PROVE rank(x) >= lo + page_size
        OBVIOUS
      <3>1. x \in tasks /\ rank(x) >= lo /\ rank(x) \in Nat
        BY <2>4, <2>8
      <3>2. ~(rank(x) \in lo .. lo + page_size - 1)
        BY <2>6, <3>1
      <3> QED  BY <2>2, <2>8a, <3>1, <3>2
    <2>10. ASSUME items = {} PROVE start \subseteq seen
      <3>1. SUFFICES ASSUME NEW x \in start \ seen PROVE FALSE
        OBVIOUS
      <3>2. PICK z \in tasks : rank(z) = lo
        BY <2>3, <2>8, <2>8a, NoGap DEF rank
      <3>3. z \in items
        BY <2>2, <2>6, <2>8a, <3>2
      <3> QED  BY <2>10, <3>3
    <2>11. UnseenAhead'
      <3>1. CASE items = {}
        BY <2>1, <3>1
      <3>2. CASE items # {}
        <4>1. client'.page = page + 1
          BY <2>1, <3>2
        <4>2. (client'.page - 1) * page_size = lo + page_size
          <5>1. client'.page - 1 = page
            BY ONLY <2>2, <4>1
          <5> QED  BY <2>5, <5>1 DEF lo
        <4>3. \A x \in client'.start \ client'.seen : rank(x) >= (client'.page - 1) * page_size
          BY <2>1, <2>9, <3>2, <4>2
        <4>4. client'.start \subseteq tasks'
          BY <2>1, <2>8
        <4> QED  BY <2>1, <4>3, <4>4 DEF rank
      <3> QED  BY <3>1, <3>2
    <2>12. PagesComplete'
      BY <2>1, <2>2, <2>10
    <2> QED  BY <2>11, <2>12
  <1>8. ASSUME NEW t \in Threads, NEW v \in Views, Receive(t,
       v) PROVE (UnseenAhead /\ PagesComplete)'
    BY <1>8 DEF Receive
  <1>9. ASSUME NEW b \in BOOLEAN, SetActive(b) PROVE (UnseenAhead /\ PagesComplete)'
    BY <1>9 DEF SetActive
  <1>10. ASSUME NEW x \in tasks,
       cleanup_old_tasks(x) PROVE (UnseenAhead /\ PagesComplete)'
    BY <1>10 DEF cleanup_old_tasks
  <1>11. CASE Tick
    BY <1>11 DEF Tick
  <1>12. CASE UNCHANGED vars
    BY <1>12 DEF vars
  <1> QED
    BY <1>1, <1>2, <1>3, <1>4, <1>5, <1>6, <1>7, <1>8, <1>9, <1>10, <1>11, <1>12
       DEF Next, Thread

(* Every reachable state satisfies the invariant of the gate. *)
LEMMA GateInvariant == Spec => []GateInv
  <1>1. Init => GateInv
    <2> SUFFICES ASSUME Init PROVE GateInv
      OBVIOUS
    <2> USE ApiAssumption DEF ApiAssumption
    <2>1. age \in [1 .. Limit + 1 -> 0 .. Hour] /\ \A n \in 1 .. Limit + 1 : age[n] = Hour
      BY DEF Init
    <2>2. thread \in [Threads -> [pc : Steps, view : Views, copy : BOOLEAN, seen : 0 .. Limit]]
      BY RequestType DEF Init
    <2>3. client \in [page : Nat, start : SUBSET (1 .. created), seen : SUBSET (1 .. created),
                      deleted : BOOLEAN]
      BY DEF Init, NotPaging
    <2>4. \A t \in Threads : thread[t].pc = "idle"
      BY DEF Init, NoRequest
    <2>5. TypeOK
      <3>1. count \in 0 .. Limit /\ ttl \in 0 .. Hour /\ tasks \subseteq 1 .. created
        BY DEF Init
      <3>2. created \in 0 .. MaxTasks
        BY DEF Init
      <3>3. active \in BOOLEAN /\ wanted \in BOOLEAN /\ overlap \in BOOLEAN
        BY DEF Init
      <3> QED  BY <2>1, <2>2, <2>3, <3>1, <3>2, <3>3 DEF TypeOK
    <2> QED  BY <2>1, <2>4, <2>5 DEF Init, GateInv, BelowLimit, WindowKept, OneCheck, CountCovers
  <1>2. GateInv /\ [Next]_vars => GateInv'
    <2> SUFFICES ASSUME GateInv, [Next]_vars PROVE GateInv'
      OBVIOUS
    <2>1. TypeOK' /\ BelowLimit' /\ WindowKept'
      BY ApiAssumption, AccessTypeStep, BelowLimitStep, WindowStep DEF GateInv
    <2>2. overlap \in BOOLEAN /\ overlap' \in BOOLEAN
      BY <2>1 DEF GateInv, TypeOK
    <2>3. ASSUME overlap' = FALSE PROVE OneCheck' /\ CountCovers'
      BY <2>2, <2>3, ApiAssumption, OneCheckStep, CountStep DEF GateInv
    <2> QED  BY <2>1, <2>2, <2>3 DEF GateInv
  <1> QED  BY <1>1, <1>2, PTL DEF Spec

(* Every variable of the API gate keeps its type, and the count of a key never
   exceeds its limit (auth.py). *)
THEOREM AccessTypeCorrect == Spec => []TypeOK
  BY GateInvariant, PTL DEF GateInv

(* In no hour are more than Limit requests of a key admitted unless two checks of
   check_rate_limit overlapped, for every limit, length of the hour and number of
   threads. *)
THEOREM HourlyLimitIsKept == Spec => []LimitKept
  <1>1. GateInv => LimitKept
    <2> SUFFICES ASSUME GateInv, ~overlap PROVE age[Limit + 1] >= Hour
      BY DEF LimitKept
    <2>1. Limit + 1 \in 1 .. Limit + 1 /\ Limit + 1 > count
      BY ApiAssumption DEF ApiAssumption, GateInv, TypeOK
    <2> QED  BY <2>1 DEF GateInv, CountCovers
  <1> QED  BY <1>1, GateInvariant, PTL

(* A key that the administrator revoked stays revoked, whatever requests had read
   its row before: save(update_fields=['last_used']) never writes is_active. *)
THEOREM RevocationIsKept == Spec => []RevocationHolds
  <1>1. Init => RevocationHolds
    BY DEF Init, RevocationHolds
  <1>2. RevocationHolds /\ [Next]_vars => RevocationHolds'
    <2>1. (\E t \in Threads : Thread(t)) => UNCHANGED keyRow
      BY DEF Thread, Receive, LookupKey, ReadCount, SetCount, TouchKey, analyze_api,
             analyze_api_reuses, list_tasks_api
    <2>2. (\E x \in tasks : cleanup_old_tasks(x)) \/ Tick \/ UNCHANGED vars => UNCHANGED keyRow
      BY DEF cleanup_old_tasks, Tick, vars
    <2>3. (\E b \in BOOLEAN : SetActive(b)) => active' = wanted'
      BY Zenon DEF SetActive
    <2>4. [Next]_vars => UNCHANGED keyRow \/ active' = wanted'
      BY <2>1, <2>2, <2>3, Zenon DEF Next
    <2> QED  BY <2>4, Zenon DEF keyRow, RevocationHolds
  <1> QED  BY <1>1, <1>2, PTL DEF Spec

(* A client that pages through list_tasks_api until a page is empty has seen every
   task there was when it began, however many are created on the way, unless one
   was deleted; for every page size. *)
THEOREM PagingIsComplete == Spec => []PagesComplete
  <1>1. Init => UnseenAhead /\ PagesComplete
    BY DEF Init, NotPaging, UnseenAhead, PagesComplete
  <1>2. GateInv /\ GateInv' /\ UnseenAhead /\ PagesComplete /\ [Next]_vars =>
            (UnseenAhead /\ PagesComplete)'
    BY ApiAssumption, PagingStep DEF GateInv
  <1> QED  BY <1>1, <1>2, GateInvariant, PTL DEF Spec

=============================================================================
