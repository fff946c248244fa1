-------------------------- MODULE FeedPipelineProofs -------------------------
(***************************************************************************)
(* Theorems about FeedPipeline for every number of feed entries and        *)
(* workers, every configuration of the subscription and every bound on     *)
(* the faults.                                                             *)
(***************************************************************************)
EXTENDS FeedPipeline, FiniteSetTheorems, TLAPS

-----------------------------------------------------------------------------
(* The inductive invariant.                                                *)

\* A ticker that runs has a positive frequency, and time to its next tick.
ClockRuns == \A w \in Workers : Ticking(w) => clock[w] > 0 /\ Freq > 0

\* A worker with a lease is handling a message, and a worker that handles a
\* message holds one.
LeaseIsOfMessage ==
    \A w \in Workers :
        /\ lease[w] > 0 => pc[w] \in Holding
        /\ pc[w] \in Holding => msg[w] \in Entries

TypeInv == TypeOK /\ ClockRuns /\ LeaseIsOfMessage /\ NoLateExtension

-----------------------------------------------------------------------------
(* What the helpers return.                                                *)

\* The deadline of the extender and its frequency are integers.
LEMMA FreqType == TypeOK => Deadline \in Nat \ {0} /\ Freq \in Int
BY FeedAssumption DEF TypeOK, Deadline, Freq

\* Pub/Sub is asked for a deadline it accepts, in particular not for none.
LEMMA ClampedType == ASSUME NEW d \in Nat PROVE Clamped(d) \in Nat \ {0}
BY FeedAssumption DEF Clamped

\* As many copies lapse as there are workers that lose their lease: a number,
\* and not 0 if there is one.
LEMMA LapsingCount ==
    ASSUME NEW m
    PROVE  /\ Cardinality(Lapsing(m)) \in Nat
           /\ \A w \in Lapsing(m) : Cardinality(Lapsing(m)) > 0
<1>1. IsFiniteSet(Lapsing(m))
  BY FS_Subset, FeedAssumption DEF Lapsing
<1>2. Cardinality(Lapsing(m)) \in Nat
  BY <1>1, FS_CardinalityType
<1>3. ASSUME NEW w \in Lapsing(m) PROVE Cardinality(Lapsing(m)) > 0
  <2>1. Lapsing(m) # {}
    BY <1>3
  <2>2. Cardinality(Lapsing(m)) # 0
    BY <1>1, <2>1, FS_EmptySet
  <2> QED BY <1>2, <2>2
<1> QED BY <1>2, <1>3

\* The topic remains a count of copies when a worker gives up its message.
LEMMA ReturnedType ==
    ASSUME TypeInv, NEW w \in Workers PROVE Returned(w) \in [Entries -> Nat]
<1>1. lease[w] > 0 => msg[w] \in Entries
  BY DEF TypeInv, LeaseIsOfMessage
<1> QED BY <1>1 DEF TypeInv, TypeOK, Returned

-----------------------------------------------------------------------------
(* Every step preserves TypeInv.                                           *)

\* The scheduler's steps change its goroutines and the two topics only.
LEMMA SchedulerType == TypeInv /\ Scheduler => TypeInv'
<1> SUFFICES ASSUME TypeInv, Scheduler PROVE TypeInv'
  OBVIOUS
<1> USE DEF TypeInv, TypeOK, schedVars, confVars, loopVars, extVars, doneVars
<1>1. UNCHANGED <<confVars, loopVars, extVars, doneVars>>
  BY DEF Scheduler, ProxyReceive, ProxyReject, ProxySend, ProxySendFails,
         ProxyAck, FeedRedeliver, FeedRedeliverEarly, SchedulerRestart
<1>2. ClockRuns' /\ LeaseIsOfMessage' /\ NoLateExtension'
  BY <1>1 DEF ClockRuns, LeaseIsOfMessage, NoLateExtension, Ticking, Freq, Deadline
<1>3. /\ feed' \in [Entries -> {"ready", "leased", "acked"}]
      /\ sending' \in [Entries -> Nat]
      /\ acking' \in [Entries -> Nat]
      /\ topic' \in [Entries -> Nat]
  BY DEF Scheduler, ProxyReceive, ProxyReject, ProxySend, ProxySendFails,
         ProxyAck, FeedRedeliver, FeedRedeliverEarly, SchedulerRestart
<1>4. faults' \in 0 .. MaxFaults
  BY FeedAssumption DEF Scheduler, ProxyReceive, ProxyReject, ProxySend,
         ProxySendFails, ProxyAck, FeedRedeliver, FeedRedeliverEarly,
         SchedulerRestart, Fault
<1> QED BY <1>1, <1>2, <1>3, <1>4

\* A worker that stops or dies has no message, lease, goroutine or ticker.
LEMMA ExitType ==
    ASSUME TypeInv, NEW w \in Workers, NEW t \in [Entries -> Nat], Exit(w, t),
           faults' \in 0 .. MaxFaults
    PROVE  TypeInv'
<1> USE DEF TypeInv, TypeOK, Exit, schedVars, confVars, doneVars, Steps, Holding,
            Handling, ExtStates
<1>1. TypeOK'
  OBVIOUS
<1>2. ClockRuns'
  BY DEF ClockRuns, Ticking, Freq, Deadline
<1>3. LeaseIsOfMessage' /\ NoLateExtension'
  BY DEF LeaseIsOfMessage, NoLateExtension
<1> QED BY <1>1, <1>2, <1>3

\* The steps of handleMessage change the position in it and the stored results.
LEMMA HandleMessageType ==
    ASSUME TypeInv, NEW w \in Workers, HandleMessage(w) PROVE TypeInv'
<1> USE DEF TypeInv, TypeOK, HandleGoto, schedVars, confVars, extVars
<1> DEFINE Goes(step, err) ==
        /\ pc' = [pc EXCEPT ![w] = step]
        /\ failed' = [failed EXCEPT ![w] = err]
<1>1. UNCHANGED <<schedVars, topic, confVars, msg, extVars, acked>>
  BY DEF HandleMessage, HandleSkip, HandlePrepare, HandlePrepareFails,
         HandleStatic, HandleStaticEmpty, HandleStaticFails, HandleDynamic,
         HandleDynamicFails, HandleNotify, HandleNotifyFails
<1>2. /\ pc[w] \in Handling
      /\ \E step \in Holding, err \in BOOLEAN : Goes(step, err)
  BY DEF HandleMessage, HandleSkip, HandlePrepare, HandlePrepareFails,
         HandleStatic, HandleStaticEmpty, HandleStaticFails, HandleDynamic,
         HandleDynamicFails, HandleNotify, HandleNotifyFails, Holding, Handling
<1>3. saved' \in [Entries -> SUBSET Results] /\ faults' \in 0 .. MaxFaults
  BY FeedAssumption
     DEF HandleMessage, HandleSkip, HandlePrepare, HandlePrepareFails,
         HandleStatic, HandleStaticEmpty, HandleStaticFails, HandleDynamic,
         HandleDynamicFails, HandleNotify, HandleNotifyFails, Fault, Results
<1>4. pc' \in [Workers -> Steps] /\ failed' \in [Workers -> BOOLEAN]
  BY <1>2 DEF Steps
<1>5. ClockRuns'
  BY <1>1 DEF ClockRuns, Ticking, Freq, Deadline
<1>6. LeaseIsOfMessage'
  BY <1>1, <1>2 DEF LeaseIsOfMessage, Holding
<1>7. NoLateExtension'
  BY <1>1, <1>2 DEF HandleMessage, HandleSkip, HandlePrepare, HandlePrepareFails,
         HandleStatic, HandleStaticEmpty, HandleStaticFails, HandleDynamic,
         HandleDynamicFails, HandleNotify, HandleNotifyFails, NoLateExtension
<1> QED BY <1>1, <1>3, <1>4, <1>5, <1>6, <1>7

\* The other steps of messageLoop.
LEMMA LoopType ==
    ASSUME TypeInv, NEW w \in Workers,
           \/ WorkerStarts(w) \/ \E m \in Entries : Receive(w, m)
           \/ StopSignal(w) \/ StopWait(w) \/ FinishAck(w) \/ FinishNack(w)
    PROVE  TypeInv'
<1> USE DEF TypeInv, TypeOK, schedVars, confVars, loopVars, extVars, doneVars,
            Steps, Holding, Handling, ExtStates
<1>1. CASE WorkerStarts(w)
  <2>1. TypeOK'
    BY <1>1 DEF WorkerStarts
  <2>2. ClockRuns' /\ LeaseIsOfMessage' /\ NoLateExtension'
    BY <1>1 DEF WorkerStarts, ClockRuns, Ticking, Freq, Deadline, LeaseIsOfMessage,
                NoLateExtension
  <2> QED BY <2>1, <2>2
<1>2. CASE \E m \in Entries : Receive(w, m)
  <2> PICK m \in Entries : Receive(w, m)
    BY <1>2
  <2>1. Freq \in Int /\ ackTime \in Nat \ {0}
    BY FreqType, FeedAssumption
  <2>2. TypeOK'
    BY <2>1 DEF Receive
  <2>3. ClockRuns'
    BY <2>1 DEF Receive, ClockRuns, Ticking, Freq, Deadline
  <2>4. LeaseIsOfMessage' /\ NoLateExtension'
    BY DEF Receive, LeaseIsOfMessage, NoLateExtension
  <2> QED BY <2>2, <2>3, <2>4
<1>3. CASE StopSignal(w)
  <2>1. TypeOK'
    BY <1>3 DEF StopSignal
  <2>2. ClockRuns' /\ LeaseIsOfMessage' /\ NoLateExtension'
    BY <1>3 DEF StopSignal, ClockRuns, Ticking, Freq, Deadline, LeaseIsOfMessage,
                NoLateExtension
  <2> QED BY <2>1, <2>2
<1>4. CASE StopWait(w)
  <2>1. TypeOK'
    BY <1>4 DEF StopWait
  <2>2. ClockRuns' /\ LeaseIsOfMessage' /\ NoLateExtension'
    BY <1>4 DEF StopWait, ClockRuns, Ticking, Freq, Deadline, LeaseIsOfMessage,
                NoLateExtension
  <2> QED BY <2>1, <2>2
<1>5. CASE FinishAck(w) \/ FinishNack(w)
  <2>1. topic' \in [Entries -> Nat] /\ acked' \subseteq Entries
    BY <1>5, ReturnedType DEF FinishAck, FinishNack, LeaseIsOfMessage
  <2>2. pc[w] = "finish" /\ NextMessage(w)
    BY <1>5 DEF FinishAck, FinishNack
  <2>3. TypeOK'
    BY <2>1, <2>2 DEF NextMessage
  <2>4. LeaseIsOfMessage' /\ NoLateExtension'
    BY <2>2 DEF NextMessage, LeaseIsOfMessage, NoLateExtension
  <2>5. ClockRuns'
    BY <2>2 DEF NextMessage, ClockRuns, Ticking, Freq, Deadline, NoLateExtension
  <2> QED BY <2>3, <2>4, <2>5
<1> QED BY <1>1, <1>2, <1>3, <1>4, <1>5

\* The extender goroutine calls only while its message is handled or stopped.
LEMMA ExtenderType ==
    ASSUME TypeInv, NEW w \in Workers, Extender(w) PROVE TypeInv'
<1> USE DEF TypeInv, TypeOK, schedVars, confVars, loopVars, doneVars, ExtStates
<1>1. /\ ext[w] \in {"select", "calling"}
      /\ ext' = [ext EXCEPT ![w] = ext'[w]]
      /\ ext'[w] \in {"select", "calling", "broken"}
      /\ UNCHANGED <<schedVars, topic, confVars, loopVars, clock, doneVars>>
  BY DEF Extender, ExtendCall, ExtendReturns, ExtendFails
<1>2. Clamped(Deadline) \in Nat \ {0}
  BY FreqType, ClampedType
<1>3. /\ lease' \in [Workers -> Nat]
      /\ \A v \in Workers : lease'[v] > 0 => lease[v] > 0
  BY <1>2 DEF Extender, ExtendCall, ExtendReturns, ExtendFails
<1>4. /\ tick' \in [Workers -> BOOLEAN]
      /\ age' \in [Workers -> Nat]
      /\ faults' \in 0 .. MaxFaults
  <2>1. CASE ExtendCall(w)
    BY <2>1 DEF ExtendCall
  <2>2. CASE ExtendReturns(w)
    BY <2>2 DEF ExtendReturns
  <2>3. CASE ExtendFails(w)
    BY <2>3, FeedAssumption DEF ExtendFails, Fault
  <2> QED BY <2>1, <2>2, <2>3 DEF Extender
<1>5. TypeOK'
  BY <1>1, <1>3, <1>4
<1>6. ClockRuns'
  BY <1>1 DEF ClockRuns, Ticking, Freq, Deadline
<1>7. LeaseIsOfMessage' /\ NoLateExtension'
  BY <1>1, <1>3 DEF LeaseIsOfMessage, NoLateExtension
<1> QED BY <1>5, <1>6, <1>7

\* The passing of time.
LEMMA TimeType == TypeInv /\ Time => TypeInv'
<1> SUFFICES ASSUME TypeInv, Time PROVE TypeInv'
  OBVIOUS
<1> USE DEF TypeInv, TypeOK, schedVars, confVars, loopVars, doneVars, Time
<1>1. topic' \in [Entries -> Nat]
  BY LapsingCount
<1>2. lease' \in [Workers -> Nat] /\ \A w \in Workers : lease'[w] > 0 => lease[w] > 0
  BY DEF Dec
<1>3. clock' \in [Workers -> Nat]
  BY FreqType DEF ClockRuns
<1>4. tick' \in [Workers -> BOOLEAN] /\ age' \in [Workers -> Nat]
  OBVIOUS
<1>5. TypeOK'
  BY <1>1, <1>2, <1>3, <1>4
<1>6. ClockRuns'
  BY FreqType DEF ClockRuns, Ticking, Freq, Deadline
<1>7. LeaseIsOfMessage' /\ NoLateExtension'
  BY <1>2 DEF LeaseIsOfMessage, NoLateExtension
<1> QED BY <1>5, <1>6, <1>7

\* Initially every worker waits for a message.
LEMMA InitType == Init => TypeInv
BY FeedAssumption
   DEF Init, TypeInv, TypeOK, ClockRuns, LeaseIsOfMessage, NoLateExtension, Ticking,
       Steps, Holding, Handling, ExtStates

\* TypeInv is inductive.
LEMMA NextType == TypeInv /\ [Next]_vars => TypeInv'
<1> SUFFICES ASSUME TypeInv, [Next]_vars PROVE TypeInv'
  OBVIOUS
<1>1. CASE Scheduler
  BY <1>1, SchedulerType
<1>2. ASSUME NEW w \in Workers, Worker(w) PROVE TypeInv'
  <2>1. CASE WorkerDies(w)
    <3>1. faults' \in 0 .. MaxFaults
      BY <2>1, FeedAssumption DEF TypeInv, TypeOK, WorkerDies, Fault
    <3> QED BY <2>1, <3>1, ReturnedType, ExitType DEF WorkerDies
  <2>2. ASSUME NEW m \in Entries, ReceiveRefused(w, m) PROVE TypeInv'
    <3>1. topic \in [Entries -> Nat] /\ faults' \in 0 .. MaxFaults
      BY <2>2 DEF TypeInv, TypeOK, ReceiveRefused
    <3> QED BY <2>2, <3>1, ExitType DEF ReceiveRefused
  <2>3. CASE HandleMessage(w)
    BY <2>3, HandleMessageType
  <2> QED BY <1>2, <2>1, <2>2, <2>3, LoopType DEF Worker
<1>3. ASSUME NEW w \in Workers, Extender(w) PROVE TypeInv'
  BY <1>3, ExtenderType
<1>4. CASE Time
  BY <1>4, TimeType
<1>5. CASE UNCHANGED vars
  BY <1>5 DEF vars, schedVars, confVars, loopVars, extVars, doneVars, TypeInv, TypeOK,
              ClockRuns, LeaseIsOfMessage, NoLateExtension, Ticking, Freq, Deadline
<1> QED BY <1>1, <1>2, <1>3, <1>4, <1>5 DEF Next

\* The state keeps its types: in particular no goroutine is counted twice, no
\* ticker runs below zero and no copy of a message is made up or lost below zero.
THEOREM FeedTypeCorrect == Spec => []TypeOK
<1>1. TypeInv => TypeOK
  BY DEF TypeInv
<1> QED BY InitType, NextType, <1>1, PTL DEF Spec

\* Stop (extender.go) is waited for: no extension of a lease is under way once
\* the message has been answered, or a worker has none.
THEOREM StopIsWaitedFor == Spec => []NoLateExtension
<1>1. TypeInv => NoLateExtension
  BY DEF TypeInv
<1> QED BY InitType, NextType, <1>1, PTL DEF Spec

-----------------------------------------------------------------------------
(* Nothing is acknowledged before its results are stored.                  *)

\* What the position of a worker in handleMessage says about the store: the
\* static analysis is dealt with before the dynamic one is run without error,
\* both before the notification and before a package is left without error.
Stored(w) ==
    /\ pc[w] = "dynamic" /\ ~failed[w] =>
            saved[msg[w]] \cap {"static", "no_output"} # {}
    /\ pc[w] = "notify" => Analysed(saved[msg[w]])
    /\ pc[w] \in {"stop", "finish"} /\ ~failed[w] /\ Analysable(msg[w]) =>
            Analysed(saved[msg[w]])

SavedInv == AckedIsSaved /\ \A w \in Workers : Stored(w)

\* Results are never removed, so what is analysed remains so.
LEMMA ResultsGrow ==
    ASSUME TypeInv, [Next]_vars, NEW m \in Entries PROVE saved[m] \subseteq saved'[m]
<1> USE DEF TypeInv, TypeOK, doneVars
<1>1. CASE Scheduler
  BY <1>1 DEF Scheduler, ProxyReceive, ProxyReject, ProxySend, ProxySendFails,
         ProxyAck, FeedRedeliver, FeedRedeliverEarly, SchedulerRestart
<1>2. ASSUME NEW w \in Workers, HandleMessage(w) PROVE saved[m] \subseteq saved'[m]
  <2>1. UNCHANGED saved \/ \E x : saved' = [saved EXCEPT ![msg[w]] = @ \cup {x}]
    BY <1>2 DEF HandleMessage, HandleSkip, HandlePrepare, HandlePrepareFails,
           HandleStatic, HandleStaticEmpty, HandleStaticFails, HandleDynamic,
           HandleDynamicFails, HandleNotify, HandleNotifyFails
  <2> QED
    BY <2>1
<1>3. ASSUME NEW w \in Workers, Worker(w), ~HandleMessage(w)
      PROVE  saved[m] \subseteq saved'[m]
  BY <1>3 DEF Worker, WorkerDies, WorkerStarts, Receive, ReceiveRefused, Exit,
         StopSignal, StopWait, FinishAck, FinishNack, NextMessage
<1>4. ASSUME NEW w \in Workers, Extender(w) PROVE saved[m] \subseteq saved'[m]
  BY <1>4 DEF Extender, ExtendCall, ExtendReturns, ExtendFails
<1>5. CASE Time
  BY <1>5 DEF Time
<1>6. CASE UNCHANGED vars
  BY <1>6 DEF vars
<1> QED BY <1>1, <1>2, <1>3, <1>4, <1>5, <1>6 DEF Next

\* Growing results remain analysed.
LEMMA AnalysedGrows ==
    ASSUME NEW R, NEW S, R \subseteq S, Analysed(R) PROVE Analysed(S)
BY DEF Analysed

\* A worker whose position and message stay has in store what it had.
LEMMA StoredStays ==
    ASSUME TypeInv, [Next]_vars, NEW w \in Workers, Stored(w),
           pc'[w] = pc[w], msg'[w] = msg[w], failed'[w] = failed[w], kind' = kind
    PROVE  Stored(w)'
<1>1. pc[w] \in Holding => saved[msg[w]] \subseteq saved'[msg[w]]
  BY ResultsGrow DEF TypeInv, LeaseIsOfMessage
<1>2. pc[w] \in {"dynamic", "notify", "stop", "finish"} => pc[w] \in Holding
  BY DEF Holding, Handling
<1> QED BY <1>1, <1>2, AnalysedGrows DEF Stored, Analysable

\* A step of handleMessage leaves the worker where its results are stored.
LEMMA HandleStores ==
    ASSUME TypeInv, NEW w \in Workers, Stored(w), HandleMessage(w)
    PROVE  Stored(w)'
<1> USE DEF TypeInv, TypeOK, HandleGoto, Stored, Analysable, Analysed, Results,
            confVars
<1>1. msg[w] \in Entries
  BY DEF HandleMessage, HandleSkip, HandlePrepare, HandlePrepareFails,
         HandleStatic, HandleStaticEmpty, HandleStaticFails, HandleDynamic,
         HandleDynamicFails, HandleNotify, HandleNotifyFails,
         LeaseIsOfMessage, Holding, Handling
<1>2. CASE HandleSkip(w) \/ HandlePrepare(w) \/ HandlePrepareFails(w)
  BY <1>2 DEF HandleSkip, HandlePrepare, HandlePrepareFails
<1>3. CASE HandleStatic(w) \/ HandleStaticEmpty(w) \/ HandleStaticFails(w)
  <2>1. /\ pc'[w] = "dynamic" /\ msg'[w] = msg[w]
        /\ ~failed'[w] => "static" \in saved'[msg[w]] \/ "no_output" \in saved'[msg[w]]
    BY <1>1, <1>3 DEF HandleStatic, HandleStaticEmpty, HandleStaticFails
  <2> QED BY <2>1
<1>4. CASE HandleDynamic(w) \/ HandleDynamicFails(w)
  BY <1>1, <1>4 DEF HandleDynamic, HandleDynamicFails
<1>5. CASE HandleNotify(w) \/ HandleNotifyFails(w)
  BY <1>1, <1>5 DEF HandleNotify, HandleNotifyFails
<1> QED BY <1>2, <1>3, <1>4, <1>5 DEF HandleMessage

\* SavedInv is inductive given TypeInv.
LEMMA NextSaved == TypeInv /\ SavedInv /\ [Next]_vars => SavedInv'
<1> SUFFICES ASSUME TypeInv, SavedInv, [Next]_vars PROVE SavedInv'
  OBVIOUS
<1> USE DEF SavedInv
<1>1. kind' = kind
  BY DEF Next, vars, confVars, Scheduler, ProxyReceive, ProxyReject, ProxySend,
         ProxySendFails, ProxyAck, FeedRedeliver, FeedRedeliverEarly,
         SchedulerRestart, Worker, WorkerDies, WorkerStarts, Receive,
         ReceiveRefused, Exit, HandleMessage, HandleGoto, HandleSkip,
         HandlePrepare, HandlePrepareFails, HandleStatic, HandleStaticEmpty,
         HandleStaticFails, HandleDynamic, HandleDynamicFails, HandleNotify,
         HandleNotifyFails, StopSignal, StopWait, FinishAck, FinishNack,
         NextMessage, Extender, ExtendCall, ExtendReturns, ExtendFails, Time
<1>2. ASSUME acked' \subseteq acked, UNCHANGED loopVars PROVE SavedInv'
  <2>1. AckedIsSaved'
    BY <1>1, <1>2, ResultsGrow, AnalysedGrows
       DEF AckedIsSaved, Analysable, TypeInv, TypeOK
  <2>2. \A w \in Workers : Stored(w)'
    BY <1>1, <1>2, StoredStays DEF loopVars
  <2> QED BY <2>1, <2>2
<1>3. ASSUME NEW w \in Workers, Stored(w)',
             \A v \in Workers \ {w} : /\ pc'[v] = pc[v] /\ msg'[v] = msg[v]
                                      /\ failed'[v] = failed[v],
             \A m \in acked' :
                m \in acked \/ (m \in Entries /\ (Analysable(m) => Analysed(saved[m])))
      PROVE  SavedInv'
  <2>1. AckedIsSaved'
    BY <1>1, <1>3, ResultsGrow, AnalysedGrows
       DEF AckedIsSaved, Analysable, TypeInv, TypeOK
  <2>2. \A v \in Workers : Stored(v)'
    BY <1>1, <1>3, StoredStays
  <2> QED BY <2>1, <2>2
<1>4. CASE Scheduler
  BY <1>4, <1>2 DEF Scheduler, ProxyReceive, ProxyReject, ProxySend, ProxySendFails,
         ProxyAck, FeedRedeliver, FeedRedeliverEarly, SchedulerRestart, doneVars
<1>5. CASE Time \/ UNCHANGED vars \/ \E w \in Workers : Extender(w)
  BY <1>5, <1>2 DEF Time, vars, Extender, ExtendCall, ExtendReturns, ExtendFails, doneVars
<1>6. ASSUME NEW w \in Workers, Worker(w) PROVE SavedInv'
  <2>1. \A v \in Workers \ {w} : /\ pc'[v] = pc[v] /\ msg'[v] = msg[v]
                                 /\ failed'[v] = failed[v]
    BY <1>6 DEF Worker, WorkerDies, WorkerStarts, Receive, ReceiveRefused, Exit,
         HandleMessage, HandleGoto, HandleSkip, HandlePrepare, HandlePrepareFails,
         HandleStatic, HandleStaticEmpty, HandleStaticFails, HandleDynamic,
         HandleDynamicFails, HandleNotify, HandleNotifyFails, StopSignal,
         StopWait, FinishAck, FinishNack, NextMessage, loopVars, TypeInv, TypeOK
  <2>2. CASE HandleMessage(w)
    <3>1. acked' = acked
      BY <2>2 DEF HandleMessage, HandleGoto, HandleSkip, HandlePrepare,
         HandlePrepareFails, HandleStatic, HandleStaticEmpty, HandleStaticFails,
         HandleDynamic, HandleDynamicFails, HandleNotify, HandleNotifyFails
    <3> QED BY <1>3, <2>1, <2>2, <3>1, HandleStores
  <2>3. CASE StopSignal(w) \/ StopWait(w)
    <3>1. acked' = acked /\ Stored(w)'
      BY <2>3, <1>1, ResultsGrow, AnalysedGrows
         DEF StopSignal, StopWait, doneVars, loopVars, Stored, Analysable, TypeInv,
             TypeOK
    <3> QED BY <1>3, <2>1, <3>1
  <2>4. CASE WorkerDies(w) \/ WorkerStarts(w)
               \/ \E m \in Entries : Receive(w, m) \/ ReceiveRefused(w, m)
    <3>1. acked' = acked /\ pc'[w] \in {"down", "receive", "prepare"}
      BY <2>4 DEF WorkerDies, WorkerStarts, Receive, ReceiveRefused, Exit, doneVars,
                  TypeInv, TypeOK
    <3> QED BY <1>3, <2>1, <3>1 DEF Stored
  <2>5. CASE FinishAck(w) \/ FinishNack(w)
    <3>1. pc'[w] = "receive" /\ pc[w] = "finish" /\ msg[w] \in Entries
      BY <2>5 DEF FinishAck, FinishNack, NextMessage, TypeInv, TypeOK,
                  LeaseIsOfMessage, Holding
    <3>2. acked' # acked => ~failed[w] /\ acked' = acked \cup {msg[w]}
      BY <2>5 DEF FinishAck, FinishNack
    <3>3. \A m \in acked' : m \in acked
                \/ (m \in Entries /\ (Analysable(m) => Analysed(saved[m])))
      BY <3>1, <3>2 DEF Stored
    <3> QED BY <1>3, <2>1, <3>1, <3>3 DEF Stored
  <2> QED BY <1>6, <2>2, <2>3, <2>4, <2>5 DEF Worker
<1> QED BY <1>4, <1>5, <1>6 DEF Next

\* messageLoop acknowledges a package only when both its analyses have been
\* dealt with and what they gave is in the result stores, for any number of
\* workers that hold copies of it and whatever failed before.
THEOREM AcknowledgedIsSaved == Spec => []AckedIsSaved
<1>1. Init => TypeInv /\ SavedInv
  BY InitType DEF Init, SavedInv, AckedIsSaved, Stored
<1>2. TypeInv /\ SavedInv /\ [Next]_vars => (TypeInv /\ SavedInv)'
  BY NextType, NextSaved
<1>3. TypeInv /\ SavedInv => AckedIsSaved
  BY DEF SavedInv
<1> QED BY <1>1, <1>2, <1>3, PTL DEF Spec

-----------------------------------------------------------------------------
(* No feed entry is lost.                                                  *)

\* The worker topic has e: a copy waits, a worker holds the lease of one, or
\* one has been acknowledged.
InTopic(e) ==
    \/ topic[e] > 0
    \/ \E w \in Workers : msg[w] = e /\ lease[w] > 0
    \/ e \in acked

\* What the proxy has acknowledged, or is about to, has been sent.
SentInv ==
    \A e \in Entries :
        Forwardable(e) /\ (feed[e] = "acked" \/ acking[e] > 0) => InTopic(e)

\* A message that is in the worker topic remains there, in one form or another,
\* when a worker takes it, loses its lease, dies, acks or nacks.
LEMMA TopicKeeps ==
    ASSUME TypeInv, [Next]_vars, NEW e \in Entries, InTopic(e) PROVE InTopic(e)'
<1> USE DEF TypeInv, TypeOK, InTopic
<1>1. CASE Scheduler
  BY <1>1 DEF Scheduler, ProxyReceive, ProxyReject, ProxySend, ProxySendFails,
         ProxyAck, FeedRedeliver, FeedRedeliverEarly, SchedulerRestart, loopVars,
         extVars, doneVars
<1>2. ASSUME NEW w \in Workers, Worker(w) PROVE InTopic(e)'
  <2>1. CASE WorkerDies(w)
    BY <2>1 DEF WorkerDies, Exit, Returned, doneVars
  <2>2. CASE WorkerStarts(w)
    BY <2>2 DEF WorkerStarts, extVars, doneVars
  <2>3. ASSUME NEW m \in Entries, Receive(w, m) PROVE InTopic(e)'
    <3>1. ackTime > 0 /\ lease[w] = 0
      BY <2>3, FeedAssumption DEF Receive, LeaseIsOfMessage, Holding, Handling
    <3>2. lease' = [lease EXCEPT ![w] = ackTime] /\ msg' = [msg EXCEPT ![w] = m]
            /\ topic' = [topic EXCEPT ![m] = @ - 1] /\ acked' = acked
      BY <2>3 DEF Receive, doneVars
    <3> QED BY <3>1, <3>2
  <2>4. ASSUME NEW m \in Entries, ReceiveRefused(w, m) PROVE InTopic(e)'
    <3>1. lease[w] = 0
      BY <2>4 DEF ReceiveRefused, LeaseIsOfMessage, Holding, Handling
    <3> QED BY <2>4, <3>1 DEF ReceiveRefused, Exit, doneVars
  <2>5. CASE HandleMessage(w)
    BY <2>5 DEF HandleMessage, HandleGoto, HandleSkip, HandlePrepare,
         HandlePrepareFails, HandleStatic, HandleStaticEmpty, HandleStaticFails,
         HandleDynamic, HandleDynamicFails, HandleNotify, HandleNotifyFails,
         extVars
  <2>6. CASE StopSignal(w) \/ StopWait(w)
    BY <2>6 DEF StopSignal, StopWait, loopVars, doneVars
  <2>7. CASE FinishAck(w)
    BY <2>7 DEF FinishAck, NextMessage
  <2>8. CASE FinishNack(w)
    BY <2>8 DEF FinishNack, NextMessage, Returned
  <2> QED BY <1>2, <2>1, <2>2, <2>3, <2>4, <2>5, <2>6, <2>7, <2>8 DEF Worker
<1>3. ASSUME NEW w \in Workers, Extender(w) PROVE InTopic(e)'
  <2>1. \A v \in Workers : lease[v] > 0 => lease'[v] > 0
    BY <1>3, FreqType, ClampedType DEF Extender, ExtendCall, ExtendReturns, ExtendFails
  <2> QED BY <1>3, <2>1 DEF Extender, ExtendCall, ExtendReturns, ExtendFails, loopVars,
                            doneVars
<1>4. CASE Time
  <2>1. topic'[e] = topic[e] + Cardinality(Lapsing(e)) /\ msg' = msg /\ acked' = acked
    BY <1>4 DEF Time, loopVars, doneVars
  <2>2. topic[e] > 0 => topic'[e] > 0
    BY <2>1, LapsingCount
  <2>3. ASSUME NEW w \in Workers, msg[w] = e, lease[w] > 0
        PROVE  topic'[e] > 0 \/ lease'[w] > 0
    <3>1. CASE lease[w] = 1
      <4>1. w \in Lapsing(e)
        BY <2>3, <3>1 DEF Lapsing
      <4> QED BY <2>1, <4>1, LapsingCount
    <3>2. CASE lease[w] # 1
      BY <1>4, <2>3, <3>2 DEF Time, Dec
    <3> QED BY <3>1, <3>2
  <2> QED BY <2>1, <2>2, <2>3
<1>5. CASE UNCHANGED vars
  BY <1>5 DEF vars, loopVars, extVars, doneVars
<1> QED BY <1>1, <1>2, <1>3, <1>4, <1>5 DEF Next

\* SentInv is inductive given TypeInv: only Send, which puts a copy in the
\* topic, makes a goroutine acknowledge.
LEMMA NextSent == TypeInv /\ SentInv /\ [Next]_vars => SentInv'
<1> SUFFICES ASSUME TypeInv, SentInv, [Next]_vars,
                    NEW e \in Entries, Forwardable(e)',
                    feed'[e] = "acked" \/ acking'[e] > 0
             PROVE  InTopic(e)'
  BY DEF SentInv
<1>1. CASE Scheduler
  <2> USE DEF TypeInv, TypeOK, SentInv, confVars, Forwardable
  <2>1. kind' = kind
    BY <1>1 DEF Scheduler, ProxyReceive, ProxyReject, ProxySend, ProxySendFails,
           ProxyAck, FeedRedeliver, FeedRedeliverEarly, SchedulerRestart
  <2>2. ASSUME NEW d \in Entries, ProxySend(d) PROVE InTopic(e)'
    <3>1. CASE d = e
      BY <2>2, <3>1 DEF ProxySend, InTopic
    <3>2. CASE d # e
      BY <2>1, <2>2, <3>2, TopicKeeps DEF ProxySend
    <3> QED BY <3>1, <3>2
  <2>3. ASSUME NEW d \in Entries, ProxyReject(d) PROVE InTopic(e)'
    BY <2>1, <2>3, TopicKeeps DEF ProxyReject
  <2>4. ASSUME NEW d \in Entries, ProxyAck(d) PROVE InTopic(e)'
    BY <2>1, <2>4, TopicKeeps DEF ProxyAck
  <2>5. ASSUME NEW d \in Entries,
               \/ ProxyReceive(d) \/ ProxySendFails(d)
               \/ FeedRedeliver(d) \/ FeedRedeliverEarly(d)
        PROVE  InTopic(e)'
    BY <2>1, <2>5, TopicKeeps
       DEF ProxyReceive, ProxySendFails, FeedRedeliver, FeedRedeliverEarly
  <2>6. CASE SchedulerRestart
    BY <2>1, <2>6, TopicKeeps DEF SchedulerRestart
  <2> QED BY <1>1, <2>2, <2>3, <2>4, <2>5, <2>6 DEF Scheduler
<1>2. CASE ~Scheduler
  <2>1. UNCHANGED <<kind, feed, acking>>
    BY <1>2 DEF Next, vars, confVars, schedVars, Worker, WorkerDies, WorkerStarts,
         Receive, ReceiveRefused, Exit, HandleMessage, HandleGoto, HandleSkip,
         HandlePrepare, HandlePrepareFails, HandleStatic, HandleStaticEmpty,
         HandleStaticFails, HandleDynamic, HandleDynamicFails, HandleNotify,
         HandleNotifyFails, StopSignal, StopWait, FinishAck, FinishNack,
         NextMessage, Extender, ExtendCall, ExtendReturns, ExtendFails, Time
  <2> QED BY <2>1, TopicKeeps DEF SentInv, Forwardable
<1> QED BY <1>1, <1>2

\* Between the feed, the proxy's goroutines, the worker topic and the workers'
\* leases no package to analyse is lost, for any number of entries and workers
\* and through any number of failed sends, restarts and lapsed leases.
THEOREM NoEntryIsLost == Spec => []NothingLost
<1>1. Init => TypeInv /\ SentInv
  BY InitType DEF Init, SentInv
<1>2. TypeInv /\ SentInv /\ [Next]_vars => (TypeInv /\ SentInv)'
  BY NextType, NextSent
<1>3. TypeInv /\ SentInv => NothingLost
  BY DEF SentInv, InTopic, NothingLost
<1> QED BY <1>1, <1>2, <1>3, PTL DEF Spec

-----------------------------------------------------------------------------
(* The extender keeps the lease.                                           *)

\* An extension takes less than the grace period, and Pub/Sub does not shorten
\* the deadline of the subscription.
ExtensionInTime ==
    /\ MaxLatency < GracePeriod
    /\ \A d \in Subscriptions : d <= MaxAckDeadline

\* How much of the lease of w is left, depending on the extender goroutine: at
\* least the grace period at the next tick, and from there on less by the
\* duration of the request.
LeaseLeft(w) ==
    /\ ext[w] = "select" /\ ~tick[w] => lease[w] >= clock[w] + GracePeriod
    /\ ext[w] = "select" /\ tick[w] => lease[w] >= GracePeriod
    /\ ext[w] = "calling" => lease[w] >= GracePeriod - age[w] /\ age[w] <= MaxLatency

\* The goroutine is there while a message is handled; while its ticker runs the
\* next tick is not further away than the frequency, and the lease lasts.
LeaseInv ==
    \A w \in Workers :
        /\ pc[w] \in Handling => ext[w] \in {"select", "calling", "broken"}
        /\ pc[w] = "stop" => ext[w] # "off"
        /\ Ticking(w) => clock[w] <= Freq
        /\ driver = "gcp" => LeaseLeft(w)

\* With the GCP driver an extension restores the whole deadline.
LEMMA ExtensionRestores ==
    ASSUME TypeOK, ExtensionInTime, driver = "gcp"
    PROVE  Clamped(Deadline) \in Nat /\ Clamped(Deadline) >= Freq + GracePeriod
<1>1. Deadline = ackTime /\ ackTime \in Nat /\ ackTime <= MaxAckDeadline
  BY FeedAssumption DEF Deadline, TypeOK, ExtensionInTime
<1> QED BY <1>1, FeedAssumption DEF Clamped, Freq

\* Only the worker itself and its goroutine change what LeaseInv says of it,
\* apart from time.
LEMMA LeaseLocal ==
    ASSUME LeaseInv, TypeInv, NEW w \in Workers,
           UNCHANGED <<driver, ackTime>>,
           \A v \in Workers \ {w} :
                /\ pc'[v] = pc[v] /\ ext'[v] = ext[v] /\ clock'[v] = clock[v]
                /\ tick'[v] = tick[v] /\ lease'[v] = lease[v] /\ age'[v] = age[v],
           /\ pc'[w] \in Handling => ext'[w] \in {"select", "calling", "broken"}
           /\ pc'[w] = "stop" => ext'[w] # "off"
           /\ Ticking(w)' => clock'[w] <= Freq
           /\ driver = "gcp" => LeaseLeft(w)'
    PROVE  LeaseInv'
BY DEF LeaseInv, LeaseLeft, Ticking, Freq, Deadline

\* The steps of a worker preserve LeaseInv.
LEMMA WorkerLease ==
    ASSUME LeaseInv, TypeInv, NEW w \in Workers, Worker(w) PROVE LeaseInv'
<1> USE DEF TypeInv, TypeOK, confVars, extVars, loopVars
<1>1. UNCHANGED <<driver, ackTime>>
  BY DEF Worker, WorkerDies, WorkerStarts, Receive, ReceiveRefused, Exit,
         HandleMessage, HandleGoto, HandleSkip, HandlePrepare, HandlePrepareFails,
         HandleStatic, HandleStaticEmpty, HandleStaticFails, HandleDynamic,
         HandleDynamicFails, HandleNotify, HandleNotifyFails, StopSignal,
         StopWait, FinishAck, FinishNack, NextMessage
<1>2. CASE WorkerDies(w) \/ \E m \in Entries : ReceiveRefused(w, m)
  <2> PICK t : Exit(w, t)
    BY <1>2 DEF WorkerDies, ReceiveRefused
  <2> QED BY <1>1, LeaseLocal DEF Exit, Ticking, LeaseLeft, Handling
<1>3. CASE WorkerStarts(w)
  <2>1. ext[w] = "off"
    BY <1>3 DEF WorkerStarts, NoLateExtension
  <2> QED BY <1>1, <1>3, <2>1, LeaseLocal DEF WorkerStarts, Ticking, LeaseLeft, Handling
<1>4. ASSUME NEW m \in Entries, Receive(w, m) PROVE LeaseInv'
  <2>1. driver = "gcp" => ackTime = Freq + GracePeriod
    BY FeedAssumption DEF Freq, Deadline
  <2>2. Freq \in Int /\ GracePeriod \in Nat /\ ackTime \in Nat
    BY FreqType, FeedAssumption
  <2> QED BY <1>1, <1>4, <2>1, <2>2, LeaseLocal DEF Receive, Ticking, LeaseLeft, Handling
<1>5. CASE HandleMessage(w)
  <2>1. UNCHANGED extVars /\ pc[w] \in Handling
    BY <1>5 DEF HandleMessage, HandleGoto, HandleSkip, HandlePrepare,
         HandlePrepareFails, HandleStatic, HandleStaticEmpty, HandleStaticFails,
         HandleDynamic, HandleDynamicFails, HandleNotify, HandleNotifyFails, Handling
  <2>2. \A v \in Workers \ {w} : pc'[v] = pc[v]
    BY <1>5 DEF HandleMessage, HandleGoto, HandleSkip, HandlePrepare,
         HandlePrepareFails, HandleStatic, HandleStaticEmpty, HandleStaticFails,
         HandleDynamic, HandleDynamicFails, HandleNotify, HandleNotifyFails
  <2> QED BY <1>1, <2>1, <2>2, LeaseLocal DEF LeaseInv, LeaseLeft, Ticking
<1>6. CASE StopSignal(w)
  BY <1>1, <1>6, LeaseLocal DEF StopSignal, Ticking, LeaseLeft, Handling
<1>7. CASE StopWait(w)
  BY <1>1, <1>7, LeaseLocal DEF StopWait, Ticking, LeaseLeft, Handling
<1>8. CASE FinishAck(w) \/ FinishNack(w)
  <2>1. ext[w] = "off"
    BY <1>8 DEF FinishAck, FinishNack, NoLateExtension
  <2> QED BY <1>1, <1>8, <2>1, LeaseLocal
          DEF FinishAck, FinishNack, NextMessage, Ticking, LeaseLeft, Handling
<1> QED BY <1>2, <1>3, <1>4, <1>5, <1>6, <1>7, <1>8 DEF Worker

\* The steps of the goroutine preserve LeaseInv if extensions are in time.
LEMMA ExtenderLease ==
    ASSUME LeaseInv, TypeInv, ExtensionInTime, NEW w \in Workers, Extender(w)
    PROVE  LeaseInv'
<1> USE DEF TypeInv, TypeOK, confVars, loopVars
<1>1. UNCHANGED <<driver, ackTime, pc, clock>>
  BY DEF Extender, ExtendCall, ExtendReturns, ExtendFails
<1>2. /\ ext[w] \in {"select", "calling"} /\ (Ticking(w) => clock[w] <= Freq)
      /\ driver = "gcp" => LeaseLeft(w)
  BY DEF Extender, ExtendCall, ExtendReturns, ExtendFails, LeaseInv
<1>3. GracePeriod \in Nat /\ MaxLatency \in Nat /\ Freq \in Int
  BY FeedAssumption, FreqType
<1>4. CASE ExtendCall(w)
  <2>1. ext[w] = "select" /\ tick[w] /\ ext'[w] = "calling" /\ age'[w] = 0
    BY <1>4 DEF ExtendCall
  <2>2. lease' = lease /\ Ticking(w)
    BY <1>4, <2>1 DEF ExtendCall, Ticking
  <2>3. driver = "gcp" => lease[w] >= GracePeriod
    BY <1>2, <2>1 DEF LeaseLeft
  <2>4. driver = "gcp" => LeaseLeft(w)'
    BY <1>3, <2>1, <2>2, <2>3 DEF LeaseLeft
  <2>5. \A v \in Workers \ {w} :
            /\ pc'[v] = pc[v] /\ ext'[v] = ext[v] /\ clock'[v] = clock[v]
            /\ tick'[v] = tick[v] /\ lease'[v] = lease[v] /\ age'[v] = age[v]
    BY <1>4 DEF ExtendCall
  <2> QED BY <1>1, <1>2, <2>1, <2>2, <2>4, <2>5, LeaseLocal
<1>5. CASE ExtendReturns(w)
  <2>1. driver = "gcp" => /\ lease[w] > 0
                          /\ lease'[w] \in Nat /\ lease'[w] >= Freq + GracePeriod
    BY <1>2, <1>3, <1>5, ExtensionRestores DEF ExtendReturns, LeaseLeft, ExtensionInTime
  <2>2. Ticking(w) /\ clock[w] <= Freq
    BY <1>2 DEF Ticking
  <2>3. driver = "gcp" => LeaseLeft(w)'
    BY <1>1, <1>3, <1>5, <2>1, <2>2 DEF ExtendReturns, LeaseLeft, ClockRuns
  <2>4. \A v \in Workers \ {w} :
            /\ pc'[v] = pc[v] /\ ext'[v] = ext[v] /\ clock'[v] = clock[v]
            /\ tick'[v] = tick[v] /\ lease'[v] = lease[v] /\ age'[v] = age[v]
    BY <1>5 DEF ExtendReturns
  <2>5. ext'[w] = "select"
    BY <1>5 DEF ExtendReturns
  <2> QED BY <1>1, <2>2, <2>3, <2>4, <2>5, LeaseLocal
<1>6. CASE ExtendFails(w)
  BY <1>1, <1>6, LeaseLocal DEF ExtendFails, Ticking, LeaseLeft
<1> QED BY <1>4, <1>5, <1>6 DEF Extender

\* Time preserves LeaseInv: it does not pass while a tick waits to be taken,
\* nor once a request has lasted MaxLatency.
LEMMA TimeLease ==
    ASSUME LeaseInv, TypeInv, ExtensionInTime, Time PROVE LeaseInv'
<1> USE DEF TypeInv, TypeOK, confVars, loopVars, Time
<1>1. GracePeriod \in Nat /\ MaxLatency \in Nat /\ Freq \in Int /\ MaxLatency < GracePeriod
  BY FeedAssumption, FreqType DEF ExtensionInTime
<1> SUFFICES ASSUME NEW w \in Workers
             PROVE  /\ pc'[w] \in Handling => ext'[w] \in {"select", "calling", "broken"}
                    /\ pc'[w] = "stop" => ext'[w] # "off"
                    /\ Ticking(w)' => clock'[w] <= Freq'
                    /\ driver' = "gcp" => LeaseLeft(w)'
  BY DEF LeaseInv
<1>2. UNCHANGED <<pc, ext, driver, ackTime>> /\ Freq' = Freq
  BY DEF Freq, Deadline
<1>3. Ticking(w)' => clock'[w] <= Freq'
  BY <1>1, <1>2 DEF Ticking, LeaseInv, ClockRuns
<1>4. ASSUME driver = "gcp", ext[w] = "select" PROVE LeaseLeft(w)'
  <2>1. ~tick[w] /\ Ticking(w) /\ clock[w] > 0 /\ lease[w] >= clock[w] + GracePeriod
    BY <1>4 DEF Ticking, LeaseInv, LeaseLeft, ClockRuns
  <2>2. lease'[w] = lease[w] - 1
    BY <1>1, <2>1 DEF Dec
  <2>3. CASE clock[w] = 1
    <3>1. lease'[w] >= GracePeriod
      BY <1>1, <2>1, <2>2, <2>3
    <3>2. tick'[w] = (tick[w] \/ (Ticking(w) /\ clock[w] = 1))
      OBVIOUS
    <3>3. tick'[w]
      BY <2>1, <2>3, <3>2
    <3> QED BY <3>1, <3>3, <1>2, <1>4 DEF LeaseLeft
  <2>4. CASE clock[w] # 1
    <3>1. ~tick'[w] /\ clock'[w] = clock[w] - 1
      BY <2>1, <2>4
    <3>2. lease'[w] >= clock'[w] + GracePeriod
      BY <1>1, <2>1, <2>2, <3>1
    <3> QED BY <3>1, <3>2, <1>2, <1>4 DEF LeaseLeft
  <2> QED BY <2>3, <2>4
<1>5. ASSUME driver = "gcp", ext[w] = "calling" PROVE LeaseLeft(w)'
  <2>1. age[w] < MaxLatency /\ age'[w] = age[w] + 1 /\ lease[w] >= GracePeriod - age[w]
    BY <1>5 DEF LeaseInv, LeaseLeft
  <2>2. lease[w] > 0 /\ lease'[w] = lease[w] - 1
    BY <1>1, <2>1 DEF Dec
  <2>3. lease'[w] >= GracePeriod - age'[w] /\ age'[w] <= MaxLatency
    BY <1>1, <2>1, <2>2
  <2> QED BY <1>2, <1>5, <2>3 DEF LeaseLeft
<1>6. driver' = "gcp" => LeaseLeft(w)'
  BY <1>2, <1>4, <1>5 DEF LeaseLeft
<1> QED BY <1>2, <1>3, <1>6 DEF LeaseInv

\* LeaseInv is inductive given TypeInv.
LEMMA NextLease ==
    ASSUME LeaseInv, TypeInv, ExtensionInTime, [Next]_vars PROVE LeaseInv'
<1>1. CASE Scheduler \/ UNCHANGED vars
  <2>1. UNCHANGED <<pc, ext, clock, tick, lease, age, driver, ackTime>>
    BY <1>1 DEF Scheduler, ProxyReceive, ProxyReject, ProxySend, ProxySendFails,
         ProxyAck, FeedRedeliver, FeedRedeliverEarly, SchedulerRestart, vars,
         confVars, loopVars, extVars
  <2> QED BY <2>1 DEF LeaseInv, LeaseLeft, Ticking, Freq, Deadline
<1> QED BY <1>1, WorkerLease, ExtenderLease, TimeLease DEF Next

\* If requests to extend take less than the grace period, a message is not
\* given to a second worker while the first handles it and its extender has not
\* failed: Start's frequency is right, for every deadline of the subscription.
THEOREM LeaseIsHeld == ASSUME ExtensionInTime PROVE Spec => []LeaseHeld
<1>1. Init => TypeInv /\ LeaseInv
  BY InitType DEF Init, LeaseInv, LeaseLeft, Ticking, Handling
<1>2. TypeInv /\ LeaseInv /\ [Next]_vars => (TypeInv /\ LeaseInv)'
  BY NextType, NextLease
<1>3. TypeInv /\ LeaseInv => LeaseHeld
  <2> SUFFICES ASSUME TypeInv, LeaseInv, NEW w \in Workers, driver = "gcp",
                      pc[w] \in Handling \cup {"stop"}, lease[w] = 0
               PROVE  ext[w] \in {"broken", "exiting"}
    BY DEF LeaseHeld
  <2>1. ext[w] \in {"select", "calling", "broken", "exiting"}
    BY DEF LeaseInv, TypeInv, TypeOK, ExtStates
  <2>2. GracePeriod \in Nat /\ MaxLatency \in Nat /\ clock[w] \in Nat /\ age[w] \in Nat
    BY FeedAssumption DEF TypeInv, TypeOK
  <2>3. ext[w] # "select"
    BY <2>2 DEF LeaseInv, LeaseLeft, ExtensionInTime
  <2>4. ext[w] # "calling"
    BY <2>2 DEF LeaseInv, LeaseLeft, ExtensionInTime
  <2> QED BY <2>1, <2>3, <2>4
<1> QED BY <1>1, <1>2, <1>3, PTL DEF Spec

=============================================================================
