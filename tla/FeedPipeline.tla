---------------------------- MODULE FeedPipeline ----------------------------
(***************************************************************************)
(* From the package feed to the analysis workers, over two Pub/Sub topics  *)
(* (dynamic-analysis/cmd/scheduler and dynamic-analysis/cmd/worker).       *)
(*                                                                         *)
(* The scheduler forwards every feed entry it can analyse to the worker    *)
(* topic, one goroutine per entry.  A worker receives a message, starts a  *)
(* MessageExtender that keeps prolonging its lease, analyses the package,  *)
(* stops the extender and acks or nacks.                                   *)
(*                                                                         *)
(* The Pub/Sub service is external: at-least-once delivery.  A message     *)
(* that is neither acked nor extended in time becomes available again; an  *)
(* ack for a lease that is over has no effect.  Copies of a message are    *)
(* alike, so the worker topic counts them.                                 *)
(*                                                                         *)
(* Time is discrete.  Lease and ticker count down; an extension request    *)
(* lasts at most MaxLatency.  Analyses take any time: the code has no      *)
(* timeout.                                                                *)
(***************************************************************************)
EXTENDS Integers, FiniteSets

CONSTANTS
    Entries,         \* feed entries, each a package version
    NoMsg,           \* no message
    Workers,         \* worker processes
    Subscriptions,   \* ack deadlines the subscription may be configured with
    DefaultDeadline, \* deadline used when the driver does not know
    GracePeriod,     \* margin before the deadline at which to extend
    MinAckDeadline,  \* bounds Pub/Sub accepts
    MaxAckDeadline,
    MaxLatency,      \* bound on how long an extension request lasts
    MaxFaults        \* bound on failures and crashes of a behaviour

\* garbled: the body is no JSON.  unsupported: not in supportedPkgManagers.
\* filtered: version excluded.  nameless: no name.  known: can be analysed.
Kinds == {"garbled", "unsupported", "filtered", "nameless", "known"}

ASSUME FeedAssumption ==
    /\ NoMsg \notin Entries
    /\ IsFiniteSet(Workers)
    /\ Subscriptions \subseteq Nat \ {0}
    /\ {DefaultDeadline, MinAckDeadline, MaxAckDeadline} \subseteq Nat \ {0}
    /\ {GracePeriod, MaxLatency, MaxFaults} \subseteq Nat

VARIABLES
    kind,      \* per entry: what the scheduler and the worker find in it
    feed,      \* per entry: "ready", "leased" or "acked" in the feed topic
    sending,   \* per entry: proxy goroutines about to Send
    acking,    \* per entry: proxy goroutines about to Ack
    topic,     \* per message: copies waiting in the worker topic
    driver,    \* the extender's driver: "gcp" or "noop"
    ackTime,   \* ack deadline of the worker subscription
    pc,        \* per worker: next step of messageLoop
    msg,       \* per worker: message being handled
    failed,    \* per worker: did the analysis step so far return an error
    lease,     \* per worker: time left until its message is redelivered
    ext,       \* per worker: state of the extender goroutine
    clock,     \* per worker: time to the next tick of the ticker
    tick,      \* per worker: a tick waits in the ticker's channel
    age,       \* per worker: duration so far of the extension request
    saved,     \* per message: the results that are in the result stores
    acked,     \* messages of which a copy was acked by a worker
    faults     \* failures so far

schedVars == <<feed, sending, acking>>
confVars  == <<kind, driver, ackTime>>
extVars   == <<lease, ext, clock, tick, age>>
loopVars  == <<pc, msg, failed>>
doneVars  == <<saved, acked>>
vars == <<schedVars, topic, confVars, loopVars, extVars, doneVars, faults>>

\* Steps of handleMessage, and of messageLoop around it.
Handling == {"prepare", "static", "dynamic", "notify"}
Holding  == Handling \cup {"stop", "finish"}
Steps    == {"down", "receive"} \cup Holding

\* The goroutine of Start: none, in its select, in ExtendMessageDeadline, in
\* its select after an error, blocked in exited <- err.
ExtStates == {"off", "select", "calling", "broken", "exiting"}

\* What SaveStaticAnalysisData and SaveDynamicAnalysisData have stored.  The
\* static analysis of a package may leave no output: then nothing is stored
\* and no error returned.
Results == {"static", "no_output", "dynamic"}

\* Both analyses of m have been dealt with.
Analysed(r) == "dynamic" \in r /\ (r \cap {"static", "no_output"}) # {}

-----------------------------------------------------------------------------
(* Extender.New: the deadline of the subscription, or the default when the
   driver reports none.                                                    *)
Deadline == IF driver = "gcp" THEN ackTime ELSE DefaultDeadline

\* The deadline gcpDriver.ExtendMessageDeadline asks for.
Clamped(d) ==
    CASE d < MinAckDeadline -> MinAckDeadline
      [] d > MaxAckDeadline -> MaxAckDeadline
      [] OTHER -> d

\* Mutant: the ticker fires at the deadline, without the grace period.
FreqNoGrace == Deadline

\* freq in Start, where it is positive.
Freq == Deadline - GracePeriod

-----------------------------------------------------------------------------
Init ==
    /\ kind \in [Entries -> Kinds]
    /\ feed = [e \in Entries |-> "ready"]
    /\ sending = [e \in Entries |-> 0]
    /\ acking = [e \in Entries |-> 0]
    /\ topic = [m \in Entries |-> 0]
    /\ driver \in {"gcp", "noop"}
    /\ ackTime \in Subscriptions
    /\ pc = [w \in Workers |-> "receive"]
    /\ msg = [w \in Workers |-> NoMsg]
    /\ failed = [w \in Workers |-> FALSE]
    /\ lease = [w \in Workers |-> 0]
    /\ ext = [w \in Workers |-> "off"]
    /\ clock = [w \in Workers |-> 0]
    /\ tick = [w \in Workers |-> FALSE]
    /\ age = [w \in Workers |-> 0]
    /\ saved = [m \in Entries |-> {}]
    /\ acked = {}
    /\ faults = 0

Fault == faults < MaxFaults /\ faults' = faults + 1

-----------------------------------------------------------------------------
(* The scheduler: PubSubProxy.Listen with the preprocess function of
   listenLoop.                                                             *)

\* preprocess: valid JSON, a supported package type, a version not excluded.
Forwardable(e) == kind[e] \notin {"garbled", "unsupported", "filtered"}

\* Receive, and preprocess accepts: its goroutine goes on to Send.
ProxyReceive(e) ==
    /\ feed[e] = "ready"
    /\ Forwardable(e)
    /\ feed' = [feed EXCEPT ![e] = "leased"]
    /\ sending' = [sending EXCEPT ![e] = @ + 1]
    /\ UNCHANGED <<acking, topic, confVars, loopVars, extVars, doneVars, faults>>

\* preprocess fails: ack, so that the entry is not redelivered.
ProxyReject(e) ==
    /\ feed[e] = "ready"
    /\ ~Forwardable(e)
    /\ feed' = [feed EXCEPT ![e] = "acked"]
    /\ UNCHANGED <<sending, acking, topic, confVars, loopVars, extVars,
                   doneVars, faults>>

ProxySend(e) ==
    /\ sending[e] > 0
    /\ sending' = [sending EXCEPT ![e] = @ - 1]
    /\ acking' = [acking EXCEPT ![e] = @ + 1]
    /\ topic' = [topic EXCEPT ![e] = @ + 1]
    /\ UNCHANGED <<feed, confVars, loopVars, extVars, doneVars, faults>>

\* Mutant: a failed Send is acked like a failed preprocess.
ProxySendFailsAcks(e) ==
    /\ sending[e] > 0
    /\ Fault
    /\ sending' = [sending EXCEPT ![e] = @ - 1]
    /\ feed' = [feed EXCEPT ![e] = "acked"]
    /\ UNCHANGED <<acking, topic, confVars, loopVars, extVars, doneVars>>

\* Send fails: the goroutine returns and neither acks nor nacks.
ProxySendFails(e) ==
    /\ sending[e] > 0
    /\ Fault
    /\ sending' = [sending EXCEPT ![e] = @ - 1]
    /\ UNCHANGED <<feed, acking, topic, confVars, loopVars, extVars, doneVars>>

ProxyAck(e) ==
    /\ acking[e] > 0
    /\ acking' = [acking EXCEPT ![e] = @ - 1]
    /\ feed' = [feed EXCEPT ![e] = IF @ = "leased" THEN "acked" ELSE @]
    /\ UNCHANGED <<sending, topic, confVars, loopVars, extVars, doneVars, faults>>

\* The feed's lease of an entry that no goroutine handles any more runs out.
FeedRedeliver(e) ==
    /\ feed[e] = "leased"
    /\ sending[e] = 0 /\ acking[e] = 0
    /\ feed' = [feed EXCEPT ![e] = "ready"]
    /\ UNCHANGED <<sending, acking, topic, confVars, loopVars, extVars,
                   doneVars, faults>>

\* It runs out although a goroutine still handles the entry: the scheduler
\* does not extend leases.
FeedRedeliverEarly(e) ==
    /\ feed[e] = "leased"
    /\ sending[e] + acking[e] > 0
    /\ Fault
    /\ feed' = [feed EXCEPT ![e] = "ready"]
    /\ UNCHANGED <<sending, acking, topic, confVars, loopVars, extVars, doneVars>>

\* The scheduler dies, or Receive fails and main returns; it is started again.
SchedulerRestart ==
    /\ Fault
    /\ sending' = [e \in Entries |-> 0]
    /\ acking' = [e \in Entries |-> 0]
    /\ UNCHANGED <<feed, topic, confVars, loopVars, extVars, doneVars>>

Scheduler ==
    \/ \E e \in Entries :
          \/ ProxyReceive(e) \/ ProxyReject(e)
          \/ ProxySend(e) \/ ProxySendFails(e) \/ ProxyAck(e)
          \/ FeedRedeliver(e) \/ FeedRedeliverEarly(e)
    \/ SchedulerRestart

-----------------------------------------------------------------------------
(* The worker: messageLoop.                                                *)

\* Receive fails (it always will) or the process dies: main returns and the
\* message, if any, is redelivered when its lease runs out.
Exit(w, t) ==
    /\ pc' = [pc EXCEPT ![w] = "down"]
    /\ msg' = [msg EXCEPT ![w] = NoMsg]
    /\ failed' = [failed EXCEPT ![w] = FALSE]
    /\ topic' = t
    /\ lease' = [lease EXCEPT ![w] = 0]
    /\ ext' = [ext EXCEPT ![w] = "off"]
    /\ clock' = [clock EXCEPT ![w] = 0]
    /\ tick' = [tick EXCEPT ![w] = FALSE]
    /\ age' = [age EXCEPT ![w] = 0]
    /\ UNCHANGED <<schedVars, confVars, doneVars>>

\* The topic once the copy w holds is available again: at once if w still had
\* the lease, otherwise it already is.
Returned(w) ==
    IF lease[w] > 0 THEN [topic EXCEPT ![msg[w]] = @ + 1] ELSE topic

WorkerDies(w) ==
    /\ pc[w] # "down"
    /\ Fault
    /\ Exit(w, Returned(w))

\* The cluster starts the process again: OpenSubscription, Extender.New.
WorkerStarts(w) ==
    /\ pc[w] = "down"
    /\ pc' = [pc EXCEPT ![w] = "receive"]
    /\ UNCHANGED <<schedVars, topic, confVars, msg, failed, extVars, doneVars,
                   faults>>

\* Receive, then Start with a positive freq: the goroutine runs.
Receive(w, m) ==
    /\ pc[w] = "receive"
    /\ topic[m] > 0
    /\ Freq > 0
    /\ topic' = [topic EXCEPT ![m] = @ - 1]
    /\ pc' = [pc EXCEPT ![w] = "prepare"]
    /\ msg' = [msg EXCEPT ![w] = m]
    /\ failed' = [failed EXCEPT ![w] = FALSE]
    /\ lease' = [lease EXCEPT ![w] = ackTime]
    /\ ext' = [ext EXCEPT ![w] = "select"]
    /\ clock' = [clock EXCEPT ![w] = Freq]
    /\ UNCHANGED <<schedVars, confVars, tick, age, doneVars, faults>>

\* Start with freq < 0 returns ErrInvalidGracePeriod: nack and leave the loop.
\* With freq = 0 time.NewTicker panics: the process ends without a nack.
ReceiveRefused(w, m) ==
    /\ pc[w] = "receive"
    /\ topic[m] > 0
    /\ Freq <= 0
    /\ Exit(w, topic)
    /\ UNCHANGED faults

-----------------------------------------------------------------------------
(* handleMessage.                                                          *)

\* An empty name: nil is returned and the message acked without analysis.
\* (An empty or unsupported ecosystem is answered in the same way.)
Analysable(m) == kind[m] = "known"

HandleGoto(w, step, err) ==
    /\ pc' = [pc EXCEPT ![w] = step]
    /\ failed' = [failed EXCEPT ![w] = err]
    /\ UNCHANGED <<schedVars, topic, confVars, msg, extVars, acked>>

HandleSkip(w) ==
    /\ pc[w] = "prepare"
    /\ ~Analysable(msg[w])
    /\ HandleGoto(w, "stop", FALSE)
    /\ UNCHANGED <<saved, faults>>

HandlePrepare(w) ==
    /\ pc[w] = "prepare"
    /\ Analysable(msg[w])
    /\ HandleGoto(w, "static", FALSE)
    /\ UNCHANGED <<saved, faults>>

\* copyPackageToLocalFile or ResolvePkg fails.
HandlePrepareFails(w) ==
    /\ pc[w] = "prepare"
    /\ Analysable(msg[w])
    /\ Fault
    /\ HandleGoto(w, "stop", TRUE)
    /\ UNCHANGED saved

\* RunStaticAnalysis, SaveStaticAnalysisData; the dynamic analysis follows
\* whatever the outcome.
HandleStatic(w) ==
    /\ pc[w] = "static"
    /\ saved' = [saved EXCEPT ![msg[w]] = @ \cup {"static"}]
    /\ HandleGoto(w, "dynamic", FALSE)
    /\ UNCHANGED faults

\* The sandboxed analyser failed: its results file is empty, which is only
\* logged.
HandleStaticEmpty(w) ==
    /\ pc[w] = "static"
    /\ Fault
    /\ saved' = [saved EXCEPT ![msg[w]] = @ \cup {"no_output"}]
    /\ HandleGoto(w, "dynamic", FALSE)

HandleStaticFails(w) ==
    /\ pc[w] = "static"
    /\ Fault
    /\ HandleGoto(w, "dynamic", TRUE)
    /\ UNCHANGED saved

\* Mutant: the error of the static analysis is overwritten, not joined.
HandleDynamicForgets(w) ==
    /\ pc[w] = "dynamic"
    /\ saved' = [saved EXCEPT ![msg[w]] = @ \cup {"dynamic"}]
    /\ HandleGoto(w, "notify", FALSE)
    /\ UNCHANGED faults

\* RunDynamicAnalysis, SaveDynamicAnalysisData, then the joined error of both.
HandleDynamic(w) ==
    /\ pc[w] = "dynamic"
    /\ saved' = [saved EXCEPT ![msg[w]] = @ \cup {"dynamic"}]
    /\ HandleGoto(w, IF failed[w] THEN "stop" ELSE "notify", failed[w])
    /\ UNCHANGED faults

HandleDynamicFails(w) ==
    /\ pc[w] = "dynamic"
    /\ Fault
    /\ HandleGoto(w, "stop", TRUE)
    /\ UNCHANGED saved

HandleNotify(w) ==
    /\ pc[w] = "notify"
    /\ HandleGoto(w, "stop", FALSE)
    /\ UNCHANGED <<saved, faults>>

HandleNotifyFails(w) ==
    /\ pc[w] = "notify"
    /\ Fault
    /\ HandleGoto(w, "stop", TRUE)
    /\ UNCHANGED saved

HandleMessage(w) ==
    \/ HandleSkip(w) \/ HandlePrepare(w) \/ HandlePrepareFails(w)
    \/ HandleStatic(w) \/ HandleStaticEmpty(w) \/ HandleStaticFails(w)
    \/ HandleDynamic(w) \/ HandleDynamicFails(w)
    \/ HandleNotify(w) \/ HandleNotifyFails(w)

-----------------------------------------------------------------------------
(* The extender goroutine, and Stop.  done and exited are unbuffered: a send
   and the receive that takes it are one step.                             *)

\* case <-ticker.C: ExtendMessageDeadline is called.
ExtendCall(w) ==
    /\ ext[w] = "select"
    /\ tick[w]
    /\ tick' = [tick EXCEPT ![w] = FALSE]
    /\ ext' = [ext EXCEPT ![w] = "calling"]
    /\ age' = [age EXCEPT ![w] = 0]
    /\ UNCHANGED <<schedVars, topic, confVars, loopVars, lease, clock,
                   doneVars, faults>>

\* It succeeds.  noopDriver changes nothing; Pub/Sub prolongs the lease if it
\* is not over.
ExtendReturns(w) ==
    /\ ext[w] = "calling"
    /\ ext' = [ext EXCEPT ![w] = "select"]
    /\ age' = [age EXCEPT ![w] = 0]
    /\ lease' = [lease EXCEPT ![w] =
                    IF driver = "gcp" /\ @ > 0 THEN Clamped(Deadline) ELSE @]
    /\ UNCHANGED <<schedVars, topic, confVars, loopVars, clock, tick,
                   doneVars, faults>>

\* It fails: ticker.Stop(), and the goroutine waits for done only.
ExtendFails(w) ==
    /\ ext[w] = "calling"
    /\ driver = "gcp"
    /\ Fault
    /\ ext' = [ext EXCEPT ![w] = "broken"]
    /\ age' = [age EXCEPT ![w] = 0]
    /\ tick' = [tick EXCEPT ![w] = FALSE]
    /\ UNCHANGED <<schedVars, topic, confVars, loopVars, lease, clock, doneVars>>

\* Mutant: Stop does not wait for the goroutine to receive from done.
StopSignalAsync(w) ==
    /\ pc[w] = "stop"
    /\ ext[w] # "exiting"
    /\ pc' = [pc EXCEPT ![w] = "finish"]
    /\ UNCHANGED <<schedVars, topic, confVars, msg, failed, extVars,
                   doneVars, faults>>

\* Stop: done <- true meets the goroutine's select; ticker.Stop().
StopSignal(w) ==
    /\ pc[w] = "stop"
    /\ ext[w] \in {"select", "broken"}
    /\ ext' = [ext EXCEPT ![w] = "exiting"]
    /\ tick' = [tick EXCEPT ![w] = FALSE]
    /\ UNCHANGED <<schedVars, topic, confVars, loopVars, lease, clock, age,
                   doneVars, faults>>

\* err := <-exited: the goroutine is gone before the message is answered.
StopWait(w) ==
    /\ pc[w] = "stop"
    /\ ext[w] = "exiting"
    /\ ext' = [ext EXCEPT ![w] = "off"]
    /\ pc' = [pc EXCEPT ![w] = "finish"]
    /\ UNCHANGED <<schedVars, topic, confVars, msg, failed, lease, clock, tick,
                   age, doneVars, faults>>

\* Back to Receive, with the copy gone from w.
NextMessage(w) ==
    /\ pc' = [pc EXCEPT ![w] = "receive"]
    /\ msg' = [msg EXCEPT ![w] = NoMsg]
    /\ failed' = [failed EXCEPT ![w] = FALSE]
    /\ lease' = [lease EXCEPT ![w] = 0]
    /\ clock' = [clock EXCEPT ![w] = 0]
    /\ UNCHANGED <<schedVars, confVars, ext, tick, age, saved, faults>>

\* handleMessage returned nil: Ack.  It has no effect once the lease is over.
FinishAck(w) ==
    /\ pc[w] = "finish"
    /\ ~failed[w]
    /\ acked' = IF lease[w] > 0 THEN acked \cup {msg[w]} ELSE acked
    /\ NextMessage(w)
    /\ UNCHANGED topic

\* Mutant: the message is dropped.
FinishNackDrops(w) ==
    /\ pc[w] = "finish"
    /\ failed[w]
    /\ NextMessage(w)
    /\ UNCHANGED <<topic, acked>>

\* handleMessage returned an error: Nack, or nothing if the service has no
\* nack; the message is redelivered.
FinishNack(w) ==
    /\ pc[w] = "finish"
    /\ failed[w]
    /\ topic' = Returned(w)
    /\ NextMessage(w)
    /\ UNCHANGED acked

Extender(w) == ExtendCall(w) \/ ExtendReturns(w) \/ ExtendFails(w)

Worker(w) ==
    \/ WorkerDies(w) \/ WorkerStarts(w)
    \/ \E m \in Entries : Receive(w, m) \/ ReceiveRefused(w, m)
    \/ HandleMessage(w)
    \/ StopSignal(w) \/ StopWait(w)
    \/ FinishAck(w) \/ FinishNack(w)

-----------------------------------------------------------------------------
(* Time.  The goroutine takes a tick without delay, a request is over after
   MaxLatency, and stopping the extender and answering the message take no
   time of their own.  A lease that reaches 0 puts the copy back.          *)

Dec(n) == IF n > 0 THEN n - 1 ELSE 0

\* Copies of m whose lease ends now.
Lapsing(m) == {w \in Workers : msg[w] = m /\ lease[w] = 1}

\* The ticker runs until ticker.Stop.
Ticking(w) == ext[w] \in {"select", "calling"}

\* Stop without a request to wait for, or Ack or Nack.
Answering(w) == pc[w] = "finish" \/ (pc[w] = "stop" /\ ext[w] # "calling")

Time ==
    /\ \E w \in Workers : lease[w] > 0 \/ Ticking(w)
    /\ \A w \in Workers : ~(ext[w] = "select" /\ tick[w])
    /\ \A w \in Workers : ext[w] = "calling" => age[w] < MaxLatency
    /\ \A w \in Workers : ~Answering(w)
    /\ lease' = [w \in Workers |-> Dec(lease[w])]
    /\ topic' = [m \in Entries |-> topic[m] + Cardinality(Lapsing(m))]
    /\ clock' = [w \in Workers |->
                    IF ~Ticking(w) THEN clock[w]
                    ELSE IF clock[w] = 1 THEN Freq ELSE clock[w] - 1]
    /\ tick' = [w \in Workers |-> tick[w] \/ (Ticking(w) /\ clock[w] = 1)]
    /\ age' = [w \in Workers |->
                    IF ext[w] = "calling" THEN age[w] + 1 ELSE age[w]]
    /\ UNCHANGED <<schedVars, confVars, loopVars, ext, doneVars, faults>>

Next ==
    \/ Scheduler
    \/ \E w \in Workers : Worker(w) \/ Extender(w)
    \/ Time

Spec == Init /\ [][Next]_vars

\* Goroutines and processes run, requests to the services return, and every
\* analysis ends.  Go's select does not always prefer the ticker to done, and
\* Pub/Sub does not withhold one message for ever.
Fairness ==
    /\ \A e \in Entries :
          /\ WF_vars(ProxyReceive(e)) /\ WF_vars(ProxySend(e))
          /\ WF_vars(ProxyAck(e)) /\ WF_vars(FeedRedeliver(e))
    /\ \A w \in Workers :
          /\ WF_vars(WorkerStarts(w)) /\ WF_vars(HandleMessage(w))
          /\ SF_vars(StopSignal(w)) /\ WF_vars(StopWait(w))
          /\ WF_vars(FinishAck(w)) /\ WF_vars(FinishNack(w))
          /\ WF_vars(Extender(w))
    /\ \A m \in Entries : SF_vars(\E w \in Workers : Receive(w, m))

FairSpec == Spec /\ Fairness

-----------------------------------------------------------------------------
(* Properties.                                                             *)

\* The types of the state of scheduler, extender and messageLoop.
TypeOK ==
    /\ kind \in [Entries -> Kinds]
    /\ feed \in [Entries -> {"ready", "leased", "acked"}]
    /\ sending \in [Entries -> Nat]
    /\ acking \in [Entries -> Nat]
    /\ topic \in [Entries -> Nat]
    /\ driver \in {"gcp", "noop"}
    /\ ackTime \in Subscriptions
    /\ pc \in [Workers -> Steps]
    /\ msg \in [Workers -> Entries \cup {NoMsg}]
    /\ failed \in [Workers -> BOOLEAN]
    /\ lease \in [Workers -> Nat]
    /\ ext \in [Workers -> ExtStates]
    /\ clock \in [Workers -> Nat]
    /\ tick \in [Workers -> BOOLEAN]
    /\ age \in [Workers -> Nat]
    /\ saved \in [Entries -> SUBSET Results]
    /\ acked \subseteq Entries
    /\ faults \in 0 .. MaxFaults

\* A package is acknowledged at the worker topic only when its dynamic results
\* are in the store, and its static ones unless that analysis had no output
\* (messageLoop acks only after handleMessage returned nil), whatever failed
\* before and in whatever order two workers held it.
AckedIsSaved == \A m \in acked : Analysable(m) => Analysed(saved[m])

\* No feed entry is lost between the feed, the proxy's goroutines, the worker
\* topic and the workers' leases: until a worker has acknowledged it, an entry
\* with a package to analyse is still somewhere it will be delivered from.
NothingLost ==
    \A e \in Entries : Forwardable(e) =>
        \/ feed[e] # "acked"
        \/ topic[e] > 0
        \/ \E w \in Workers : msg[w] = e /\ lease[w] > 0
        \/ e \in acked

\* While a worker handles a message, Pub/Sub does not give it to another one:
\* the extender renews the lease in time, unless a request of its failed
\* (Extender.Start's freq leaves GracePeriod for the request).
LeaseHeld ==
    \A w \in Workers :
        driver = "gcp" /\ pc[w] \in Handling \cup {"stop"} /\ lease[w] = 0
            => ext[w] \in {"broken", "exiting"}

\* No request to extend the lease is in flight for a message that has been
\* answered: Stop returns only when the goroutine has exited.
NoLateExtension ==
    \A w \in Workers : pc[w] \in {"down", "receive", "finish"} => ext[w] = "off"

\* Every package that is published is analysed both ways, after finitely many
\* failures and crashes; and where leases are extended it is acknowledged,
\* that is, not analysed for ever.
EventuallyAnalysed ==
    \A m \in Entries :
        Analysable(m) /\ Freq > 0
            ~> Analysed(saved[m]) /\ (driver = "gcp" => m \in acked)

=============================================================================
