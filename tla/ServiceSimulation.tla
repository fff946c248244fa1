-------------------------- MODULE ServiceSimulation --------------------------
(***************************************************************************)
(* The service simulation as a sample meets it: the artifacts are injected *)
(* before the sample starts ("inject ... before sample execution",         *)
(* entrypoint.py), and once it runs its HTTP requests are answered by the  *)
(* simulation.                                                             *)
(***************************************************************************)
EXTENDS ArtifactInjection, HTTPSimulation

CONSTANT MaxFaults   \* bound on the failures of both together

vars == <<artifactVars, httpVars>>

Init == ArtifactInit /\ HTTPInit

(* The sample runs when entrypoint.py has exited; what it sent before the
   volume was used again is over. *)
SampleRuns == entry.pc = "done"

Next ==
    /\ \/ ArtifactNext /\ handler = [q \in Calls |-> Idle] /\ UNCHANGED httpVars
       \/ (StartUp \/ ServerRestarts) /\ UNCHANGED artifactVars
       \/ \E q \in Calls : Handle(q) /\ UNCHANGED artifactVars
       \/ \E q \in Calls, s \in Shapes : SampleRuns /\ Receive(q, s) /\ UNCHANGED artifactVars
    /\ failures' + losses' <= MaxFaults

Spec == Init /\ [][Next]_vars

(* The containers' processes and threads run, and inetsim comes up. *)
FairSpec ==
    /\ Spec
    /\ WF_vars(InjectStep /\ UNCHANGED httpVars)
    /\ WF_vars(StartUp /\ UNCHANGED artifactVars)
    /\ \A q \in Calls : WF_vars(Handle(q) /\ UNCHANGED artifactVars)

-----------------------------------------------------------------------------
\* Artifacts, threads and files have their types; the metadata and the log name
\* requests that were received.
TypeOK ==
    /\ entry.failed \subseteq {"dns", "http", "linux"}
    /\ entry.identity \in Identities \cup {None}
    /\ DOMAIN volume.linux = Paths
    /\ boots \in 1 .. MaxFailures + 1
    /\ failures \in 0 .. MaxFailures
    /\ server \in {"config", "waiting", "serving"}
    /\ inetsim \in BOOLEAN
    /\ now \in 0 .. Cardinality(Calls)
    /\ \A q \in Calls :
        /\ handler[q].pc = "answered" <=> handler[q].answer # "none"
        /\ handler[q].pc # "idle" => handler[q].shape \in Shapes
    /\ LoggedIds \cup unlogged \subseteq {handler[q].id : q \in Calls}
    /\ losses \in 0 .. MaxLosses

\* The sample starts, although extensions fail and the container is restarted,
\* and every request it makes of the simulation is answered, unless the server
\* went down under it.
SampleServed ==
    /\ <>[]SampleRuns
    /\ \A q \in Calls : handler[q].pc = "received" ~> handler[q].pc \in {"answered", "lost"}

=============================================================================
