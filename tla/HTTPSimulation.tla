---------------------------- MODULE HTTPSimulation ----------------------------
(***************************************************************************)
(* The HTTP simulation (service-simulation-module/service-simulation):     *)
(* a threaded Flask server that analyses and classifies every request and  *)
(* answers with simulated content.  Requests for executables are logged,   *)
(* and answered with a fake or a honeypot that is also kept, with its      *)
(* metadata, in the executables directory.                                 *)
(***************************************************************************)
EXTENDS Integers, Sequences, FiniteSets

CONSTANTS
    Calls,       \* HTTP requests
    Shapes,      \* what a request may be: see Shape
    NoShape,
    MaxLosses    \* bound on failed writes and restarts

(* The features of a request that the analyzer and the classifier look at. *)
Patterns == {"traversal", "script", "select", "cmd", "exec", "eval"}
PathFeatures == {"executable", "exfiltration", "auth", "api", "static", "download", "dot"}
Shape == [route : {"catch_all", "simulate", "analyze"}, data : BOOLEAN, url : STRING,
          path : SUBSET PathFeatures, method : {"GET", "POST"}, multipart : BOOLEAN,
          octets : BOOLEAN, patterns : SUBSET Patterns]

ASSUME HTTPAssumption ==
    /\ IsFiniteSet(Calls)
    /\ Shapes \subseteq Shape
    /\ MaxLosses \in Nat

VARIABLES
    server,    \* main.py: "config", "waiting", "serving"
    inetsim,   \* the inetsim service accepts connections
    now,       \* the clock, in microseconds
    handler,   \* the thread of each request
    dir,       \* the executables directory: [log, content, metadata]
    unlogged,  \* history: ids whose log entry could not be written
    losses     \* failed writes and restarts so far

httpVars == <<server, inetsim, now, handler, dir, unlogged, losses>>

Idle == [pc |-> "idle", shape |-> NoShape, id |-> << >>, answer |-> "none", saved |-> TRUE]

HTTPInit ==
    /\ server = "config"
    /\ inetsim = FALSE
    /\ now = 0
    /\ handler = [q \in Calls |-> Idle]
    /\ dir = [log |-> << >>, content |-> << >>, metadata |-> << >>]
    /\ unlogged = {}
    /\ losses = 0

-----------------------------------------------------------------------------
(* HTTPRequestAnalyzer *)

(* The pattern for eval raises no flag of its own. *)
has_command_injection(s) == s.patterns \cap {"cmd", "exec"} # {}

risk_level(s) ==
    IF Cardinality(s.patterns) >= 3 \/ has_command_injection(s) THEN "high"
    ELSE IF s.patterns # {} THEN "medium" ELSE "low"

(* RequestClassifier.classify: the first category that matches. *)
Categories ==
    <<"executable_download", "malicious", "data_exfiltration", "authentication",
      "upload", "api_call", "static_content", "file_download", "unknown">>

_is_download_request(s) == "download" \in s.path \/ s.octets \/ s.path \cap {"dot", "static"} = {"dot"}

Matches(s) ==
    [executable_download |-> "executable" \in s.path,
     malicious |-> risk_level(s) = "high",
     data_exfiltration |-> "exfiltration" \in s.path,
     authentication |-> "auth" \in s.path,
     upload |-> s.method = "POST" /\ s.multipart,
     api_call |-> "api" \in s.path,
     static_content |-> "static" \in s.path,
     file_download |-> s.method = "GET" /\ _is_download_request(s),
     unknown |-> TRUE]

classify(s) ==
    LET hits == {i \in DOMAIN Categories : Matches(s)[Categories[i]]}
    IN  Categories[CHOOSE i \in hits : \A j \in hits : i <= j]

(* ResponseHandler.generate_response, by the action that classify recommends.
   Exfiltration is only monitored: it gets the default page. *)
Answer ==
    [malicious |-> "blocked", data_exfiltration |-> "default", authentication |-> "auth",
     upload |-> "accepted", api_call |-> "json", static_content |-> "placeholder",
     file_download |-> "file", unknown |-> "default"]

(* SafeExecutableHandler._determine_response_strategy *)
strategy(s) ==
    CASE risk_level(s) = "low" -> "sandbox_fake"
      [] risk_level(s) = "high" /\ has_command_injection(s) -> "blocked"
      [] OTHER -> "honeypot"

-----------------------------------------------------------------------------
(* main.py *)

generate_config ==
    /\ server = "config"
    /\ server' = "waiting"
    /\ UNCHANGED <<inetsim, now, handler, dir, unlogged, losses>>

(* External: inetsim has come up. *)
InetsimUp ==
    /\ ~inetsim
    /\ inetsim' = TRUE
    /\ UNCHANGED <<server, now, handler, dir, unlogged, losses>>

StartFlask ==
    /\ server = "waiting" /\ inetsim
    /\ server' = "serving"
    /\ UNCHANGED <<inetsim, now, handler, dir, unlogged, losses>>

-----------------------------------------------------------------------------
(* A request, each in a thread of its own. *)

Step(q, pc) == handler' = [handler EXCEPT ![q].pc = pc]

Reply(q, answer) == handler' = [handler EXCEPT ![q].pc = "answered", ![q].answer = answer]

(* The request id is a hash of the time, the url and the client, whose address
   is the same for all requests of a sample.  Requests may fall into one
   microsecond. *)
Receive(q, s) ==
    /\ server = "serving" /\ handler[q].pc = "idle"
    /\ now' \in {now, now + 1}
    /\ handler' = [handler EXCEPT ![q] =
            [Idle EXCEPT !.pc = "received", !.shape = s, !.id = <<now', s.url>>]]
    /\ UNCHANGED <<server, inetsim, dir, unlogged, losses>>

(* An executable is left to SafeExecutableHandler. *)
generate_response(q) ==
    LET c == classify(handler[q].shape)
    IN  IF c = "executable_download" THEN Step(q, "log") ELSE Reply(q, Answer[c])

Routed(q, route) == handler[q].pc = "received" /\ handler[q].shape.route = route

(* /analyze reports and /simulate answers; both refuse a body that is not JSON. *)
analyze_request(q) ==
    /\ Routed(q, "analyze")
    /\ Reply(q, IF handler[q].shape.data THEN "analysis" ELSE "bad_request")
    /\ UNCHANGED <<server, inetsim, now, dir, unlogged, losses>>

simulate_request(q) ==
    /\ Routed(q, "simulate")
    /\ IF handler[q].shape.data THEN generate_response(q) ELSE Reply(q, "bad_request")
    /\ UNCHANGED <<server, inetsim, now, dir, unlogged, losses>>

catch_all(q) ==
    /\ Routed(q, "catch_all")
    /\ generate_response(q)
    /\ UNCHANGED <<server, inetsim, now, dir, unlogged, losses>>

AfterLog(q) == IF strategy(handler[q].shape) = "blocked" THEN Reply(q, "blocked") ELSE Step(q, "save")

\* Mutant: only what is suspicious is logged.
log_suspicious_request(q) ==
    /\ handler[q].pc = "log"
    /\ dir' = IF risk_level(handler[q].shape) = "low" THEN dir
              ELSE [dir EXCEPT !.log = Append(@, handler[q].id)]
    /\ AfterLog(q)
    /\ UNCHANGED <<server, inetsim, now, unlogged, losses>>

(* handle_executable_request: the request is logged ... *)
_log_executable_request(q) ==
    /\ handler[q].pc = "log"
    /\ dir' = [dir EXCEPT !.log = Append(@, handler[q].id)]
    /\ AfterLog(q)
    /\ UNCHANGED <<server, inetsim, now, unlogged, losses>>

Lose == losses < MaxLosses /\ losses' = losses + 1

(* ... or cannot be, which is only printed. *)
LogFails(q) ==
    /\ handler[q].pc = "log"
    /\ Lose
    /\ unlogged' = unlogged \cup {handler[q].id}
    /\ AfterLog(q)
    /\ UNCHANGED <<server, inetsim, now, dir>>

Put(f, key, value) == [k \in DOMAIN f \cup {key} |-> IF k = key THEN value ELSE f[k]]

(* The file the client is given: a fake or a honeypot, which names the request
   and holds no code. *)
executable_content(q) == strategy(handler[q].shape)

(* _save_to_sandbox: the content ... *)
SaveContent(q) ==
    /\ handler[q].pc = "save"
    /\ dir' = [dir EXCEPT !.content = Put(@, handler[q].id, executable_content(q))]
    /\ Step(q, "metadata")
    /\ UNCHANGED <<server, inetsim, now, unlogged, losses>>

(* ... and then its metadata; the answer is what was saved. *)
SaveMetadata(q) ==
    LET kind == executable_content(q)
    IN  /\ handler[q].pc = "metadata"
        /\ dir' = [dir EXCEPT !.metadata = Put(@, handler[q].id, kind)]
        /\ Reply(q, kind)
        /\ UNCHANGED <<server, inetsim, now, unlogged, losses>>

(* Either write fails: the client is served all the same. *)
SaveFails(q) ==
    /\ handler[q].pc \in {"save", "metadata"}
    /\ Lose
    /\ handler' = [handler EXCEPT ![q].pc = "answered", ![q].saved = FALSE,
                                  ![q].answer = executable_content(q)]
    /\ UNCHANGED <<server, inetsim, now, dir, unlogged>>

(* The process is restarted; its requests are lost, the directory stays. *)
ServerRestarts ==
    /\ server = "serving"
    /\ Lose
    /\ server' = "config"
    /\ handler' = [q \in Calls |->
            IF handler[q].pc \in {"idle", "answered"} THEN handler[q]
            ELSE [handler[q] EXCEPT !.pc = "lost"]]
    /\ UNCHANGED <<inetsim, now, dir, unlogged>>

Handle(q) ==
    \/ analyze_request(q) \/ simulate_request(q) \/ catch_all(q)
    \/ _log_executable_request(q) \/ LogFails(q)
    \/ SaveContent(q) \/ SaveMetadata(q) \/ SaveFails(q)

StartUp == generate_config \/ InetsimUp \/ StartFlask

HTTPNext ==
    \/ StartUp \/ ServerRestarts
    \/ \E q \in Calls : Handle(q) \/ \E s \in Shapes : Receive(q, s)

-----------------------------------------------------------------------------
(* Properties. *)

Alone(q) == \A r \in Calls \ {q} : handler[r].id # handler[q].id

LoggedIds == {dir.log[i] : i \in DOMAIN dir.log}

\* SafeExecutableHandler, with requests in any order and writes and the process
\* failing anywhere: whatever is in the executables directory was logged first,
\* metadata never comes without its content, a request that is blocked leaves no
\* file, and a client was served exactly what is kept under the id it was given
\* (unless that write failed, or two requests share an id: same url in the same
\* microsecond).
ServedIsTraced ==
    /\ DOMAIN dir.metadata \subseteq DOMAIN dir.content
    /\ DOMAIN dir.content \subseteq LoggedIds \cup unlogged
    /\ \A q \in Calls : Alone(q) =>
        /\ handler[q].answer = "blocked" => handler[q].id \notin DOMAIN dir.content
        /\ handler[q].answer \in {"sandbox_fake", "honeypot"} /\ handler[q].saved =>
            /\ handler[q].id \in DOMAIN dir.metadata
            /\ dir.content[handler[q].id] = handler[q].answer
            /\ dir.metadata[handler[q].id] = handler[q].answer

=============================================================================
