----------------------------- MODULE NetworkMode -----------------------------
(***************************************************************************)
(* The network mode controller of the dynamic analysis                     *)
(* (internal/networkmode): goroutines hand intercepted requests to         *)
(* HandleRequest while an operator goroutine switches the mode, adds       *)
(* decision rules, clears the decision cache and closes the controller.    *)
(* Only the statistics, the log files and the connection table are behind  *)
(* mutexes.  The mode, the configuration's mode (the router's copy), the   *)
(* decision engine and its cache are shared without one, so every access   *)
(* to them is a step of its own.                                           *)
(***************************************************************************)
EXTENDS Integers, Sequences, FiniteSets, SequencesExt, FiniteSetsExt

CONSTANTS
    Callers,        \* goroutines that call HandleRequest
    Packets,        \* packets seen on the analysis network
    CustomRules,    \* rules the operator may add
    Configs,        \* configurations the controller may be created with
    MaxRequests,    \* bound on the requests handled
    MaxOperations   \* bound on the operator's calls

ASSUME BoundsAssumption == MaxRequests \in Nat /\ MaxOperations \in Nat

Actions == {"forward", "block", "modify", "simulate"}

(* What the controller's behaviour depends on in its configuration: whether
   the simulation services, the two other modes and the proxy are configured,
   the traffic modifier ("nil" when its section is missing), what is logged and
   which protocols' payloads are extracted. *)
Config ==
    [services : BOOLEAN, halfEnabled : BOOLEAN, proxy : BOOLEAN,
     defaultAction : Actions \cup {"unknown"}, transparentEnabled : BOOLEAN,
     modifier : {"on", "off", "nil"}, stripAuth : BOOLEAN, injectTracking : BOOLEAN,
     sandbox : BOOLEAN, extract : BOOLEAN, logConnections : BOOLEAN,
     supported : SUBSET {"HTTP", "HTTPS", "DNS", "SMTP", "FTP"},
     logAll : BOOLEAN, logDecisions : BOOLEAN]

ASSUME ConfigsAssumption == Configs \subseteq Config

ASSUME PacketsAssumption == \A p \in Packets : p.size \in Nat

ASSUME RulesAssumption == \A r \in CustomRules : r.priority \in Int

VARIABLES
    config,   \* the Config the controller was created with, Mode aside
    mode,     \* Controller.mode
    cfgMode,  \* Config.Mode, which Router.RouteRequest reads
    engine,   \* [ready, rules, cache]: Controller.decisionEngine
    modifier, \* whether Controller.modifier is set
    handler,  \* [ready, open, conns, total, bytes, events, payloads]: the
              \* transparent handler, its log files, its connection table
    stats,    \* Controller.stats
    logged,   \* [traffic, decisions]: entries of the two log files
    closed,   \* Close has run
    call,     \* what each caller's HandleRequest is doing, or its last result
    op,       \* what the operator is doing
    done,     \* number of the operator's calls so far
    alive     \* the process runs

vars == <<config, mode, cfgMode, engine, modifier, handler, stats, logged, closed,
          call, op, done, alive>>

Modes == {"full", "half", "transparent"}

(***************************************************************************)
(* An unsynchronised read of a Go string whose pointer and length are      *)
(* being replaced may see one of each: none of the three names.            *)
(***************************************************************************)
Torn == "torn"

Tear(old, new) == IF (old = "transparent") # (new = "transparent") THEN Torn ELSE new

-----------------------------------------------------------------------------
(* Interception: what HandleRequest's callers make of a packet. *)

HTTPPrefixes == {"GET ", "POST", "PUT ", "DELE", "HEAD", "OPTI", "PATC"}

identifyProtocol(p) ==
    IF p.prefix \in HTTPPrefixes THEN IF p.port = 443 THEN "HTTPS" ELSE "HTTP"
    ELSE IF p.prefix # "" /\ (p.port = 25 \/ p.prefix \in {"MAIL", "EHLO"}) THEN "SMTP"
    ELSE IF p.prefix # "" /\ (p.port = 21 \/ p.prefix \in {"USER", "PASS"}) THEN "FTP"
    ELSE p.transport

(* Method and path come from the request line of an HTTP payload, the domain
   from its Host header, the credentials from the headers that carry them. *)
parseHTTPRequest(p) ==
    [method |-> p.prefix, path |-> p.path, domain |-> p.domain, ctype |-> p.ctype,
     auth |-> p.auth]

NoHTTP == [method |-> "", path |-> "", domain |-> "", ctype |-> "", auth |-> FALSE]

(* A DNS packet is recognised by its layer whatever its port; its first question
   is the domain. *)
InterceptPacket(p) ==
    LET http == IF p.prefix \in HTTPPrefixes THEN parseHTTPRequest(p) ELSE NoHTTP
    IN  [proto |-> IF p.dns THEN "DNS" ELSE identifyProtocol(p),
         domain |-> IF p.dns THEN p.domain ELSE http.domain,
         method |-> http.method, path |-> http.path, ctype |-> http.ctype, auth |-> http.auth,
         prefix |-> p.prefix, tracked |-> FALSE, source |-> p.source, port |-> p.port,
         size |-> IF p.dns THEN 0 ELSE p.size]

Requests == {InterceptPacket(p) : p \in Packets}

-----------------------------------------------------------------------------
(* The decision engine. *)

(* A condition names the domains its list or pattern matches, or the value
   that a protocol, method, path suffix or content type must have. *)
evaluateCondition(req, cond) ==
    CASE cond.type \in {"domain_whitelist", "domain_blacklist", "domain_pattern"} ->
            req.domain \in cond.domains
      [] cond.type = "protocol" -> req.proto = cond.value
      [] cond.type = "file_extension" -> req.path = cond.value
      [] cond.type = "content_type" -> cond.value # "" /\ req.ctype = cond.value
      [] cond.type = "method" -> req.method = cond.value
      [] cond.type = "upload_detection" ->
            /\ cond.value = "" \/ req.method = cond.value
            /\ req.size >= cond.minSize
      [] cond.type = "default" -> TRUE
      [] OTHER -> FALSE   \* a nil or unknown condition, a bad pattern: skipped

Cond(type, domains, value, minSize) ==
    [type |-> type, domains |-> domains, value |-> value, minSize |-> minSize]

Rule(name, priority, cond, action, mod) ==
    [name |-> name, priority |-> priority, enabled |-> TRUE, cond |-> cond,
     action |-> action, modifier |-> mod]

Large == 2   \* one megabyte, in the units of a packet's size

DefaultRules ==
    << Rule("block_known_c2", 100, Cond("domain_blacklist", {"c2"}, "", 0), "block", "none"),
       Rule("allow_legitimate_cdns", 90, Cond("domain_whitelist", {"cdn"}, "", 0),
            "forward", "none"),
       Rule("intercept_executables", 80, Cond("file_extension", {}, "/a.exe", 0),
            "modify", "sandbox_executable"),
       Rule("monitor_data_exfiltration", 70, Cond("upload_detection", {}, "POST", Large),
            "modify", "content_logging"),
       Rule("default_simulate", 1, Cond("default", {}, "", 0), "simulate", "none") >>

\* Mutant: only neighbours are compared.
DueNeighbours(i, j) ==
    /\ op.i < i \/ (op.i = i /\ op.j < j)
    /\ j = i + 1 /\ engine.rules[j].priority > engine.rules[i].priority

(* sortRulesByPriority compares every element i with every later element j, for
   i = 1, 2, ..., and exchanges the two when j has the higher priority.  The pairs
   up to <<op.i, op.j>> are done; an exchange of i and j is due when nothing
   changes until the sort comes to it. *)
Due(i, j) ==
    /\ op.i < i \/ (op.i = i /\ op.j < j)
    /\ i < j /\ engine.rules[j].priority > engine.rules[i].priority

getCacheKey(req) == <<req.proto, req.domain, req.path>>

Keys == {getCacheKey(r) : r \in Requests}

NoDecision == [action |-> "none", rule |-> "none", modifier |-> "none"]

DecisionOf(r) == [action |-> r.action, rule |-> r.name, modifier |-> r.modifier]

Default == [action |-> config.defaultAction, rule |-> "default", modifier |-> "none"]

Simulated(rule) == [action |-> "simulate", rule |-> rule, modifier |-> "none"]

MatchingRules(req) ==
    {i \in DOMAIN engine.rules :
        engine.rules[i].enabled /\ evaluateCondition(req, engine.rules[i].cond)}

EmptyCache == [k \in Keys |-> NoDecision]

-----------------------------------------------------------------------------
(* The router and the modifier. *)

(* The simulation service that answers a protocol: the HTTP one for a protocol
   without a service of its own, none at all without the services' section. *)
getServiceAddress(proto) ==
    IF ~config.services THEN "none"
    ELSE IF proto \in {"DNS", "HTTP", "HTTPS", "SMTP", "FTP"} THEN proto ELSE "HTTP"

routeFullMode(req) == IF getServiceAddress(req.proto) = "none" THEN "error" ELSE "simulated"

(* The forwarding itself is a placeholder in the code; its response says real. *)
forwardToRealDestination == "real"

blockRequest == "blocked"

routeTransparentMode == "passthrough"

\* Mutant: anything but a block is forwarded.
routeHalfModeOpen(req, action) ==
    IF action = "block" THEN blockRequest ELSE forwardToRealDestination

routeHalfMode(req, action) ==
    CASE action \in {"forward", "modify"} -> forwardToRealDestination
      [] action = "block" -> blockRequest
      [] OTHER -> routeFullMode(req)

RouteRequest(m, req, action) ==
    CASE m = "half" -> routeHalfMode(req, action)
      [] m = "transparent" -> routeTransparentMode
      [] OTHER -> routeFullMode(req)

(* The copy of the request shares its header map with the original. *)
ModifyRequest(req) ==
    IF config.modifier # "on" THEN req
    ELSE [req EXCEPT !.auth = IF config.stripAuth THEN FALSE ELSE @,
                     !.tracked = config.injectTracking]

(* An executable is saved (or not: the error is only logged) and replaced by a
   placeholder; any other response keeps its source. *)
ModifyResponse(source, mod) ==
    IF config.modifier = "on" /\ mod = "sandbox_executable" /\ config.sandbox
    THEN "sandboxed" ELSE source

-----------------------------------------------------------------------------
(* The transparent handler. *)

connKey(req) == <<req.source, req.port, req.proto>>

ConnKeys == {connKey(r) : r \in Requests}

PortProtocols ==
    {<<80, "HTTP">>, <<443, "HTTPS">>, <<53, "DNS">>, <<25, "SMTP">>, <<587, "SMTP">>,
     <<465, "SMTPS">>, <<21, "FTP">>, <<22, "SSH">>, <<110, "POP3">>, <<143, "IMAP">>}

identifyAppProtocol(req) ==
    IF req.proto \in {"HTTP", "HTTPS", "DNS", "SMTP", "FTP"} THEN req.proto
    ELSE IF \E pp \in PortProtocols : pp[1] = req.port
         THEN (CHOOSE pp \in PortProtocols : pp[1] = req.port)[2]
    ELSE CASE req.prefix \in {"GET ", "POST", "PUT ", "HEAD"} -> "HTTP"
           [] req.prefix \in {"EHLO", "HELO", "MAIL"} -> "SMTP"
           [] req.prefix \in {"USER", "PASS", "RETR"} -> "FTP"
           [] OTHER -> ""

isProtocolSupported(app) == app \in config.supported

Untracked == -1

\* Mutant: a packet of a known connection replaces its byte count.
trackConnectionReplaces(req) ==
    [handler EXCEPT !.conns[connKey(req)] = req.size,
                    !.total = IF handler.conns[connKey(req)] = Untracked THEN @ + 1 ELSE @]

trackConnection(req) ==
    LET k == connKey(req)
        new == handler.conns[k] = Untracked
    IN  [handler EXCEPT !.conns[k] = IF new THEN req.size ELSE @ + req.size,
                        !.total = IF new THEN @ + 1 ELSE @]

extractAndLogPayload(req) ==
    IF config.extract /\ isProtocolSupported(identifyAppProtocol(req)) THEN 1 ELSE 0

(* A line of the connection log, lost once the handler's files are closed. *)
writeConnectionLog == IF config.logConnections /\ handler.open THEN 1 ELSE 0

NoHandler == [ready |-> FALSE, open |-> FALSE, conns |-> [k \in ConnKeys |-> Untracked],
              total |-> 0, bytes |-> 0, events |-> 0, payloads |-> 0]

NewTransparentModeHandler == [NoHandler EXCEPT !.ready = TRUE, !.open = TRUE]

(* What GetTransparentStats reports. *)
GetConnectionStats ==
    [total_connections |-> handler.total, total_bytes |-> handler.bytes,
     extracted_payloads |-> handler.payloads]

-----------------------------------------------------------------------------
(* A call's outcome is the response's source, "error", or "nothing" when a
   recovered panic made HandleRequest return neither a response nor an error.
   seen and switched are history: the modes in effect during the call and
   whether a SwitchMode overlapped it. *)
NoCall == [pc |-> "idle", req |-> CHOOSE r \in Requests : TRUE, via |-> "none",
           decision |-> NoDecision, outcome |-> "none", seen |-> {}, switched |-> FALSE]

Idle == [pc |-> "idle", to |-> "none", next |-> 0, i |-> 0, j |-> 0]

Active(c) == call[c].pc \notin {"idle", "done"}

Switching ==
    op.pc \in {"mode", "config", "engine", "modifier", "rules", "order", "handler"}

Stats == [total : Nat, forwarded : Nat, blocked : Nat, modified : Nat, simulated : Nat,
          errors : Nat]

NewEngine == [ready |-> TRUE, rules |-> << >>, cache |-> EmptyCache]

(* Config.Validate, for the mode m. *)
Validate(m) ==
    CASE m = "full" -> config.services
      [] m = "half" -> config.halfEnabled /\ config.proxy /\ config.defaultAction \in Actions
      [] m = "transparent" -> config.transparentEnabled
      [] OTHER -> FALSE

(* NewController, with a configuration Validate accepts.  The default rules are
   added highest priority first: sorting changes nothing. *)
NewController ==
    /\ config \in Configs
    /\ mode \in Modes /\ Validate(mode)
    /\ cfgMode = mode
    /\ engine = IF mode = "half" THEN [NewEngine EXCEPT !.rules = DefaultRules]
                ELSE [NewEngine EXCEPT !.ready = FALSE]
    /\ modifier = (mode = "half")
    /\ handler = IF mode = "transparent" THEN NewTransparentModeHandler ELSE NoHandler
    /\ stats = [total |-> 0, forwarded |-> 0, blocked |-> 0, modified |-> 0, simulated |-> 0,
                errors |-> 0]
    /\ logged = [traffic |-> 0, decisions |-> 0]
    /\ closed = FALSE

Init ==
    /\ NewController
    /\ call = [c \in Callers |-> NoCall]
    /\ op = Idle
    /\ done = 0
    /\ alive = TRUE

-----------------------------------------------------------------------------
(* HandleRequest. *)

incrementStat(s) == stats' = [stats EXCEPT ![s] = @ + 1]

Unshared == <<config, mode, cfgMode, modifier, op, done, alive, closed>>

(* The request is counted and the mode read once.  A mode that is none of the
   three is handled as Full Mode. *)
HandleRequest(c, req) ==
    /\ ~Active(c)
    /\ stats.total < MaxRequests
    /\ LET full == mode \notin {"half", "transparent"}
       IN  /\ stats' = [stats EXCEPT !.total = @ + 1,
                                     !.simulated = IF full THEN @ + 1 ELSE @]
           /\ call' = [call EXCEPT ![c] =
                [pc |-> IF full THEN "route" ELSE mode,
                 req |-> req,
                 via |-> IF full THEN "full" ELSE mode,
                 decision |-> IF full
                              THEN Simulated(IF mode = "full" THEN "full_mode" ELSE "failsafe")
                              ELSE NoDecision,
                 outcome |-> "none",
                 seen |-> {mode, cfgMode, op.to} \ {Torn, "none"},
                 switched |-> Switching]]
    /\ UNCHANGED <<Unshared, engine, handler, logged>>

(* The log files: a line is written unless its kind is switched off, and fails,
   with a warning only, once Close has closed the file. *)
LogTraffic == IF config.logAll /\ ~closed THEN 1 ELSE 0

LogDecision(c) == IF call[c].via = "half" /\ config.logDecisions /\ ~closed THEN 1 ELSE 0

(* The deferred recover: an error is counted, nothing is returned. *)
Recover(c) ==
    /\ incrementStat("errors")
    /\ call' = [call EXCEPT ![c].pc = "done", ![c].outcome = "nothing"]
    /\ UNCHANGED <<Unshared, engine, handler>>

(* Half Mode before SwitchMode has set the decision engine: a nil receiver. *)
DecideWithoutEngine(c) ==
    /\ call[c].pc = "half" /\ ~engine.ready
    /\ Recover(c)
    /\ UNCHANGED logged

(* A cached decision is used as it is; else the first matching rule decides
   and its decision is to be cached; else the default action, not cached. *)
Decide(c) ==
    LET req == call[c].req
        matching == MatchingRules(req)
        cached == engine.cache[getCacheKey(req)]
        d == IF cached # NoDecision THEN cached
             ELSE IF matching # {} THEN DecisionOf(engine.rules[Min(matching)]) ELSE Default
    IN  /\ call[c].pc = "half" /\ engine.ready
        /\ call' = [call EXCEPT
                ![c].pc = IF cached = NoDecision /\ matching # {} THEN "store" ELSE "route",
                ![c].decision = d]
        /\ UNCHANGED <<Unshared, engine, handler, stats, logged>>

CacheDecision(c) ==
    /\ call[c].pc = "store"
    /\ engine' = [engine EXCEPT !.cache[getCacheKey(call[c].req)] = call[c].decision]
    /\ call' = [call EXCEPT ![c].pc = "route"]
    /\ UNCHANGED <<Unshared, handler, stats, logged>>

(* The Go runtime stops the process, past any recover, when it notices a map
   written while another goroutine reads or writes it. *)
ConcurrentMapAccess(c, d) ==
    /\ c # d
    /\ call[c].pc = "store"
    /\ call[d].pc = "store" \/ (call[d].pc = "half" /\ engine.ready)
    /\ alive' = FALSE
    /\ UNCHANGED <<config, mode, cfgMode, engine, modifier, handler, stats, logged,
                   closed,
                   call, op, done>>

Modifies(d) == d.action = "modify" /\ d.modifier # "none"

(* The decision is logged; ModifyRequest dereferences the modifier's
   configuration. *)
ModifyPanics(c) ==
    /\ call[c].pc = "route" /\ call[c].via = "half" /\ Modifies(call[c].decision)
    /\ ~modifier \/ config.modifier = "nil"
    /\ logged' = [logged EXCEPT !.decisions = @ + LogDecision(c)]
    /\ Recover(c)

(* Full Mode has counted the request before it was routed.  In Half Mode a
   modified request is counted before it is routed, any other afterwards. *)
Counted(c, s) ==
    LET d == call[c].decision
        routed(a) == call[c].via = "half" /\ s # "error" /\ d.action = a
    IN  [stats EXCEPT !.errors = IF s = "error" THEN @ + 1 ELSE @,
                      !.simulated = IF routed("simulate") THEN @ + 1 ELSE @,
                      !.forwarded = IF routed("forward") THEN @ + 1 ELSE @,
                      !.blocked = IF routed("block") THEN @ + 1 ELSE @,
                      !.modified = IF call[c].via = "half" /\ Modifies(d) THEN @ + 1 ELSE @]

(* From the decision's log line to the return: the one access to
   shared state is the router's read of the configuration's mode. *)
Route(c) ==
    LET d == call[c].decision
        mods == call[c].via = "half" /\ Modifies(d)
        source == RouteRequest(cfgMode, call[c].req, d.action)
    IN  /\ call[c].pc = "route"
        /\ mods => modifier /\ config.modifier # "nil"
        /\ call' = [call EXCEPT
                ![c].pc = "done",
                ![c].req = IF mods THEN ModifyRequest(@) ELSE @,
                ![c].outcome = IF mods /\ source # "error"
                               THEN ModifyResponse(source, d.modifier) ELSE source]
        /\ stats' = Counted(c, source)
        /\ logged' = [decisions |-> logged.decisions + LogDecision(c),
                      traffic |-> IF source = "error" THEN logged.traffic
                                  ELSE logged.traffic + LogTraffic]
        /\ UNCHANGED <<Unshared, engine, handler>>

(* Transparent Mode before SwitchMode has set the handler: handleFullMode. *)
TransparentNotReady(c) ==
    /\ call[c].pc = "transparent" /\ ~handler.ready
    /\ incrementStat("simulated")
    /\ call' = [call EXCEPT ![c].pc = "route", ![c].via = "full",
                         ![c].decision = Simulated("transparent_failsafe")]
    /\ UNCHANGED <<Unshared, engine, handler, logged>>

(* The connection table is updated under its lock ... *)
TrackConnection(c) ==
    /\ call[c].pc = "transparent" /\ handler.ready
    /\ handler' = trackConnection(call[c].req)
    /\ call' = [call EXCEPT ![c].pc = "observe"]
    /\ UNCHANGED <<Unshared, engine, stats, logged>>

(* ... and the log, the payload and byte counters after it is released. *)
Observe(c) ==
    /\ call[c].pc = "observe"
    /\ handler' = [handler EXCEPT !.bytes = @ + call[c].req.size,
                                  !.events = @ + writeConnectionLog,
                                  !.payloads = @ + extractAndLogPayload(call[c].req)]
    /\ incrementStat("forwarded")
    /\ logged' = [logged EXCEPT !.traffic = @ + LogTraffic]
    /\ call' = [call EXCEPT
            ![c].pc = "done", ![c].outcome = "passthrough",
            ![c].decision = [action |-> "forward", rule |-> "transparent_passthrough",
                             modifier |-> "none"]]
    /\ UNCHANGED <<Unshared, engine>>

-----------------------------------------------------------------------------
(* The operator. *)

Unhandled == <<config, stats, logged, alive>>

Enabled(m) ==
    /\ m = "half" => config.halfEnabled
    /\ m = "transparent" => config.transparentEnabled

(* SwitchMode checks, then stores the mode, the configuration's mode, and
   last the components the new mode needs. *)
SwitchMode(m) ==
    /\ op.pc = "idle" /\ done < MaxOperations
    /\ Enabled(m)
    /\ mode' = Tear(mode, m)
    /\ op' = [Idle EXCEPT !.pc = "mode", !.to = m]
    /\ done' = done + 1
    /\ call' = [c \in Callers |->
                    IF Active(c) THEN [call[c] EXCEPT !.seen = @ \cup {m}, !.switched = TRUE]
                    ELSE call[c]]
    /\ UNCHANGED <<Unhandled, cfgMode, engine, modifier, handler, closed>>

StoreMode ==
    /\ op.pc = "mode"
    /\ mode' = op.to
    /\ cfgMode' = Tear(cfgMode, op.to)
    /\ op' = [op EXCEPT !.pc = "config"]
    /\ UNCHANGED <<Unhandled, engine, modifier, handler, closed, call, done>>

\* Mutant: the router's copy of the mode is not finished.
StoreConfigModeForgets ==
    /\ op.pc = "config"
    /\ op' = CASE op.to = "half" /\ ~engine.ready -> [op EXCEPT !.pc = "engine"]
               [] op.to = "transparent" /\ ~handler.ready -> [op EXCEPT !.pc = "handler"]
               [] OTHER -> Idle
    /\ UNCHANGED <<Unhandled, mode, cfgMode, engine, modifier, handler, closed, call,
                   done>>

StoreConfigMode ==
    /\ op.pc = "config"
    /\ cfgMode' = op.to
    /\ op' = CASE op.to = "half" /\ ~engine.ready -> [op EXCEPT !.pc = "engine"]
               [] op.to = "transparent" /\ ~handler.ready -> [op EXCEPT !.pc = "handler"]
               [] OTHER -> Idle
    /\ UNCHANGED <<Unhandled, mode, engine, modifier, handler, closed, call, done>>

InitEngine ==
    /\ op.pc = "engine"
    /\ engine' = NewEngine
    /\ op' = [op EXCEPT !.pc = "modifier"]
    /\ UNCHANGED <<Unhandled, mode, cfgMode, modifier, handler, closed, call, done>>

InitModifier ==
    /\ op.pc = "modifier"
    /\ modifier' = TRUE
    /\ op' = [op EXCEPT !.pc = "rules", !.next = 1]
    /\ UNCHANGED <<Unhandled, mode, cfgMode, engine, handler, closed, call, done>>

(* A default rule is added; the rules are sorted after each. *)
InitRule ==
    /\ op.pc = "rules"
    /\ engine' = [engine EXCEPT !.rules = Append(@, DefaultRules[op.next])]
    /\ op' = [op EXCEPT !.pc = "order", !.i = 1, !.j = 1]
    /\ UNCHANGED <<Unhandled, mode, cfgMode, modifier, handler, closed, call, done>>

InitHandler ==
    /\ op.pc = "handler"
    /\ handler' = NewTransparentModeHandler
    /\ op' = Idle
    /\ UNCHANGED <<Unhandled, mode, cfgMode, engine, modifier, closed, call, done>>

(* AddDecisionRule appends the rule and then sorts the rules in place. *)
AddDecisionRule(r) ==
    /\ op.pc = "idle" /\ done < MaxOperations
    /\ mode = "half" /\ engine.ready
    /\ r.action \in Actions
    /\ engine' = [engine EXCEPT !.rules = Append(@, r)]
    /\ op' = [Idle EXCEPT !.pc = "sort", !.i = 1, !.j = 1]
    /\ done' = done + 1
    /\ UNCHANGED <<Unhandled, mode, cfgMode, modifier, handler, closed, call>>

(* The rules are shared while they are sorted: a decision may see them between
   two exchanges. *)
SwapRules ==
    /\ op.pc \in {"sort", "order"}
    /\ \E i, j \in DOMAIN engine.rules :
        /\ Due(i, j)
        /\ \A k, l \in DOMAIN engine.rules : Due(k, l) => i < k \/ (i = k /\ j <= l)
        /\ engine' = [engine EXCEPT !.rules[i] = engine.rules[j], !.rules[j] = engine.rules[i]]
        /\ op' = [op EXCEPT !.i = i, !.j = j]
    /\ UNCHANGED <<Unhandled, mode, cfgMode, modifier, handler, closed, call, done>>

SortEnds ==
    /\ op.pc \in {"sort", "order"}
    /\ \A i, j \in DOMAIN engine.rules : ~Due(i, j)
    /\ op' = IF op.pc = "sort" \/ op.next = Len(DefaultRules) THEN Idle
             ELSE [op EXCEPT !.pc = "rules", !.next = @ + 1]
    /\ UNCHANGED <<Unhandled, mode, cfgMode, engine, modifier, handler, closed, call,
                   done>>

ClearDecisionCache ==
    /\ op.pc = "idle" /\ done < MaxOperations
    /\ engine.ready
    /\ engine' = [engine EXCEPT !.cache = EmptyCache]
    /\ done' = done + 1
    /\ UNCHANGED <<Unhandled, mode, cfgMode, modifier, handler, closed, call, op>>

(* Close flushes and closes the log files; requests are still answered. *)
Close ==
    /\ op.pc = "idle" /\ done < MaxOperations
    /\ ~closed
    /\ closed' = TRUE
    /\ handler' = [handler EXCEPT !.open = FALSE]
    /\ done' = done + 1
    /\ UNCHANGED <<Unhandled, mode, cfgMode, engine, modifier, call, op>>

(* What Health checks. *)
Health ==
    /\ mode \in Modes
    /\ Validate(cfgMode)
    /\ mode = "half" => engine.ready /\ modifier
    /\ mode = "transparent" => handler.ready

-----------------------------------------------------------------------------
Caller(c) ==
    \/ \E req \in Requests : HandleRequest(c, req)
    \/ DecideWithoutEngine(c)
    \/ Decide(c)
    \/ CacheDecision(c)
    \/ ModifyPanics(c)
    \/ Route(c)
    \/ TransparentNotReady(c)
    \/ TrackConnection(c)
    \/ Observe(c)

Operator ==
    \/ \E m \in Modes : SwitchMode(m)
    \/ StoreMode
    \/ StoreConfigMode
    \/ InitEngine
    \/ InitModifier
    \/ InitRule
    \/ InitHandler
    \/ \E r \in CustomRules : AddDecisionRule(r)
    \/ SwapRules
    \/ SortEnds
    \/ ClearDecisionCache
    \/ Close

Next ==
    /\ alive
    /\ \/ \E c \in Callers : Caller(c)
       \/ \E c, d \in Callers : ConcurrentMapAccess(c, d)
       \/ Operator

Spec == Init /\ [][Next]_vars

-----------------------------------------------------------------------------
(* Properties. *)

Finished == {c \in Callers : call[c].pc = "done"}

Quiet == \A c \in Callers : ~Active(c)

External == {"real", "passthrough", "sandboxed"}

(* The state is well typed: in particular Config.Mode and Controller.mode are
   only ever torn while SwitchMode stores them. *)
TypeOK ==
    /\ mode \in Modes \/ (mode = Torn /\ op.pc = "mode")
    /\ cfgMode \in Modes \/ (cfgMode = Torn /\ op.pc = "config")
    /\ engine.ready \in BOOLEAN /\ engine.cache \in [Keys -> {NoDecision} \cup
            {DecisionOf(r) : r \in CustomRules \cup Range(DefaultRules)}]
    /\ modifier \in BOOLEAN /\ closed \in BOOLEAN /\ alive \in BOOLEAN
    /\ stats \in Stats
    /\ \A c \in Callers :
         call[c].outcome \in External \cup {"none", "simulated", "blocked", "error", "nothing"}

(* Full Mode isolates, even while the mode is switched: a response that stands
   for contact with the real network (a forward, a pass-through, a sandboxed
   download) is returned only to a request during which Transparent Mode was in
   effect, or Half Mode together with a decision to forward or to modify. *)
Isolated ==
    \A c \in Finished : call[c].outcome \in External =>
        \/ "transparent" \in call[c].seen
        \/ "half" \in call[c].seen /\ call[c].decision.action \in {"forward", "modify"}

(* What the controller records is what the router did: unless SwitchMode ran
   during the request, the source of the response is the one of the decision
   attached to it, a blocked request goes nowhere, and an action the
   configuration does not know is simulated.  HandleRequest comes
   back with neither a response nor an error only when SwitchMode ran during
   it, or the traffic modifier has no configuration. *)
DecisionObeyed ==
    \A c \in Finished :
        LET a == call[c].decision.action IN
        ~call[c].switched /\ call[c].outcome # "error" =>
            IF call[c].outcome = "nothing" THEN config.modifier = "nil"
            ELSE CASE a = "block" -> call[c].outcome = "blocked"
                   [] a = "forward" -> call[c].outcome \in {"real", "passthrough"}
                   [] a = "modify" -> call[c].outcome \in {"real", "sandboxed"}
                   [] OTHER -> call[c].outcome = "simulated"

(* A configuration in which every mode that is enabled can be validated. *)
CompleteConfig ==
    /\ config.services
    /\ config.halfEnabled => config.proxy /\ config.defaultAction \in Actions

ComponentsReady == op.pc = "idle" /\ CompleteConfig => Health /\ mode = cfgMode

RulesOrdered ==
    \A i, j \in DOMAIN engine.rules :
        i < j => engine.rules[i].priority >= engine.rules[j].priority

(* Whenever the operator is idle, the rules are in the order Decide relies on,
   highest priority first, whatever rules were added in whatever order; and
   with a complete configuration Health has nothing to report: SwitchMode
   leaves no mode without its components. *)
Healthy == ComponentsReady /\ (op.pc = "idle" => RulesOrdered)

(* Every decision is of an action with a counter: a rule or a default action that
   modifies without a modifier is forwarded and counted nowhere, and so is an
   action the controller does not know. *)
EveryActionCounted ==
    /\ config.defaultAction \in {"forward", "block", "simulate"}
    /\ \A r \in CustomRules : r.action = "modify" => r.modifier # "none"

(* With no request under way, every request is accounted for: those that were
   not errors are in at most one of the four action counters, in exactly one when
   every action has a counter, each of them has its line in the traffic log until
   the log is closed, and every block and every modification, which only Half Mode
   decides, its line in the decisions log.  The transparent handler's byte total is
   the number of bytes in its connection table, its connection count the table's
   size, its connection log has a line for every connection and every payload,
   whatever the interleaving of the locked update and the unlocked counters. *)
Accounted ==
    LET counted == stats.forwarded + stats.blocked + stats.modified + stats.simulated
        tracked == {k \in ConnKeys : handler.conns[k] # Untracked}
        bytes == UNION {{k} \X (1 .. handler.conns[k]) : k \in tracked}
    IN  Quiet => /\ counted <= stats.total
                 /\ EveryActionCounted => counted + stats.errors >= stats.total
                 /\ ~closed /\ config.logAll => logged.traffic + stats.errors = stats.total
                 /\ ~closed /\ config.logDecisions =>
                        logged.decisions >= stats.blocked + stats.modified
                 /\ GetConnectionStats.total_bytes = Cardinality(bytes)
                 /\ GetConnectionStats.total_connections = Cardinality(tracked)
                 /\ handler.open /\ config.logConnections =>
                        /\ handler.events >= GetConnectionStats.total_connections
                        /\ handler.events >= GetConnectionStats.extracted_payloads

(* docs/TRANSPARENT_MODE.md:377: a transparent handler that is not initialised
   makes the controller fall back to Full Mode, as handleTransparentMode's log
   line and its decision say. *)
FailsafeIsolates ==
    \A c \in Finished : call[c].decision.rule = "transparent_failsafe" =>
                            call[c].outcome \notin External

=============================================================================
