-------------------------- MODULE NetworkModeProofs --------------------------
(***************************************************************************)
(* Proofs about the network mode controller: what the unsynchronised       *)
(* accesses to the mode and to the components of a mode cannot break, for  *)
(* any number of goroutines, requests, rules and operator calls.           *)
(***************************************************************************)
EXTENDS NetworkMode, WellFoundedInduction, FiniteSetTheorems, SequenceTheorems, TLAPS

CallFields == {"pc", "req", "via", "decision", "outcome", "seen", "switched"}
SwitchSteps == {"mode", "config", "engine", "modifier", "rules", "order", "handler"}

(* The records that requests and SwitchMode update in place. *)
Shape ==
    /\ DOMAIN call = Callers
    /\ \A c \in Callers : DOMAIN call[c] = CallFields
    /\ DOMAIN engine = {"ready", "rules", "cache"}
    /\ DOMAIN handler =
         {"ready", "open", "conns", "total", "bytes", "events", "payloads"}
    /\ DOMAIN op = {"pc", "to", "next", "i", "j"}
    /\ op.pc \in SwitchSteps \cup {"idle", "sort"} /\ op.to \in Modes \cup {"none"}
    /\ op.next \in Nat

(* The mode and the router's copy of it are torn only while they are stored, and
   are the same before and after. *)
ModeStored ==
    /\ mode \in Modes \cup {Torn} /\ cfgMode \in Modes \cup {Torn}
    /\ op.pc \in SwitchSteps => op.to \in Modes
    /\ op.pc = "mode" => cfgMode \in Modes
    /\ op.pc # "mode" => mode \in Modes
    /\ op.pc \in SwitchSteps \ {"mode"} => mode = op.to
    /\ op.pc \notin {"mode", "config"} => cfgMode = mode

(* A mode is enabled, and its components are there once SwitchMode is over. *)
ModeReady ==
    /\ mode = "half" \/ op.to = "half" => config.halfEnabled
    /\ mode = "transparent" \/ op.to = "transparent" => config.transparentEnabled
    /\ engine.ready => modifier = TRUE \/ op.pc = "modifier"
    /\ op.pc \in {"engine", "modifier", "rules", "order"} => op.to = "half"
    /\ op.pc \in {"modifier", "rules", "order"} => engine.ready
    /\ op.pc = "handler" => op.to = "transparent"
    /\ op.pc \notin SwitchSteps /\ mode = "half" => engine.ready /\ modifier = TRUE
    /\ op.pc \notin SwitchSteps /\ mode = "transparent" => handler.ready

(* A request in progress has seen every mode in effect, the one that SwitchMode
   is storing included, and goes the way of a mode it has seen. *)
ModesSeen ==
    \A c \in Callers : Active(c) =>
        /\ {mode, cfgMode, op.to} \cap Modes \subseteq call[c].seen
        /\ call[c].pc \in {"half", "store", "route", "transparent", "observe"}
        /\ call[c].pc \in {"half", "store"} => call[c].via = "half"
        /\ call[c].via = "half" => "half" \in call[c].seen
        /\ call[c].pc \in {"transparent", "observe"} => "transparent" \in call[c].seen

(* A request that no SwitchMode has overlapped goes the way of the mode, which
   nobody is switching. *)
Undisturbed ==
    \A c \in Callers : Active(c) /\ call[c].switched = FALSE =>
        /\ op.pc \notin SwitchSteps
        /\ call[c].via = mode
        /\ call[c].via = "full" =>
             call[c].decision.action \notin {"block", "forward", "modify"}
        /\ call[c].pc \in {"transparent", "observe"} <=> call[c].via = "transparent"

(* DecisionObeyed, for one request. *)
Obeyed(c) ==
    call[c].pc = "done" /\ call[c].switched = FALSE /\ call[c].outcome # "error" =>
        /\ call[c].outcome = "nothing" => config.modifier = "nil"
        /\ call[c].outcome # "nothing" =>
            /\ call[c].decision.action = "block" => call[c].outcome = "blocked"
            /\ call[c].decision.action = "forward" =>
                    call[c].outcome \in {"real", "passthrough"}
            /\ call[c].decision.action = "modify" =>
                    call[c].outcome \in {"real", "sandboxed"}
            /\ call[c].decision.action \notin {"block", "forward", "modify"} =>
                    call[c].outcome = "simulated"

SwitchedBoolean == \A c \in Callers : call[c].switched \in BOOLEAN

AllObeyed == \A c \in Callers : Obeyed(c)

ModeInv ==
    /\ Shape /\ ModeStored /\ ModeReady /\ ModesSeen /\ Undisturbed
    /\ SwitchedBoolean /\ AllObeyed /\ Isolated

(* SwitchMode changes nothing of a request but what it has seen. *)
LEMMA SwitchEffect ==
    ASSUME Shape, NEW m \in Modes, SwitchMode(m), NEW c \in Callers
    PROVE  /\ call'[c].pc = call[c].pc /\ call'[c].via = call[c].via
           /\ call'[c].decision = call[c].decision /\ call'[c].outcome = call[c].outcome
           /\ Active(c) => call'[c].seen = call[c].seen \cup {m} /\ call'[c].switched = TRUE
           /\ ~Active(c) => call'[c] = call[c]
  BY DEF SwitchMode, Shape, CallFields

(* Sorting changes nothing but the rules and the place of the operator. *)
LEMMA SortEffect ==
    ASSUME Shape, SwapRules \/ SortEnds
    PROVE  /\ UNCHANGED <<Unhandled, mode, cfgMode, modifier, handler, closed, call,
                          done>>
           /\ DOMAIN engine' = DOMAIN engine
           /\ engine'.ready = engine.ready /\ engine'.cache = engine.cache
           /\ DOMAIN op' = DOMAIN op /\ op.pc \in {"sort", "order"} /\ op'.next \in Nat
           /\ \/ op'.pc = op.pc /\ op'.to = op.to
              \/ op'.pc = "idle" /\ op'.to = "none"
              \/ op.pc = "order" /\ op'.pc = "rules" /\ op'.to = op.to
  <1>1. CASE SwapRules
    BY <1>1 DEF SwapRules, Shape
  <1>2. CASE SortEnds
    BY <1>2 DEF SortEnds, Shape, Idle
  <1> QED  BY <1>1, <1>2

(* What Route does to the calls. *)
LEMMA RouteEffect ==
    ASSUME Shape, NEW c \in Callers, Route(c)
    PROVE  /\ \A d \in Callers \ {c} : call'[d] = call[d]
           /\ call'[c].pc = "done" /\ call'[c].via = call[c].via
           /\ call'[c].decision = call[c].decision
           /\ call'[c].seen = call[c].seen /\ call'[c].switched = call[c].switched
  BY DEF Route, Shape, CallFields

(* Where the router sends a request. *)
LEMMA RouteSource ==
    ASSUME NEW req, NEW action, NEW m
    PROVE  LET source == RouteRequest(m, req, action) IN
           /\ source \in {"real", "passthrough", "blocked", "simulated", "error"}
           /\ source = "passthrough" => m = "transparent"
           /\ source = "real" => m = "half" /\ action \in {"forward", "modify"}
           /\ m = "half" /\ action = "block" => source = "blocked"
           /\ m = "half" /\ action \in {"forward", "modify"} => source = "real"
           /\ m \notin {"half", "transparent"} \/ (m = "half" /\
                action \notin {"block", "forward", "modify"}) => source \in {"simulated", "error"}
  <1>1. routeFullMode(req) \in {"simulated", "error"}
    BY DEF routeFullMode
  <1>2. /\ action \in {"forward", "modify"} => routeHalfMode(req, action) = "real"
        /\ action = "block" => routeHalfMode(req, action) = "blocked"
        /\ action \notin {"block", "forward", "modify"} =>
                routeHalfMode(req, action) = routeFullMode(req)
    BY DEF routeHalfMode, forwardToRealDestination, blockRequest
  <1>3. /\ m = "half" => RouteRequest(m, req, action) = routeHalfMode(req, action)
        /\ m = "transparent" => RouteRequest(m, req, action) = "passthrough"
        /\ m \notin {"half", "transparent"} => RouteRequest(m, req, action) = routeFullMode(req)
    BY DEF RouteRequest, routeTransparentMode
  <1> QED  BY <1>1, <1>2, <1>3

(* The outcome of a routed request: where the router sent it, or the placeholder
   of a download that Half Mode decided to modify. *)
LEMMA RouteOutcome ==
    ASSUME Shape, NEW c \in Callers, Route(c)
    PROVE  \/ call'[c].outcome = RouteRequest(cfgMode, call[c].req, call[c].decision.action)
           \/ /\ call'[c].outcome = "sandboxed"
              /\ call[c].via = "half" /\ call[c].decision.action = "modify"
  <1> DEFINE source == RouteRequest(cfgMode, call[c].req, call[c].decision.action)
             mods == call[c].via = "half" /\ Modifies(call[c].decision)
  <1>1. call'[c].outcome = IF mods /\ source # "error"
                           THEN ModifyResponse(source, call[c].decision.modifier) ELSE source
    BY DEF Route, Shape, CallFields
  <1>2. ModifyResponse(source, call[c].decision.modifier) \in {source, "sandboxed"}
    BY DEF ModifyResponse
  <1>3. mods => call[c].via = "half" /\ call[c].decision.action = "modify"
    BY DEF Modifies
  <1> HIDE DEF source, mods
  <1> QED  BY <1>1, <1>2, <1>3 DEF source

(* Every step keeps the shape of the records. *)
LEMMA ShapeStep ==
    ASSUME Shape, [Next]_vars
    PROVE  Shape'
  <1> USE DEF Shape, CallFields, SwitchSteps, Modes
  <1>1. ASSUME NEW c \in Callers, NEW req \in Requests, HandleRequest(c, req)
        PROVE  Shape'
    BY <1>1 DEF HandleRequest, Unshared, Switching, Simulated, NoDecision
  <1>2. ASSUME NEW c \in Callers, DecideWithoutEngine(c) PROVE Shape'
    BY <1>2 DEF DecideWithoutEngine, Recover, incrementStat, Unshared
  <1>3. ASSUME NEW c \in Callers, Decide(c) PROVE Shape'
    BY <1>3 DEF Decide, Unshared
  <1>4. ASSUME NEW c \in Callers, CacheDecision(c) PROVE Shape'
    BY <1>4 DEF CacheDecision, Unshared
  <1>5. ASSUME NEW c \in Callers, ModifyPanics(c) PROVE Shape'
    BY <1>5 DEF ModifyPanics, Recover, incrementStat, Unshared
  <1>6. ASSUME NEW c \in Callers, Route(c) PROVE Shape'
    BY <1>6 DEF Route, Unshared
  <1>7. ASSUME NEW c \in Callers, TransparentNotReady(c) PROVE Shape'
    BY <1>7 DEF TransparentNotReady, Unshared, Simulated
  <1>8. ASSUME NEW c \in Callers, TrackConnection(c) PROVE Shape'
    BY <1>8 DEF TrackConnection, Unshared, trackConnection
  <1>9. ASSUME NEW c \in Callers, Observe(c) PROVE Shape'
    BY <1>9 DEF Observe, Unshared
  <1>10. ASSUME NEW c \in Callers, NEW d \in Callers, ConcurrentMapAccess(c, d)
        PROVE  Shape'
    BY <1>10 DEF ConcurrentMapAccess
  <1>11. ASSUME NEW m \in Modes, SwitchMode(m) PROVE Shape'
    BY <1>11 DEF SwitchMode, Unhandled, Idle, Tear, Enabled
  <1>12. ASSUME NEW r \in CustomRules, AddDecisionRule(r) PROVE Shape'
    BY <1>12 DEF AddDecisionRule, Unhandled, Idle
  <1>13. CASE StoreMode
    BY <1>13 DEF StoreMode, Unhandled
  <1>14. CASE StoreConfigMode
    BY <1>14 DEF StoreConfigMode, Unhandled, Idle
  <1>15. CASE InitEngine
    BY <1>15 DEF InitEngine, Unhandled, NewEngine
  <1>16. CASE InitModifier
    BY <1>16 DEF InitModifier, Unhandled
  <1>17. CASE InitRule
    BY <1>17 DEF InitRule, Unhandled, Idle
  <1>18. CASE InitHandler
    BY <1>18 DEF InitHandler, Unhandled, Idle, NewTransparentModeHandler, NoHandler
  <1>19. CASE SwapRules \/ SortEnds
    BY <1>19, SortEffect DEF Unhandled
  <1>20. CASE ClearDecisionCache
    BY <1>20 DEF ClearDecisionCache, Unhandled
  <1>21. CASE Close
    BY <1>21 DEF Close, Unhandled
  <1>22. CASE UNCHANGED vars
    BY <1>22 DEF vars
  <1> QED
    BY <1>1, <1>2, <1>3, <1>4, <1>5, <1>6, <1>7, <1>8, <1>9, <1>10, <1>11, <1>12, <1>13,
         <1>14, <1>15, <1>16, <1>17, <1>18, <1>19, <1>20, <1>21, <1>22
       DEF Next, Caller, Operator

(* Every step keeps the mode and its copy whole but for the time they are stored. *)
LEMMA ModeStoredStep ==
    ASSUME Shape, ModeStored, [Next]_vars
    PROVE  ModeStored'
  <1> USE DEF Shape, ModeStored, SwitchSteps, Modes, Torn, Tear
  <1>1. ASSUME NEW c \in Callers, NEW req \in Requests, HandleRequest(c, req)
        PROVE  ModeStored'
    BY <1>1 DEF HandleRequest, Unshared, Switching, Simulated, NoDecision
  <1>2. ASSUME NEW c \in Callers, DecideWithoutEngine(c) PROVE ModeStored'
    BY <1>2 DEF DecideWithoutEngine, Recover, incrementStat, Unshared
  <1>3. ASSUME NEW c \in Callers, Decide(c) PROVE ModeStored'
    BY <1>3 DEF Decide, Unshared
  <1>4. ASSUME NEW c \in Callers, CacheDecision(c) PROVE ModeStored'
    BY <1>4 DEF CacheDecision, Unshared
  <1>5. ASSUME NEW c \in Callers, ModifyPanics(c) PROVE ModeStored'
    BY <1>5 DEF ModifyPanics, Recover, incrementStat, Unshared
  <1>6. ASSUME NEW c \in Callers, Route(c) PROVE ModeStored'
    BY <1>6 DEF Route, Unshared
  <1>7. ASSUME NEW c \in Callers, TransparentNotReady(c) PROVE ModeStored'
    BY <1>7 DEF TransparentNotReady, Unshared, Simulated
  <1>8. ASSUME NEW c \in Callers, TrackConnection(c) PROVE ModeStored'
    BY <1>8 DEF TrackConnection, Unshared, trackConnection
  <1>9. ASSUME NEW c \in Callers, Observe(c) PROVE ModeStored'
    BY <1>9 DEF Observe, Unshared
  <1>10. ASSUME NEW c \in Callers, NEW d \in Callers, ConcurrentMapAccess(c, d)
        PROVE  ModeStored'
    BY <1>10 DEF ConcurrentMapAccess
  <1>11. ASSUME NEW m \in Modes, SwitchMode(m) PROVE ModeStored'
    BY <1>11 DEF SwitchMode, Unhandled, Idle, Tear, Enabled
  <1>12. ASSUME NEW r \in CustomRules, AddDecisionRule(r) PROVE ModeStored'
    BY <1>12 DEF AddDecisionRule, Unhandled, Idle
  <1>13. CASE StoreMode
    BY <1>13 DEF StoreMode, Unhandled
  <1>14. CASE StoreConfigMode
    BY <1>14 DEF StoreConfigMode, Unhandled, Idle
  <1>15. CASE InitEngine
    BY <1>15 DEF InitEngine, Unhandled, NewEngine
  <1>16. CASE InitModifier
    BY <1>16 DEF InitModifier, Unhandled
  <1>17. CASE InitRule
    BY <1>17 DEF InitRule, Unhandled, Idle
  <1>18. CASE InitHandler
    BY <1>18 DEF InitHandler, Unhandled, Idle, NewTransparentModeHandler, NoHandler
  <1>19. CASE SwapRules \/ SortEnds
    BY <1>19, SortEffect DEF Unhandled
  <1>20. CASE ClearDecisionCache
    BY <1>20 DEF ClearDecisionCache, Unhandled
  <1>21. CASE Close
    BY <1>21 DEF Close, Unhandled
  <1>22. CASE UNCHANGED vars
    BY <1>22 DEF vars
  <1> QED
    BY <1>1, <1>2, <1>3, <1>4, <1>5, <1>6, <1>7, <1>8, <1>9, <1>10, <1>11, <1>12, <1>13,
         <1>14, <1>15, <1>16, <1>17, <1>18, <1>19, <1>20, <1>21, <1>22
       DEF Next, Caller, Operator

(* Every step keeps the components of a mode with the mode. *)
LEMMA ModeReadyStep ==
    ASSUME Shape, ModeStored, ModeReady, [Next]_vars
    PROVE  ModeReady'
  <1> USE DEF Shape, ModeStored, ModeReady, SwitchSteps, Modes, Torn
  <1>1. ASSUME NEW c \in Callers, NEW req \in Requests, HandleRequest(c, req)
        PROVE  ModeReady'
    BY <1>1 DEF HandleRequest, Unshared, Switching, Simulated, NoDecision
  <1>2. ASSUME NEW c \in Callers, DecideWithoutEngine(c) PROVE ModeReady'
    BY <1>2 DEF DecideWithoutEngine, Recover, incrementStat, Unshared
  <1>3. ASSUME NEW c \in Callers, Decide(c) PROVE ModeReady'
    BY <1>3 DEF Decide, Unshared
  <1>4. ASSUME NEW c \in Callers, CacheDecision(c) PROVE ModeReady'
    BY <1>4 DEF CacheDecision, Unshared
  <1>5. ASSUME NEW c \in Callers, ModifyPanics(c) PROVE ModeReady'
    BY <1>5 DEF ModifyPanics, Recover, incrementStat, Unshared
  <1>6. ASSUME NEW c \in Callers, Route(c) PROVE ModeReady'
    BY <1>6 DEF Route, Unshared
  <1>7. ASSUME NEW c \in Callers, TransparentNotReady(c) PROVE ModeReady'
    BY <1>7 DEF TransparentNotReady, Unshared, Simulated
  <1>8. ASSUME NEW c \in Callers, TrackConnection(c) PROVE ModeReady'
    BY <1>8 DEF TrackConnection, Unshared, trackConnection
  <1>9. ASSUME NEW c \in Callers, Observe(c) PROVE ModeReady'
    BY <1>9 DEF Observe, Unshared
  <1>10. ASSUME NEW c \in Callers, NEW d \in Callers, ConcurrentMapAccess(c, d)
        PROVE  ModeReady'
    BY <1>10 DEF ConcurrentMapAccess
  <1>11. ASSUME NEW m \in Modes, SwitchMode(m) PROVE ModeReady'
    BY <1>11 DEF SwitchMode, Unhandled, Idle, Tear, Enabled
  <1>12. ASSUME NEW r \in CustomRules, AddDecisionRule(r) PROVE ModeReady'
    BY <1>12 DEF AddDecisionRule, Unhandled, Idle
  <1>13. CASE StoreMode
    BY <1>13 DEF StoreMode, Unhandled
  <1>14. CASE StoreConfigMode
    BY <1>14 DEF StoreConfigMode, Unhandled, Idle
  <1>15. CASE InitEngine
    BY <1>15 DEF InitEngine, Unhandled, NewEngine
  <1>16. CASE InitModifier
    BY <1>16 DEF InitModifier, Unhandled
  <1>17. CASE InitRule
    BY <1>17 DEF InitRule, Unhandled, Idle
  <1>18. CASE InitHandler
    BY <1>18 DEF InitHandler, Unhandled, Idle, NewTransparentModeHandler, NoHandler
  <1>19. CASE SwapRules \/ SortEnds
    BY <1>19, SortEffect DEF Unhandled
  <1>20. CASE ClearDecisionCache
    BY <1>20 DEF ClearDecisionCache, Unhandled
  <1>21. CASE Close
    BY <1>21 DEF Close, Unhandled
  <1>22. CASE UNCHANGED vars
    BY <1>22 DEF vars
  <1> QED
    BY <1>1, <1>2, <1>3, <1>4, <1>5, <1>6, <1>7, <1>8, <1>9, <1>10, <1>11, <1>12, <1>13,
         <1>14, <1>15, <1>16, <1>17, <1>18, <1>19, <1>20, <1>21, <1>22
       DEF Next, Caller, Operator

(* Every step keeps the modes in effect among those a request has seen. *)
LEMMA ModesSeenStep ==
    ASSUME Shape, ModeStored, ModesSeen, [Next]_vars
    PROVE  ModesSeen'
  <1> USE DEF Shape, CallFields, ModeStored, ModesSeen, SwitchSteps, Modes, Torn, Active
  <1>1. ASSUME NEW c \in Callers, NEW req \in Requests, HandleRequest(c, req)
        PROVE  ModesSeen'
    BY <1>1 DEF HandleRequest, Unshared, Switching, Simulated, NoDecision
  <1>2. ASSUME NEW c \in Callers, DecideWithoutEngine(c) PROVE ModesSeen'
    BY <1>2 DEF DecideWithoutEngine, Recover, incrementStat, Unshared
  <1>3. ASSUME NEW c \in Callers, Decide(c) PROVE ModesSeen'
    BY <1>3 DEF Decide, Unshared
  <1>4. ASSUME NEW c \in Callers, CacheDecision(c) PROVE ModesSeen'
    BY <1>4 DEF CacheDecision, Unshared
  <1>5. ASSUME NEW c \in Callers, ModifyPanics(c) PROVE ModesSeen'
    BY <1>5 DEF ModifyPanics, Recover, incrementStat, Unshared
  <1>6. ASSUME NEW c \in Callers, Route(c) PROVE ModesSeen'
    BY <1>6 DEF Route, Unshared
  <1>7. ASSUME NEW c \in Callers, TransparentNotReady(c) PROVE ModesSeen'
    BY <1>7 DEF TransparentNotReady, Unshared, Simulated
  <1>8. ASSUME NEW c \in Callers, TrackConnection(c) PROVE ModesSeen'
    BY <1>8 DEF TrackConnection, Unshared, trackConnection
  <1>9. ASSUME NEW c \in Callers, Observe(c) PROVE ModesSeen'
    BY <1>9 DEF Observe, Unshared
  <1>10. ASSUME NEW c \in Callers, NEW d \in Callers, ConcurrentMapAccess(c, d)
        PROVE  ModesSeen'
    BY <1>10 DEF ConcurrentMapAccess
  <1>11. ASSUME NEW m \in Modes, SwitchMode(m) PROVE ModesSeen'
    <2>1. \A c \in Callers :
            /\ call'[c].pc = call[c].pc /\ call'[c].via = call[c].via
            /\ call'[c].decision = call[c].decision /\ call'[c].outcome = call[c].outcome
            /\ Active(c) => call'[c].seen = call[c].seen \cup {m} /\ call'[c].switched = TRUE
            /\ ~Active(c) => call'[c] = call[c]
      BY <1>11, SwitchEffect
    <2>2. /\ mode' \in {m, Torn} /\ cfgMode' = cfgMode /\ op'.to = m
      BY <1>11 DEF SwitchMode, Tear, Idle
    <2> QED  BY <2>1, <2>2
  <1>12. ASSUME NEW r \in CustomRules, AddDecisionRule(r) PROVE ModesSeen'
    BY <1>12 DEF AddDecisionRule, Unhandled, Idle
  <1>13. CASE StoreMode
    BY <1>13 DEF StoreMode, Unhandled
  <1>14. CASE StoreConfigMode
    BY <1>14 DEF StoreConfigMode, Unhandled, Idle
  <1>15. CASE InitEngine
    BY <1>15 DEF InitEngine, Unhandled, NewEngine
  <1>16. CASE InitModifier
    BY <1>16 DEF InitModifier, Unhandled
  <1>17. CASE InitRule
    BY <1>17 DEF InitRule, Unhandled, Idle
  <1>18. CASE InitHandler
    BY <1>18 DEF InitHandler, Unhandled, Idle, NewTransparentModeHandler, NoHandler
  <1>19. CASE SwapRules \/ SortEnds
    BY <1>19, SortEffect DEF Unhandled
  <1>20. CASE ClearDecisionCache
    BY <1>20 DEF ClearDecisionCache, Unhandled
  <1>21. CASE Close
    BY <1>21 DEF Close, Unhandled
  <1>22. CASE UNCHANGED vars
    BY <1>22 DEF vars
  <1> QED
    BY <1>1, <1>2, <1>3, <1>4, <1>5, <1>6, <1>7, <1>8, <1>9, <1>10, <1>11, <1>12, <1>13,
         <1>14, <1>15, <1>16, <1>17, <1>18, <1>19, <1>20, <1>21, <1>22
       DEF Next, Caller, Operator

(* Every step keeps the record of an overlap a Boolean. *)
LEMMA SwitchedStep ==
    ASSUME Shape, SwitchedBoolean, [Next]_vars
    PROVE  SwitchedBoolean'
  <1> USE DEF Shape, CallFields, SwitchedBoolean, Active
  <1>1. ASSUME NEW c \in Callers, NEW req \in Requests, HandleRequest(c, req)
        PROVE  SwitchedBoolean'
    <2>1. Switching \in BOOLEAN
      BY DEF Switching
    <2>2. call'[c].switched = Switching /\ \A d \in Callers \ {c} : call'[d] = call[d]
      BY <1>1 DEF HandleRequest
    <2> QED  BY <2>1, <2>2
  <1>2. ASSUME NEW c \in Callers, DecideWithoutEngine(c) PROVE SwitchedBoolean'
    BY <1>2 DEF DecideWithoutEngine, Recover, incrementStat, Unshared
  <1>3. ASSUME NEW c \in Callers, Decide(c) PROVE SwitchedBoolean'
    BY <1>3 DEF Decide, Unshared
  <1>4. ASSUME NEW c \in Callers, CacheDecision(c) PROVE SwitchedBoolean'
    BY <1>4 DEF CacheDecision, Unshared
  <1>5. ASSUME NEW c \in Callers, ModifyPanics(c) PROVE SwitchedBoolean'
    BY <1>5 DEF ModifyPanics, Recover, incrementStat, Unshared
  <1>6. ASSUME NEW c \in Callers, Route(c) PROVE SwitchedBoolean'
    BY <1>6 DEF Route, Unshared
  <1>7. ASSUME NEW c \in Callers, TransparentNotReady(c) PROVE SwitchedBoolean'
    BY <1>7 DEF TransparentNotReady, Unshared, Simulated
  <1>8. ASSUME NEW c \in Callers, TrackConnection(c) PROVE SwitchedBoolean'
    BY <1>8 DEF TrackConnection, Unshared, trackConnection
  <1>9. ASSUME NEW c \in Callers, Observe(c) PROVE SwitchedBoolean'
    BY <1>9 DEF Observe, Unshared
  <1>10. ASSUME NEW c \in Callers, NEW d \in Callers, ConcurrentMapAccess(c, d)
        PROVE  SwitchedBoolean'
    BY <1>10 DEF ConcurrentMapAccess
  <1>11. ASSUME NEW m \in Modes, SwitchMode(m) PROVE SwitchedBoolean'
    BY <1>11 DEF SwitchMode, Unhandled, Idle, Tear, Enabled
  <1>12. ASSUME NEW r \in CustomRules, AddDecisionRule(r) PROVE SwitchedBoolean'
    BY <1>12 DEF AddDecisionRule, Unhandled, Idle
  <1>13. CASE StoreMode
    BY <1>13 DEF StoreMode, Unhandled
  <1>14. CASE StoreConfigMode
    BY <1>14 DEF StoreConfigMode, Unhandled, Idle
  <1>15. CASE InitEngine
    BY <1>15 DEF InitEngine, Unhandled, NewEngine
  <1>16. CASE InitModifier
    BY <1>16 DEF InitModifier, Unhandled
  <1>17. CASE InitRule
    BY <1>17 DEF InitRule, Unhandled, Idle
  <1>18. CASE InitHandler
    BY <1>18 DEF InitHandler, Unhandled, Idle, NewTransparentModeHandler, NoHandler
  <1>19. CASE SwapRules \/ SortEnds
    BY <1>19, SortEffect DEF Unhandled
  <1>20. CASE ClearDecisionCache
    BY <1>20 DEF ClearDecisionCache, Unhandled
  <1>21. CASE Close
    BY <1>21 DEF Close, Unhandled
  <1>22. CASE UNCHANGED vars
    BY <1>22 DEF vars
  <1> QED
    BY <1>1, <1>2, <1>3, <1>4, <1>5, <1>6, <1>7, <1>8, <1>9, <1>10, <1>11, <1>12, <1>13,
         <1>14, <1>15, <1>16, <1>17, <1>18, <1>19, <1>20, <1>21, <1>22
       DEF Next, Caller, Operator

(* Every step leaves a request that no SwitchMode overlaps on its way. *)
LEMMA UndisturbedStep ==
    ASSUME Shape, ModeStored, ModeReady, ModesSeen, Undisturbed, [Next]_vars
    PROVE  Undisturbed'
  <1> USE DEF Shape, CallFields, ModeStored, ModeReady, ModesSeen, Undisturbed,
       SwitchSteps, Modes, Torn, Active
  <1>1. ASSUME NEW c \in Callers, NEW req \in Requests, HandleRequest(c, req)
        PROVE  Undisturbed'
    BY <1>1 DEF HandleRequest, Unshared, Switching, Simulated, NoDecision
  <1>2. ASSUME NEW c \in Callers, DecideWithoutEngine(c) PROVE Undisturbed'
    BY <1>2 DEF DecideWithoutEngine, Recover, incrementStat, Unshared
  <1>3. ASSUME NEW c \in Callers, Decide(c) PROVE Undisturbed'
    BY <1>3 DEF Decide, Unshared
  <1>4. ASSUME NEW c \in Callers, CacheDecision(c) PROVE Undisturbed'
    BY <1>4 DEF CacheDecision, Unshared
  <1>5. ASSUME NEW c \in Callers, ModifyPanics(c) PROVE Undisturbed'
    BY <1>5 DEF ModifyPanics, Recover, incrementStat, Unshared
  <1>6. ASSUME NEW c \in Callers, Route(c) PROVE Undisturbed'
    BY <1>6 DEF Route, Unshared
  <1>7. ASSUME NEW c \in Callers, TransparentNotReady(c) PROVE Undisturbed'
    BY <1>7 DEF TransparentNotReady, Unshared, Simulated
  <1>8. ASSUME NEW c \in Callers, TrackConnection(c) PROVE Undisturbed'
    BY <1>8 DEF TrackConnection, Unshared, trackConnection
  <1>9. ASSUME NEW c \in Callers, Observe(c) PROVE Undisturbed'
    BY <1>9 DEF Observe, Unshared
  <1>10. ASSUME NEW c \in Callers, NEW d \in Callers, ConcurrentMapAccess(c, d)
        PROVE  Undisturbed'
    BY <1>10 DEF ConcurrentMapAccess
  <1>11. ASSUME NEW m \in Modes, SwitchMode(m) PROVE Undisturbed'
    <2>1. \A c \in Callers :
            /\ call'[c].pc = call[c].pc /\ call'[c].via = call[c].via
            /\ call'[c].decision = call[c].decision /\ call'[c].outcome = call[c].outcome
            /\ Active(c) => call'[c].seen = call[c].seen \cup {m} /\ call'[c].switched = TRUE
            /\ ~Active(c) => call'[c] = call[c]
      BY <1>11, SwitchEffect
    <2> QED  BY <2>1
  <1>12. ASSUME NEW r \in CustomRules, AddDecisionRule(r) PROVE Undisturbed'
    BY <1>12 DEF AddDecisionRule, Unhandled, Idle
  <1>13. CASE StoreMode
    BY <1>13 DEF StoreMode, Unhandled
  <1>14. CASE StoreConfigMode
    BY <1>14 DEF StoreConfigMode, Unhandled, Idle
  <1>15. CASE InitEngine
    BY <1>15 DEF InitEngine, Unhandled, NewEngine
  <1>16. CASE InitModifier
    BY <1>16 DEF InitModifier, Unhandled
  <1>17. CASE InitRule
    BY <1>17 DEF InitRule, Unhandled, Idle
  <1>18. CASE InitHandler
    BY <1>18 DEF InitHandler, Unhandled, Idle, NewTransparentModeHandler, NoHandler
  <1>19. CASE SwapRules \/ SortEnds
    BY <1>19, SortEffect DEF Unhandled
  <1>20. CASE ClearDecisionCache
    BY <1>20 DEF ClearDecisionCache, Unhandled
  <1>21. CASE Close
    BY <1>21 DEF Close, Unhandled
  <1>22. CASE UNCHANGED vars
    BY <1>22 DEF vars
  <1> QED
    BY <1>1, <1>2, <1>3, <1>4, <1>5, <1>6, <1>7, <1>8, <1>9, <1>10, <1>11, <1>12, <1>13,
         <1>14, <1>15, <1>16, <1>17, <1>18, <1>19, <1>20, <1>21, <1>22
       DEF Next, Caller, Operator

(* Every step that answers a request obeys the decision. *)
LEMMA ObeyedStep ==
    ASSUME Shape, ModeStored, ModeReady, ModesSeen, Undisturbed, AllObeyed, [Next]_vars
    PROVE  AllObeyed'
  <1> USE DEF Shape, CallFields, ModeStored, ModeReady, ModesSeen, Undisturbed,
       AllObeyed, Obeyed, SwitchSteps, Modes, Torn, Active
  <1>1. ASSUME NEW c \in Callers, NEW req \in Requests, HandleRequest(c, req)
        PROVE  AllObeyed'
    BY <1>1 DEF HandleRequest, Unshared, Switching, Simulated, NoDecision
  <1>2. ASSUME NEW c \in Callers, DecideWithoutEngine(c) PROVE AllObeyed'
    BY <1>2 DEF DecideWithoutEngine, Recover, incrementStat, Unshared
  <1>3. ASSUME NEW c \in Callers, Decide(c) PROVE AllObeyed'
    BY <1>3 DEF Decide, Unshared
  <1>4. ASSUME NEW c \in Callers, CacheDecision(c) PROVE AllObeyed'
    BY <1>4 DEF CacheDecision, Unshared
  <1>5. ASSUME NEW c \in Callers, ModifyPanics(c) PROVE AllObeyed'
    BY <1>5 DEF ModifyPanics, Recover, incrementStat, Unshared
  <1>6. ASSUME NEW c \in Callers, Route(c) PROVE AllObeyed'
    <2>1. /\ \A d \in Callers \ {c} : call'[d] = call[d]
          /\ call'[c].decision = call[c].decision /\ call'[c].switched = call[c].switched
          /\ UNCHANGED config
      BY <1>6, RouteEffect DEF Route, Unshared
    <2>2. Active(c) /\ call[c].pc = "route"
      BY <1>6 DEF Route
    <2> DEFINE source == RouteRequest(cfgMode, call[c].req, call[c].decision.action)
               a == call[c].decision.action
    <2>3. call'[c].outcome = source \/ (call'[c].outcome = "sandboxed" /\ a = "modify")
      BY <1>6, RouteOutcome
    <2>4. ASSUME call[c].switched = FALSE
          PROVE  \/ cfgMode = "full" /\ a \notin {"block", "forward", "modify"}
                 \/ cfgMode = "half"
      BY <2>2, <2>4
    <2>5. /\ source \in {"real", "passthrough", "blocked", "simulated", "error"}
          /\ cfgMode = "half" /\ a = "block" => source = "blocked"
          /\ cfgMode = "half" /\ a \in {"forward", "modify"} => source = "real"
          /\ cfgMode \notin {"half", "transparent"} \/ (cfgMode = "half" /\
                a \notin {"block", "forward", "modify"}) => source \in {"simulated", "error"}
      BY RouteSource
    <2> HIDE DEF source
    <2>6. Obeyed(c)'
      BY <2>1, <2>3, <2>4, <2>5
    <2>7. \A d \in Callers \ {c} : Obeyed(d)'
      BY <2>1
    <2> QED  BY <2>6, <2>7
  <1>7. ASSUME NEW c \in Callers, TransparentNotReady(c) PROVE AllObeyed'
    BY <1>7 DEF TransparentNotReady, Unshared, Simulated
  <1>8. ASSUME NEW c \in Callers, TrackConnection(c) PROVE AllObeyed'
    BY <1>8 DEF TrackConnection, Unshared, trackConnection
  <1>9. ASSUME NEW c \in Callers, Observe(c) PROVE AllObeyed'
    BY <1>9 DEF Observe, Unshared
  <1>10. ASSUME NEW c \in Callers, NEW d \in Callers, ConcurrentMapAccess(c, d)
        PROVE  AllObeyed'
    BY <1>10 DEF ConcurrentMapAccess
  <1>11. ASSUME NEW m \in Modes, SwitchMode(m) PROVE AllObeyed'
    <2>1. \A c \in Callers :
            /\ call'[c].pc = call[c].pc /\ call'[c].via = call[c].via
            /\ call'[c].decision = call[c].decision /\ call'[c].outcome = call[c].outcome
            /\ Active(c) => call'[c].seen = call[c].seen \cup {m} /\ call'[c].switched = TRUE
            /\ ~Active(c) => call'[c] = call[c]
      BY <1>11, SwitchEffect
    <2>2. UNCHANGED config
      BY <1>11 DEF SwitchMode, Unhandled
    <2> QED  BY <2>1, <2>2
  <1>12. ASSUME NEW r \in CustomRules, AddDecisionRule(r) PROVE AllObeyed'
    BY <1>12 DEF AddDecisionRule, Unhandled, Idle
  <1>13. CASE StoreMode
    BY <1>13 DEF StoreMode, Unhandled
  <1>14. CASE StoreConfigMode
    BY <1>14 DEF StoreConfigMode, Unhandled, Idle
  <1>15. CASE InitEngine
    BY <1>15 DEF InitEngine, Unhandled, NewEngine
  <1>16. CASE InitModifier
    BY <1>16 DEF InitModifier, Unhandled
  <1>17. CASE InitRule
    BY <1>17 DEF InitRule, Unhandled, Idle
  <1>18. CASE InitHandler
    BY <1>18 DEF InitHandler, Unhandled, Idle, NewTransparentModeHandler, NoHandler
  <1>19. CASE SwapRules \/ SortEnds
    BY <1>19, SortEffect DEF Unhandled
  <1>20. CASE ClearDecisionCache
    BY <1>20 DEF ClearDecisionCache, Unhandled
  <1>21. CASE Close
    BY <1>21 DEF Close, Unhandled
  <1>22. CASE UNCHANGED vars
    BY <1>22 DEF vars
  <1> QED
    BY <1>1, <1>2, <1>3, <1>4, <1>5, <1>6, <1>7, <1>8, <1>9, <1>10, <1>11, <1>12, <1>13,
         <1>14, <1>15, <1>16, <1>17, <1>18, <1>19, <1>20, <1>21, <1>22
       DEF Next, Caller, Operator

(* Every step that answers a request from the real network has a reason to. *)
LEMMA IsolatedStep ==
    ASSUME Shape, ModeStored, ModesSeen, Isolated, [Next]_vars
    PROVE  Isolated'
  <1> USE DEF Shape, CallFields, ModeStored, ModesSeen, Isolated, Finished, External,
       SwitchSteps, Modes, Torn, Active
  <1>1. ASSUME NEW c \in Callers, NEW req \in Requests, HandleRequest(c, req)
        PROVE  Isolated'
    BY <1>1 DEF HandleRequest, Unshared, Switching, Simulated, NoDecision
  <1>2. ASSUME NEW c \in Callers, DecideWithoutEngine(c) PROVE Isolated'
    BY <1>2 DEF DecideWithoutEngine, Recover, incrementStat, Unshared
  <1>3. ASSUME NEW c \in Callers, Decide(c) PROVE Isolated'
    BY <1>3 DEF Decide, Unshared
  <1>4. ASSUME NEW c \in Callers, CacheDecision(c) PROVE Isolated'
    BY <1>4 DEF CacheDecision, Unshared
  <1>5. ASSUME NEW c \in Callers, ModifyPanics(c) PROVE Isolated'
    BY <1>5 DEF ModifyPanics, Recover, incrementStat, Unshared
  <1>6. ASSUME NEW c \in Callers, Route(c) PROVE Isolated'
    <2>1. /\ \A d \in Callers \ {c} : call'[d] = call[d]
          /\ call'[c].decision = call[c].decision /\ call'[c].seen = call[c].seen
      BY <1>6, RouteEffect
    <2>2. Active(c)
      BY <1>6 DEF Route
    <2> DEFINE source == RouteRequest(cfgMode, call[c].req, call[c].decision.action)
               a == call[c].decision.action
    <2>3. \/ call'[c].outcome = source
          \/ call'[c].outcome = "sandboxed" /\ call[c].via = "half" /\ a = "modify"
      BY <1>6, RouteOutcome
    <2>4. /\ source \in {"real", "passthrough", "blocked", "simulated", "error"}
          /\ source = "passthrough" => cfgMode = "transparent"
          /\ source = "real" => cfgMode = "half" /\ a \in {"forward", "modify"}
      BY RouteSource
    <2> HIDE DEF source
    <2>5. cfgMode \in Modes => cfgMode \in call[c].seen
      BY <2>2
    <2>6. call'[c].outcome \in External =>
            \/ "transparent" \in call[c].seen
            \/ "half" \in call[c].seen /\ a \in {"forward", "modify"}
      BY <2>2, <2>3, <2>4, <2>5
    <2> QED  BY <2>1, <2>6
  <1>7. ASSUME NEW c \in Callers, TransparentNotReady(c) PROVE Isolated'
    BY <1>7 DEF TransparentNotReady, Unshared, Simulated
  <1>8. ASSUME NEW c \in Callers, TrackConnection(c) PROVE Isolated'
    BY <1>8 DEF TrackConnection, Unshared, trackConnection
  <1>9. ASSUME NEW c \in Callers, Observe(c) PROVE Isolated'
    BY <1>9 DEF Observe, Unshared
  <1>10. ASSUME NEW c \in Callers, NEW d \in Callers, ConcurrentMapAccess(c, d)
        PROVE  Isolated'
    BY <1>10 DEF ConcurrentMapAccess
  <1>11. ASSUME NEW m \in Modes, SwitchMode(m) PROVE Isolated'
    <2>1. \A c \in Callers :
            /\ call'[c].pc = call[c].pc /\ call'[c].via = call[c].via
            /\ call'[c].decision = call[c].decision /\ call'[c].outcome = call[c].outcome
            /\ Active(c) => call'[c].seen = call[c].seen \cup {m} /\ call'[c].switched = TRUE
            /\ ~Active(c) => call'[c] = call[c]
      BY <1>11, SwitchEffect
    <2>2. \A c \in Callers : call'[c].pc = "done" => ~Active(c)
      BY <2>1
    <2> QED  BY <2>1, <2>2
  <1>12. ASSUME NEW r \in CustomRules, AddDecisionRule(r) PROVE Isolated'
    BY <1>12 DEF AddDecisionRule, Unhandled, Idle
  <1>13. CASE StoreMode
    BY <1>13 DEF StoreMode, Unhandled
  <1>14. CASE StoreConfigMode
    BY <1>14 DEF StoreConfigMode, Unhandled, Idle
  <1>15. CASE InitEngine
    BY <1>15 DEF InitEngine, Unhandled, NewEngine
  <1>16. CASE InitModifier
    BY <1>16 DEF InitModifier, Unhandled
  <1>17. CASE InitRule
    BY <1>17 DEF InitRule, Unhandled, Idle
  <1>18. CASE InitHandler
    BY <1>18 DEF InitHandler, Unhandled, Idle, NewTransparentModeHandler, NoHandler
  <1>19. CASE SwapRules \/ SortEnds
    BY <1>19, SortEffect DEF Unhandled
  <1>20. CASE ClearDecisionCache
    BY <1>20 DEF ClearDecisionCache, Unhandled
  <1>21. CASE Close
    BY <1>21 DEF Close, Unhandled
  <1>22. CASE UNCHANGED vars
    BY <1>22 DEF vars
  <1> QED
    BY <1>1, <1>2, <1>3, <1>4, <1>5, <1>6, <1>7, <1>8, <1>9, <1>10, <1>11, <1>12, <1>13,
         <1>14, <1>15, <1>16, <1>17, <1>18, <1>19, <1>20, <1>21, <1>22
       DEF Next, Caller, Operator

(* Every reachable state satisfies the invariant. *)
LEMMA ModeInvariant == Spec => []ModeInv
  <1>1. Init => ModeInv
    <2> SUFFICES ASSUME Init PROVE ModeInv
      OBVIOUS
    <2>1. Shape
      BY DEF Init, NewController, Shape, CallFields, NoCall, NewEngine, NoHandler,
             NewTransparentModeHandler, Idle, SwitchSteps
    <2>2. ModeStored
      BY DEF Init, NewController, ModeStored, Idle, SwitchSteps
    <2>3. ModeReady
      BY DEF Init, NewController, ModeReady, NewEngine, NoHandler,
             NewTransparentModeHandler, Idle, SwitchSteps, Validate
    <2>4. \A c \in Callers : call[c].pc = "idle" /\ call[c].switched = FALSE
      BY DEF Init, NoCall
    <2> QED  BY <2>1, <2>2, <2>3, <2>4 DEF ModeInv, ModesSeen, Undisturbed, SwitchedBoolean,
                AllObeyed, Obeyed, Isolated, Finished, Active
  <1>2. ModeInv /\ [Next]_vars => ModeInv'
    BY ShapeStep, ModeStoredStep, ModeReadyStep, ModesSeenStep, SwitchedStep,
       UndisturbedStep, ObeyedStep, IsolatedStep DEF ModeInv
  <1> QED  BY <1>1, <1>2, PTL DEF Spec

(* Full Mode isolates even while the mode is switched, for any number of requests
   and switches that overlap: a response from the real network is given only to a
   request during which Transparent Mode was in effect, or Half Mode with a
   decision to forward or to modify (controller.go, router.go). *)
THEOREM FullModeIsolates == Spec => []Isolated
  BY ModeInvariant, PTL DEF ModeInv

(* Unless SwitchMode ran during the request, the source of a response is the one
   of the decision attached to it (controller.go, router.go). *)
THEOREM DecisionsAreObeyed == Spec => []DecisionObeyed
  <1>1. ASSUME ModeInv PROVE DecisionObeyed
    <2> SUFFICES ASSUME NEW c \in Callers, call[c].pc = "done", ~call[c].switched,
                        call[c].outcome # "error"
                 PROVE  LET a == call[c].decision.action IN
                        IF call[c].outcome = "nothing" THEN config.modifier = "nil"
                        ELSE CASE a = "block" -> call[c].outcome = "blocked"
                               [] a = "forward" -> call[c].outcome \in {"real", "passthrough"}
                               [] a = "modify" -> call[c].outcome \in {"real", "sandboxed"}
                               [] OTHER -> call[c].outcome = "simulated"
      BY DEF DecisionObeyed, Finished
    <2>1. call[c].switched = FALSE
      BY <1>1 DEF ModeInv, SwitchedBoolean
    <2>2. Obeyed(c)
      BY <1>1 DEF ModeInv, AllObeyed
    <2> DEFINE a == call[c].decision.action
    <2>3. CASE call[c].outcome = "nothing"
      BY <2>1, <2>2, <2>3 DEF Obeyed
    <2>4. CASE call[c].outcome # "nothing" /\ a = "block"
      BY <2>1, <2>2, <2>4 DEF Obeyed
    <2>5. CASE call[c].outcome # "nothing" /\ a = "forward"
      BY <2>1, <2>2, <2>5 DEF Obeyed
    <2>6. CASE call[c].outcome # "nothing" /\ a = "modify"
      BY <2>1, <2>2, <2>6 DEF Obeyed
    <2>7. CASE call[c].outcome # "nothing" /\ a \notin {"block", "forward", "modify"}
      BY <2>1, <2>2, <2>7 DEF Obeyed
    <2> QED  BY <2>3, <2>4, <2>5, <2>6, <2>7
  <1> QED  BY <1>1, ModeInvariant, PTL

(* With a complete configuration, Health has nothing to report whenever the
   operator is idle, and the router's copy of the mode is the mode. *)
THEOREM SwitchIsComplete == Spec => []ComponentsReady
  <1>1. ModeInv => ComponentsReady
    BY DEF ModeInv, ModeStored, ModeReady, ComponentsReady, CompleteConfig, Health,
         Validate,
           SwitchSteps, Modes
  <1> QED  BY <1>1, ModeInvariant, PTL

-----------------------------------------------------------------------------
(* The order of the rules while they are sorted: of the pairs that the exchange sort
   is past, the first has the higher priority. *)
AnyRule == CustomRules \cup {DefaultRules[k] : k \in DOMAIN DefaultRules}

SortedTo(i, j) ==
    \A k, l \in DOMAIN engine.rules :
        k < l /\ (k < i \/ (k = i /\ l <= j)) =>
            engine.rules[k].priority >= engine.rules[l].priority

RulesInv ==
    /\ engine.rules \in Seq(AnyRule)
    /\ op.pc \in {"rules", "order"} => op.next \in DOMAIN DefaultRules
    /\ op.pc \in {"sort", "order"} => op.i \in Nat /\ op.j \in Nat /\ SortedTo(op.i, op.j)
    /\ op.pc \notin {"sort", "order"} => RulesOrdered

(* The default rules are in order. *)
LEMMA DefaultRulesOrdered ==
    /\ Len(DefaultRules) = 5 /\ DOMAIN DefaultRules = 1 .. 5
    /\ \A k \in 1 .. 5 : DefaultRules[k].priority \in Int
    /\ \A k, l \in 1 .. 5 : k < l => DefaultRules[k].priority >= DefaultRules[l].priority
  <1>1. /\ DefaultRules[1].priority = 100 /\ DefaultRules[2].priority = 90
        /\ DefaultRules[3].priority = 80 /\ DefaultRules[4].priority = 70
        /\ DefaultRules[5].priority = 1
    BY DEF DefaultRules, Rule
  <1>2. Len(DefaultRules) = 5 /\ DOMAIN DefaultRules = 1 .. 5
    BY DEF DefaultRules
  <1>3. \A k \in 1 .. 5 : k = 1 \/ k = 2 \/ k = 3 \/ k = 4 \/ k = 5
    OBVIOUS
  <1> HIDE DEF DefaultRules
  <1> QED  BY <1>1, <1>2, <1>3

(* Every rule is one of the operator's or a default one, and has a priority. *)
LEMMA RulesTyped ==
    ASSUME RulesInv
    PROVE  /\ Len(engine.rules) \in Nat /\ DOMAIN engine.rules = 1 .. Len(engine.rules)
           /\ \A k \in DOMAIN engine.rules :
                engine.rules[k] \in AnyRule /\ engine.rules[k].priority \in Int
  <1>1. \A r \in AnyRule : r.priority \in Int
    BY DefaultRulesOrdered, RulesAssumption DEF AnyRule
  <1> QED  BY <1>1 DEF RulesInv

(* A rule is added at the end, and the sort begins. *)
LEMMA AddedRule ==
    ASSUME Shape, RulesInv, NEW r \in AnyRule, engine'.rules = Append(engine.rules, r),
           op'.pc \in {"sort", "order"}, op'.i = 1, op'.j = 1, op'.next = op.next,
           op'.pc = "order" => op.pc = "rules"
    PROVE  RulesInv'
  <1>1. engine'.rules \in Seq(AnyRule) /\ DOMAIN engine'.rules \subseteq Nat \ {0}
    BY DEF RulesInv
  <1>2. SortedTo(1, 1)'
    BY <1>1 DEF SortedTo
  <1> QED  BY <1>1, <1>2 DEF RulesInv

(* An exchange leaves the pairs before it and the pair itself in order. *)
LEMMA SwapStep ==
    ASSUME Shape, RulesInv, SwapRules
    PROVE  RulesInv'
  <1> DEFINE pri(k) == engine.rules[k].priority
             n == Len(engine.rules)
  <1>1. PICK i, j \in DOMAIN engine.rules :
            /\ Due(i, j)
            /\ \A k, l \in DOMAIN engine.rules : Due(k, l) => i < k \/ (i = k /\ j <= l)
            /\ engine' = [engine EXCEPT !.rules[i] = engine.rules[j], !.rules[j] = engine.rules[i]]
            /\ op' = [op EXCEPT !.i = i, !.j = j]
    BY DEF SwapRules
  <1>2. n \in Nat /\ DOMAIN engine.rules = 1 .. n /\ \A k \in 1 .. n : pri(k) \in Int
    BY RulesTyped
  <1>3. /\ op.pc \in {"sort", "order"} /\ op'.pc = op.pc /\ op'.next = op.next
        /\ op'.i = i /\ op'.j = j /\ i \in Nat /\ j \in Nat
    BY <1>1, <1>2 DEF Shape, SwapRules
  <1>4. i < j /\ pri(j) > pri(i) /\ op.i \in Nat /\ op.j \in Nat /\ SortedTo(op.i, op.j)
    BY <1>1, <1>3 DEF Due, RulesInv
  <1>5. ASSUME NEW k \in 1 .. n, NEW l \in 1 .. n, k < l, k < i \/ (k = i /\ l < j)
        PROVE  pri(k) >= pri(l)
    <2>1. ~Due(k, l)
      BY <1>1, <1>2, <1>4, <1>5
    <2>2. CASE op.i < k \/ (op.i = k /\ op.j < l)
      BY <1>2, <1>5, <2>1, <2>2 DEF Due
    <2>3. CASE k < op.i \/ (k = op.i /\ l <= op.j)
      BY <1>2, <1>4, <1>5, <2>3 DEF SortedTo
    <2> QED  BY <1>2, <1>4, <2>2, <2>3
  <1>6. /\ engine'.rules \in Seq(AnyRule) /\ DOMAIN engine'.rules = 1 .. n
        /\ engine'.rules[i] = engine.rules[j] /\ engine'.rules[j] = engine.rules[i]
        /\ \A k \in (1 .. n) \ {i, j} : engine'.rules[k] = engine.rules[k]
    <2>1. engine'.rules = [engine.rules EXCEPT ![i] = engine.rules[j], ![j] = engine.rules[i]]
      BY <1>1 DEF Shape
    <2> QED  BY <1>2, <1>4, <2>1 DEF RulesInv
  <1>7. SortedTo(i, j)'
    <2> DEFINE new(k) == engine'.rules[k].priority
    <2> SUFFICES ASSUME NEW k \in 1 .. n, NEW l \in 1 .. n, k < l, k < i \/ (k = i /\ l <= j)
                 PROVE  new(k) >= new(l)
      BY <1>6 DEF SortedTo
    <2>1. /\ new(i) = pri(j) /\ new(j) = pri(i)
          /\ \A m \in (1 .. n) \ {i, j} : new(m) = pri(m)
      BY <1>6
    <2> HIDE DEF new
    <2>2. CASE k < i
      <3>1. new(k) = pri(k) /\ pri(k) >= pri(i) /\ pri(k) >= pri(j)
        BY <1>2, <1>4, <1>5, <2>1, <2>2
      <3>2. l \notin {i, j} => new(l) = pri(l) /\ pri(k) >= pri(l)
        BY <1>5, <2>1, <2>2
      <3> QED  BY <2>1, <3>1, <3>2
    <2>3. CASE k = i /\ l < j
      <3>1. new(l) = pri(l) /\ pri(i) >= pri(l)
        BY <1>2, <1>4, <1>5, <2>1, <2>3
      <3> QED  BY <1>2, <1>4, <2>1, <2>3, <3>1
    <2>4. CASE k = i /\ l = j
      BY <1>2, <1>4, <2>1, <2>4
    <2> QED  BY <1>2, <2>2, <2>3, <2>4
  <1> QED  BY <1>3, <1>6, <1>7 DEF RulesInv

(* Every step keeps the rules as far in order as the sort has come. *)
LEMMA RulesStep ==
    ASSUME Shape, RulesInv, [Next]_vars
    PROVE  RulesInv'
  <1>1. CASE engine'.rules = engine.rules /\ UNCHANGED op
    BY <1>1 DEF RulesInv, SortedTo, RulesOrdered
  <1>2. ASSUME NEW c \in Callers, Caller(c)
        PROVE  engine'.rules = engine.rules /\ UNCHANGED op
    BY <1>2 DEF Caller, HandleRequest, DecideWithoutEngine, Decide, CacheDecision,
         ModifyPanics,
                Recover, Route, TransparentNotReady, TrackConnection, Observe, Unshared, Shape
  <1>3. ASSUME engine'.rules = engine.rules, op.pc \notin {"rules", "order", "sort"},
               op'.pc \notin {"rules", "order", "sort"}
        PROVE  RulesInv'
    BY <1>3 DEF RulesInv, RulesOrdered
  <1>4. ASSUME NEW m \in Modes, SwitchMode(m) PROVE RulesInv'
    BY <1>3, <1>4 DEF SwitchMode, Idle
  <1>5. CASE StoreMode \/ StoreConfigMode \/ InitHandler
    BY <1>3, <1>5 DEF StoreMode, StoreConfigMode, InitHandler, Idle, Shape
  <1>6. CASE InitEngine
    <2> DEFINE none == << >>
    <2>1. engine'.rules = none /\ op'.pc = "modifier" /\ none \in Seq(AnyRule)
      BY <1>6 DEF InitEngine, NewEngine, Shape
    <2> QED  BY <2>1 DEF RulesInv, RulesOrdered
  <1>7. CASE InitModifier
    <2>1. op'.pc = "rules" /\ op'.next = 1 /\ engine' = engine /\ op.pc = "modifier"
      BY <1>7 DEF InitModifier, Shape
    <2> QED  BY <2>1, DefaultRulesOrdered DEF RulesInv, RulesOrdered
  <1>8. CASE InitRule
    <2>1. op.next \in DOMAIN DefaultRules
      BY <1>8 DEF InitRule, RulesInv
    <2>2. /\ engine'.rules = Append(engine.rules, DefaultRules[op.next])
          /\ op.pc = "rules" /\ op'.pc = "order" /\ op'.i = 1 /\ op'.j = 1 /\ op'.next = op.next
      BY <1>8 DEF InitRule, Shape
    <2>3. DefaultRules[op.next] \in AnyRule
      BY <2>1 DEF AnyRule
    <2> QED  BY <2>2, <2>3, AddedRule
  <1>9. ASSUME NEW r \in CustomRules, AddDecisionRule(r) PROVE RulesInv'
    <2>1. /\ engine'.rules = Append(engine.rules, r) /\ engine.rules \in Seq(AnyRule)
          /\ op'.pc = "sort" /\ op'.i = 1 /\ op'.j = 1 /\ r \in AnyRule
      BY <1>9 DEF AddDecisionRule, Shape, Idle, AnyRule, RulesInv
    <2>2. engine'.rules \in Seq(AnyRule) /\ DOMAIN engine'.rules \subseteq Nat \ {0}
      BY <2>1
    <2>3. SortedTo(1, 1)'
      BY <2>2 DEF SortedTo
    <2> QED  BY <2>1, <2>2, <2>3 DEF RulesInv
  <1>10. CASE SortEnds
    <2>1. /\ op.pc \in {"sort", "order"} /\ engine' = engine
          /\ \A i, j \in DOMAIN engine.rules : ~Due(i, j)
          /\ op' = IF op.pc = "sort" \/ op.next = Len(DefaultRules) THEN Idle
                   ELSE [op EXCEPT !.pc = "rules", !.next = @ + 1]
      BY <1>10 DEF SortEnds
    <2>2. op.i \in Nat /\ op.j \in Nat /\ SortedTo(op.i, op.j)
      BY <2>1 DEF RulesInv
    <2>3. RulesOrdered
      BY <2>1, <2>2, RulesTyped DEF RulesOrdered, Due, SortedTo
    <2>4. op'.pc \in {"idle", "rules"} /\ (op'.pc = "rules" => op'.next \in DOMAIN DefaultRules)
      BY <2>1, DefaultRulesOrdered DEF RulesInv, Idle, Shape
    <2> QED  BY <2>1, <2>3, <2>4 DEF RulesInv, RulesOrdered
  <1>11. CASE ClearDecisionCache \/ Close \/ UNCHANGED vars
    BY <1>1, <1>11 DEF ClearDecisionCache, Close, vars, Shape
  <1>12. ASSUME NEW c \in Callers, NEW d \in Callers, ConcurrentMapAccess(c,
       d) PROVE RulesInv'
    BY <1>1, <1>12 DEF ConcurrentMapAccess
  <1> QED  BY <1>1, <1>2, <1>4, <1>5, <1>6, <1>7, <1>8, <1>9, <1>10, <1>11, <1>12,
       SwapStep
           DEF Next, Operator

(* Every reachable state satisfies it. *)
LEMMA RulesInvariant == Spec => []RulesInv
  <1>1. Init => RulesInv
    <2> SUFFICES ASSUME Init PROVE RulesInv
      OBVIOUS
    <2> DEFINE none == << >>
    <2>1. none \in Seq(AnyRule)
      OBVIOUS
    <2>2. DefaultRules \in Seq(AnyRule)
      <3>1. DefaultRules \in [1 .. 5 -> AnyRule]
        <4>1. DefaultRules = [k \in DOMAIN DefaultRules |-> DefaultRules[k]]
          BY DEF DefaultRules
        <4> QED  BY <4>1, DefaultRulesOrdered DEF AnyRule
      <3> QED  BY <3>1, SeqDef
    <2>3. op.pc = "idle" /\ (engine.rules = none \/ engine.rules = DefaultRules)
      BY DEF Init, NewController, NewEngine, Idle
    <2>4. RulesOrdered
      BY <2>3, DefaultRulesOrdered DEF RulesOrdered
    <2> QED  BY <2>1, <2>2, <2>3, <2>4 DEF RulesInv
  <1>2. ModeInv /\ RulesInv /\ [Next]_vars => RulesInv'
    BY RulesStep DEF ModeInv
  <1> QED  BY <1>1, <1>2, ModeInvariant, PTL DEF Spec

(* Whenever the operator is idle the rules are in the order of their priorities and,
   with a complete configuration, Health has nothing to report: whatever rules were
   added, however often the mode was switched (decision.go sortRulesByPriority,
   controller.go SwitchMode). *)
THEOREM IdleIsHealthy == Spec => []Healthy
  <1>1. RulesInv => (op.pc = "idle" => RulesOrdered)
    BY DEF RulesInv
  <1> QED  BY <1>1, RulesInvariant, SwitchIsComplete, PTL DEF Healthy

-----------------------------------------------------------------------------
(* The requests under way; those no action counter has counted; those whose packet is
   in the connection table and not yet in the handler's counters. *)
InProgress == {c \in Callers : Active(c)}

ToCount ==
    {c \in Callers : \/ call[c].pc \in {"half", "store", "transparent", "observe"}
                     \/ call[c].pc = "route" /\ call[c].via = "half"}

Observing == {c \in Callers : call[c].pc = "observe"}

Counters == stats.forwarded + stats.blocked + stats.modified + stats.simulated

(* Every request under way is one that was intercepted. *)
RequestsKnown == \A c \in Callers : Active(c) => call[c].req \in Requests

(* The counters and the two logs, with requests under way. *)
StatsKept ==
    /\ stats \in Stats /\ logged \in [traffic : Nat, decisions : Nat]
    /\ IsFiniteSet(InProgress)
    /\ Counters + Cardinality(ToCount) <= stats.total
    /\ EveryActionCounted => Counters + stats.errors + Cardinality(ToCount) >= stats.total
    /\ ~closed /\ config.logAll =>
            logged.traffic + stats.errors + Cardinality(InProgress) = stats.total
    /\ ~closed /\ config.logDecisions => logged.decisions >= stats.blocked + stats.modified

(* A decision is one that Counted counts: in the rules, in the cache, in a request. *)
Countable(d) == d.action \in {"forward", "block", "simulate"} \/ Modifies(d)

DecisionsCountable ==
    /\ DOMAIN engine.cache = Keys
    /\ EveryActionCounted =>
        /\ \A k \in DOMAIN engine.rules : Countable(DecisionOf(engine.rules[k]))
        /\ \A k \in Keys : engine.cache[k] = NoDecision \/ Countable(engine.cache[k])
        /\ \A c \in Callers :
            call[c].pc \in {"store", "route"} /\ call[c].via = "half" => Countable(call[c].decision)

(* The connection table: its entries, its bytes and those of the packets that the
   handler's counters do not hold yet. *)
Tracked == {k \in ConnKeys : handler.conns[k] # Untracked}

Bytes(K, size) == UNION {{k} \X (1 .. size[k]) : k \in K}

TableBytes == Bytes(Tracked, handler.conns)

PendingBytes == Bytes(Observing, [c \in Callers |-> call[c].req.size])

TableKept ==
    /\ handler.conns \in [ConnKeys -> Nat \cup {Untracked}]
    /\ handler.total \in Nat /\ handler.bytes \in Nat
    /\ handler.events \in Nat /\ handler.payloads \in Nat
    /\ IsFiniteSet(Tracked) /\ IsFiniteSet(Observing)
    /\ IsFiniteSet(TableBytes) /\ IsFiniteSet(PendingBytes)
    /\ handler.total = Cardinality(Tracked)
    /\ handler.bytes + Cardinality(PendingBytes) = Cardinality(TableBytes)
    /\ handler.open /\ config.logConnections =>
        handler.events + Cardinality(Observing) >= handler.total /\ handler.events >= handler.payloads
    /\ Observing # {} => handler.ready
    /\ op.pc = "handler" => ~handler.ready

AccountInv == RequestsKnown /\ StatsKept /\ DecisionsCountable /\ TableKept

(* A set of numbers has a least one. *)
LEMMA LeastOfSet ==
    ASSUME NEW S, S \subseteq Nat, S # {}
    PROVE  \E n \in S : \A m \in S : n <= m
  <1>1. PICK n \in S : \A m \in S : ~(<<m, n>> \in OpToRel(<, Nat))
    BY NatLessThanWellFounded, WFMin
  <1>2. \A m \in S : ~(m < n)
    BY <1>1 DEF OpToRel
  <1> QED  BY <1>2

(* A set that one element may have entered or left. *)
LEMMA MemberMoves ==
    ASSUME NEW S, NEW T, NEW x, IsFiniteSet(S), T \ {x} = S \ {x}
    PROVE  /\ IsFiniteSet(T) /\ Cardinality(S) \in Nat /\ Cardinality(T) \in Nat
           /\ (x \in S <=> x \in T) => Cardinality(T) = Cardinality(S)
           /\ x \notin S /\ x \in T => Cardinality(T) = Cardinality(S) + 1
           /\ x \in S /\ x \notin T => Cardinality(T) = Cardinality(S) - 1
  <1>1. CASE x \in S <=> x \in T
    <2>1. S = T
      BY <1>1
    <2> QED  BY <1>1, <2>1, FS_CardinalityType
  <1>2. CASE x \notin S /\ x \in T
    <2>1. T = S \cup {x}
      BY <1>2
    <2> QED  BY <1>2, <2>1, FS_AddElement, FS_CardinalityType
  <1>3. CASE x \in S /\ x \notin T
    <2>1. T = S \ {x}
      BY <1>3
    <2> QED  BY <1>3, <2>1, FS_RemoveElement, FS_CardinalityType
  <1> QED  BY <1>1, <1>2, <1>3

(* A step of one request changes these sets at that request alone. *)
LEMMA RequestMoves ==
    ASSUME Shape, StatsKept, NEW c \in Callers,
           \A d \in Callers \ {c} : call'[d] = call[d]
    PROVE  /\ IsFiniteSet(InProgress')
           /\ Cardinality(InProgress) \in Nat /\ Cardinality(ToCount) \in Nat
           /\ Cardinality(InProgress') \in Nat /\ Cardinality(ToCount') \in Nat
           /\ (c \in InProgress <=> c \in InProgress') =>
                Cardinality(InProgress') = Cardinality(InProgress)
           /\ c \notin InProgress /\ c \in InProgress' =>
                Cardinality(InProgress') = Cardinality(InProgress) + 1
           /\ c \in InProgress /\ c \notin InProgress' =>
                Cardinality(InProgress') = Cardinality(InProgress) - 1
           /\ (c \in ToCount <=> c \in ToCount') => Cardinality(ToCount') = Cardinality(ToCount)
           /\ c \notin ToCount /\ c \in ToCount' => Cardinality(ToCount') = Cardinality(ToCount) + 1
           /\ c \in ToCount /\ c \notin ToCount' => Cardinality(ToCount') = Cardinality(ToCount) - 1
  <1>1. InProgress' \ {c} = InProgress \ {c} /\ ToCount' \ {c} = ToCount \ {c}
    BY DEF InProgress, ToCount, Active
  <1>2. IsFiniteSet(InProgress) /\ ToCount \subseteq InProgress
    BY DEF StatsKept, InProgress, ToCount, Active
  <1>3. IsFiniteSet(ToCount)
    BY <1>2, FS_Subset
  <1> QED  BY <1>1, <1>2, <1>3, MemberMoves

(* Nothing is counted while the calls, the counters and the logs stay. *)
LEMMA StatsSame ==
    ASSUME StatsKept, UNCHANGED <<config, stats, logged>>,
         closed' = closed \/ closed' = TRUE,
           \A c \in Callers : call'[c].pc = call[c].pc /\ call'[c].via = call[c].via
    PROVE  StatsKept'
  <1>1. InProgress' = InProgress /\ ToCount' = ToCount /\ Counters' = Counters
    BY DEF InProgress, ToCount, Active, Counters
  <1>2. EveryActionCounted' <=> EveryActionCounted
    BY DEF EveryActionCounted
  <1> QED  BY <1>1, <1>2 DEF StatsKept

(* A request is counted when it comes in, and at once as simulated in Full Mode. *)
LEMMA HandleCounts ==
    ASSUME Shape, StatsKept, NEW c \in Callers, NEW req \in Requests, HandleRequest(c,
         req)
    PROVE  StatsKept'
  <1> DEFINE full == mode \notin {"half", "transparent"}
  <1>1. /\ ~Active(c) /\ UNCHANGED <<config, closed, logged>>
        /\ stats' = [stats EXCEPT !.total = @ + 1, !.simulated = IF full THEN @ + 1 ELSE @]
        /\ \A d \in Callers \ {c} : call'[d] = call[d]
        /\ call'[c].pc = IF full THEN "route" ELSE mode
        /\ call'[c].via = IF full THEN "full" ELSE mode
    BY DEF HandleRequest, Unshared, Shape
  <1>2. /\ c \notin InProgress /\ c \notin ToCount /\ c \in InProgress'
        /\ full => c \notin ToCount'
        /\ ~full => c \in ToCount'
    BY <1>1 DEF InProgress, ToCount, Active
  <1>3. /\ stats' \in Stats /\ stats'.total = stats.total + 1
        /\ stats'.simulated = IF full THEN stats.simulated + 1 ELSE stats.simulated
        /\ stats'.forwarded = stats.forwarded /\ stats'.blocked = stats.blocked
        /\ stats'.modified = stats.modified /\ stats'.errors = stats.errors
    <2> DEFINE x == IF full THEN stats.simulated + 1 ELSE stats.simulated
    <2>1. stats \in Stats
      BY DEF StatsKept
    <2>2. /\ x \in Nat /\ stats.total + 1 \in Nat
          /\ stats' = [stats EXCEPT !.total = stats.total + 1, !.simulated = x]
      BY <1>1, <2>1 DEF Stats
    <2> HIDE DEF x
    <2>3. /\ stats' \in Stats /\ stats'.total = stats.total + 1 /\ stats'.simulated = x
          /\ stats'.forwarded = stats.forwarded /\ stats'.blocked = stats.blocked
          /\ stats'.modified = stats.modified /\ stats'.errors = stats.errors
      BY <2>1, <2>2 DEF Stats
    <2> QED  BY <2>3 DEF x
  <1>4. EveryActionCounted' <=> EveryActionCounted
    BY <1>1 DEF EveryActionCounted
  <1> QED  BY <1>1, <1>2, <1>3, <1>4, RequestMoves DEF StatsKept, Counters, Stats

(* A panic is an error, and the request is over. *)
LEMMA RecoverCounts ==
    ASSUME Shape, StatsKept, NEW c \in Callers, c \in ToCount, Recover(c),
           logged' = logged \/
             logged' = [logged EXCEPT !.decisions = @ + LogDecision(c)]
    PROVE  StatsKept'
  <1>1. /\ UNCHANGED <<config, closed>> /\ stats' = [stats EXCEPT !.errors = @ + 1]
        /\ \A d \in Callers \ {c} : call'[d] = call[d]
        /\ call'[c].pc = "done"
    BY DEF Recover, incrementStat, Unshared, Shape, CallFields
  <1>2. c \in InProgress /\ c \notin InProgress' /\ c \notin ToCount'
    BY <1>1 DEF InProgress, ToCount, Active
  <1>3. /\ stats' \in Stats /\ stats'.total = stats.total /\ stats'.errors = stats.errors + 1
        /\ stats'.simulated = stats.simulated /\ stats'.forwarded = stats.forwarded
        /\ stats'.blocked = stats.blocked /\ stats'.modified = stats.modified
    BY <1>1 DEF StatsKept, Stats
  <1>4. LogDecision(c) \in {0, 1}
    BY DEF LogDecision
  <1>5. /\ logged' \in [traffic : Nat, decisions : Nat] /\ logged'.traffic = logged.traffic
        /\ logged'.decisions >= logged.decisions
    BY <1>4 DEF StatsKept
  <1>6. EveryActionCounted' <=> EveryActionCounted
    BY <1>1 DEF EveryActionCounted
  <1> QED  BY <1>1, <1>2, <1>3, <1>5, <1>6, RequestMoves DEF StatsKept, Counters, Stats

(* What Counted adds for a routed request: one to one counter at most, and exactly one
   when its decision is countable and the router did not fail. *)
LEMMA CountedOnce ==
    ASSUME StatsKept, NEW c \in Callers, NEW s, NEW new, new = Counted(c, s)
    PROVE  LET half == call[c].via = "half"
               sum == new.forwarded + new.blocked + new.modified + new.simulated
           IN  /\ new \in Stats /\ new.total = stats.total
               /\ new.errors = IF s = "error" THEN stats.errors + 1 ELSE stats.errors
               /\ ~half => sum = Counters /\ new.blocked + new.modified = stats.blocked + stats.modified
               /\ new.blocked + new.modified <= stats.blocked + stats.modified + 1
               /\ Counters <= sum /\ sum <= Counters + 1
               /\ half /\ Countable(call[c].decision) /\ s # "error" => sum = Counters + 1
  <1> DEFINE d == call[c].decision
             half == call[c].via = "half"
             r(a) == half /\ s # "error" /\ d.action = a
             add(n, b) == IF b THEN n + 1 ELSE n
             e == add(stats.errors, s = "error")
             si == add(stats.simulated, r("simulate"))
             fo == add(stats.forwarded, r("forward"))
             bl == add(stats.blocked, r("block"))
             mo == add(stats.modified, half /\ Modifies(d))
  <1>1. stats \in Stats
    BY DEF StatsKept
  <1>2. e \in Nat /\ si \in Nat /\ fo \in Nat /\ bl \in Nat /\ mo \in Nat
    BY <1>1 DEF Stats
  <1>3. new = [stats EXCEPT !.errors = e, !.simulated = si, !.forwarded = fo, !.blocked = bl,
                            !.modified = mo]
    BY <1>1 DEF Counted, Stats
  <1> HIDE DEF e, si, fo, bl, mo
  <1>4. /\ new \in Stats /\ new.total = stats.total /\ new.errors = e /\ new.simulated = si
        /\ new.forwarded = fo /\ new.blocked = bl /\ new.modified = mo
    BY <1>1, <1>2, <1>3 DEF Stats
  <1>5. Modifies(d) => d.action = "modify"
    BY DEF Modifies
  <1>6. CASE ~half
    BY <1>1, <1>4, <1>6 DEF Stats, Counters, e, si, fo, bl, mo
  <1>7. CASE half /\ Modifies(d)
    BY <1>1, <1>4, <1>5, <1>7 DEF Stats, Counters, e, si, fo, bl, mo
  <1>8. CASE half /\ ~Modifies(d)
    BY <1>1, <1>4, <1>8 DEF Stats, Counters, Countable, e, si, fo, bl, mo
  <1> QED  BY <1>6, <1>7, <1>8

(* A routed request: an error, or a line in the traffic log and, in Half Mode, one to
   the counter of its action. *)
LEMMA RouteCounts ==
    ASSUME Shape, ModesSeen, StatsKept, DecisionsCountable, NEW c \in Callers, Route(c)
    PROVE  StatsKept'
  <1> DEFINE source == RouteRequest(cfgMode, call[c].req, call[c].decision.action)
             half == call[c].via = "half"
  <1>1. /\ UNCHANGED <<config, closed>> /\ call[c].pc = "route" /\ call'[c].pc = "done"
        /\ stats' = Counted(c, source)
        /\ logged' = [decisions |-> logged.decisions + LogDecision(c),
                      traffic |-> IF source = "error" THEN logged.traffic
                                  ELSE logged.traffic + LogTraffic]
        /\ \A d \in Callers \ {c} : call'[d] = call[d]
    BY RouteEffect DEF Route, Unshared
  <1>2. /\ c \in InProgress /\ c \notin InProgress' /\ c \notin ToCount'
        /\ c \in ToCount <=> half
    BY <1>1 DEF InProgress, ToCount, Active
  <1> HIDE DEF source, half
  <1>3. EveryActionCounted /\ half => Countable(call[c].decision)
    BY <1>1 DEF DecisionsCountable, half
  <1>4. LogTraffic \in {0, 1} /\ LogDecision(c) \in {0, 1}
    BY DEF LogTraffic, LogDecision
  <1>5. /\ logged' \in [traffic : Nat, decisions : Nat]
        /\ logged'.traffic = IF source = "error" THEN logged.traffic
                             ELSE logged.traffic + LogTraffic
        /\ logged'.decisions = logged.decisions + LogDecision(c)
    BY <1>1, <1>4 DEF StatsKept
  <1>6. /\ ~closed /\ config.logAll => LogTraffic = 1
        /\ ~closed /\ config.logDecisions /\ half => LogDecision(c) = 1
    BY DEF LogTraffic, LogDecision, half
  <1>7. /\ stats' \in Stats /\ stats'.total = stats.total
        /\ stats'.errors = IF source = "error" THEN stats.errors + 1 ELSE stats.errors
        /\ ~half => /\ Counters' = Counters
                    /\ stats'.blocked + stats'.modified = stats.blocked + stats.modified
        /\ stats'.blocked + stats'.modified <= stats.blocked + stats.modified + 1
        /\ Counters <= Counters' /\ Counters' <= Counters + 1
        /\ half /\ Countable(call[c].decision) /\ source # "error" => Counters' = Counters + 1
    BY <1>1, CountedOnce DEF Counters, half
  <1>8. EveryActionCounted' <=> EveryActionCounted
    BY <1>1 DEF EveryActionCounted
  <1>9. stats \in Stats /\ Counters \in Nat /\ Counters' \in Nat /\ logged.traffic \in Nat
        /\ logged.decisions \in Nat
    BY <1>7 DEF StatsKept, Stats, Counters
  <1>10. IsFiniteSet(InProgress')
    BY <1>1, RequestMoves
  <1>11. Cardinality(InProgress') = Cardinality(InProgress) - 1 /\ Cardinality(InProgress) \in Nat
    BY <1>1, <1>2, RequestMoves
  <1>12. /\ Cardinality(ToCount) \in Nat
         /\ Cardinality(ToCount') = IF half THEN Cardinality(ToCount) - 1 ELSE Cardinality(ToCount)
    BY <1>1, <1>2, RequestMoves
  <1>13. Counters' + Cardinality(ToCount') <= stats'.total
    BY <1>7, <1>9, <1>12 DEF StatsKept, Stats
  <1>14. EveryActionCounted' => Counters' + stats'.errors + Cardinality(ToCount') >= stats'.total
    BY <1>3, <1>7, <1>8, <1>9, <1>12 DEF StatsKept, Stats
  <1>15. ~closed' /\ config'.logAll =>
            logged'.traffic + stats'.errors + Cardinality(InProgress') = stats'.total
    BY <1>1, <1>5, <1>6, <1>7, <1>9, <1>11 DEF StatsKept, Stats
  <1>16. ~closed' /\ config'.logDecisions => logged'.decisions >= stats'.blocked + stats'.modified
    BY <1>1, <1>4, <1>5, <1>6, <1>7, <1>9 DEF StatsKept, Stats
  <1> QED  BY <1>5, <1>7, <1>10, <1>13, <1>14, <1>15, <1>16 DEF StatsKept

(* Without a handler the request is simulated; with one it is forwarded. *)
LEMMA TransparentCounts ==
    ASSUME Shape, StatsKept, NEW c \in Callers,
           TransparentNotReady(c) \/ TrackConnection(c) \/ Observe(c)
    PROVE  StatsKept'
  <1>1. CASE TransparentNotReady(c)
    <2>1. /\ UNCHANGED <<config, closed,
                         logged>> /\ stats' = [stats EXCEPT !.simulated = @ + 1]
          /\ \A d \in Callers \ {c} : call'[d] = call[d]
          /\ call[c].pc = "transparent" /\ call'[c].pc = "route" /\ call'[c].via = "full"
      BY <1>1 DEF TransparentNotReady, incrementStat, Unshared, Shape, CallFields
    <2>2. c \in InProgress /\ c \in InProgress' /\ c \in ToCount /\ c \notin ToCount'
      BY <2>1 DEF InProgress, ToCount, Active
    <2>3. /\ stats' \in Stats /\ stats'.total = stats.total /\ stats'.errors = stats.errors
          /\ stats'.simulated = stats.simulated + 1 /\ stats'.forwarded = stats.forwarded
          /\ stats'.blocked = stats.blocked /\ stats'.modified = stats.modified
      BY <2>1 DEF StatsKept, Stats
    <2>4. EveryActionCounted' <=> EveryActionCounted
      BY <2>1 DEF EveryActionCounted
    <2> QED  BY <2>1, <2>2, <2>3, <2>4, RequestMoves DEF StatsKept, Counters, Stats
  <1>2. CASE TrackConnection(c)
    <2>1. /\ UNCHANGED <<config, closed, logged, stats>>
          /\ \A d \in Callers \ {c} : call'[d] = call[d]
          /\ call[c].pc = "transparent" /\ call'[c].pc = "observe"
      BY <1>2 DEF TrackConnection, Unshared, Shape, CallFields
    <2>2. c \in InProgress /\ c \in InProgress' /\ c \in ToCount /\ c \in ToCount'
      BY <2>1 DEF InProgress, ToCount, Active
    <2>3. EveryActionCounted' <=> EveryActionCounted
      BY <2>1 DEF EveryActionCounted
    <2> QED  BY <2>1, <2>2, <2>3, RequestMoves DEF StatsKept, Counters
  <1>3. CASE Observe(c)
    <2>1. /\ UNCHANGED <<config, closed>> /\ stats' = [stats EXCEPT !.forwarded = @ + 1]
          /\ logged' = [logged EXCEPT !.traffic = @ + LogTraffic]
          /\ \A d \in Callers \ {c} : call'[d] = call[d]
          /\ call[c].pc = "observe" /\ call'[c].pc = "done"
      BY <1>3 DEF Observe, incrementStat, Unshared, Shape, CallFields
    <2>2. c \in InProgress /\ c \notin InProgress' /\ c \in ToCount /\ c \notin ToCount'
      BY <2>1 DEF InProgress, ToCount, Active
    <2>3. /\ stats' \in Stats /\ stats'.total = stats.total /\ stats'.errors = stats.errors
          /\ stats'.forwarded = stats.forwarded + 1 /\ stats'.simulated = stats.simulated
          /\ stats'.blocked = stats.blocked /\ stats'.modified = stats.modified
      BY <2>1 DEF StatsKept, Stats
    <2>4. EveryActionCounted' <=> EveryActionCounted
      BY <2>1 DEF EveryActionCounted
    <2>5. LogTraffic \in {0, 1} /\ (~closed /\ config.logAll => LogTraffic = 1)
      BY DEF LogTraffic
    <2>6. /\ logged' \in [traffic : Nat, decisions : Nat]
          /\ logged'.traffic = logged.traffic + LogTraffic /\ logged'.decisions = logged.decisions
      BY <2>1, <2>5 DEF StatsKept
    <2> QED  BY <2>1, <2>2, <2>3, <2>4, <2>5, <2>6, RequestMoves DEF StatsKept, Counters, Stats
  <1> QED  BY <1>1, <1>2, <1>3

(* Every step keeps the counters and the logs with the requests under way. *)
LEMMA StatsStep ==
    ASSUME Shape, ModesSeen, StatsKept, DecisionsCountable, [Next]_vars
    PROVE  StatsKept'
  <1>1. ASSUME NEW c \in Callers, Decide(c) \/ CacheDecision(c) PROVE StatsKept'
    <2>1. /\ UNCHANGED <<config, closed, logged, stats>>
          /\ \A d \in Callers \ {c} : call'[d] = call[d]
          /\ call[c].pc \in {"half", "store"} /\ call'[c].pc \in {"store", "route"}
          /\ call'[c].via = call[c].via
      BY <1>1 DEF Decide, CacheDecision, Unshared, Shape, CallFields
    <2>2. call[c].via = "half"
      BY <2>1 DEF ModesSeen, Active
    <2>3. c \in InProgress /\ c \in InProgress' /\ c \in ToCount /\ c \in ToCount'
      BY <2>1, <2>2 DEF InProgress, ToCount, Active
    <2>4. EveryActionCounted' <=> EveryActionCounted
      BY <2>1 DEF EveryActionCounted
    <2> QED  BY <2>1, <2>3, <2>4, RequestMoves DEF StatsKept, Counters
  <1>2. ASSUME NEW c \in Callers,
       DecideWithoutEngine(c) \/ ModifyPanics(c) PROVE StatsKept'
    <2>1. c \in ToCount
      BY <1>2 DEF DecideWithoutEngine, ModifyPanics, ToCount
    <2> QED  BY <1>2, <2>1, RecoverCounts DEF DecideWithoutEngine, ModifyPanics
  <1>3. ASSUME NEW c \in Callers, Caller(c) PROVE StatsKept'
    BY <1>1, <1>2, <1>3, HandleCounts, RouteCounts, TransparentCounts DEF Caller
  <1>4. ASSUME NEW m \in Modes, SwitchMode(m) PROVE StatsKept'
    BY <1>4, SwitchEffect, StatsSame DEF SwitchMode, Unhandled
  <1>5. CASE SwapRules \/ SortEnds
    BY <1>5, SortEffect, StatsSame DEF Unhandled
  <1>6. ASSUME UNCHANGED <<config, stats, logged, call>>,
       closed' = closed \/ closed' = TRUE
        PROVE  StatsKept'
    BY <1>6, StatsSame
  <1>7. CASE StoreMode \/ StoreConfigMode \/ InitEngine \/ InitModifier \/ InitRule \/ InitHandler
             \/ ClearDecisionCache \/ Close \/ UNCHANGED vars
    BY <1>6, <1>7 DEF StoreMode, StoreConfigMode, InitEngine, InitModifier, InitRule,
         InitHandler,
       ClearDecisionCache, Close, vars, Unhandled
  <1>8. ASSUME NEW r \in CustomRules, AddDecisionRule(r) PROVE StatsKept'
    BY <1>6, <1>8 DEF AddDecisionRule, Unhandled
  <1>9. ASSUME NEW c \in Callers, NEW d \in Callers, ConcurrentMapAccess(c,
       d) PROVE StatsKept'
    BY <1>6, <1>9 DEF ConcurrentMapAccess
  <1> QED  BY <1>3, <1>4, <1>5, <1>7, <1>8, <1>9 DEF Next, Operator

(* An intercepted request has a size, an entry in the cache and one in the table. *)
LEMMA RequestTyped ==
    ASSUME NEW req \in Requests
    PROVE  req.size \in Nat /\ getCacheKey(req) \in Keys /\ connKey(req) \in ConnKeys
  <1>1. PICK p \in Packets : req = InterceptPacket(p)
    BY DEF Requests
  <1>2. req.size = IF p.dns THEN 0 ELSE p.size
    BY <1>1 DEF InterceptPacket
  <1> QED  BY <1>2, PacketsAssumption DEF Keys, ConnKeys

(* A request stays the one that was intercepted until it is routed. *)
LEMMA RequestsStep ==
    ASSUME Shape, RequestsKnown, [Next]_vars
    PROVE  RequestsKnown'
  <1>1. ASSUME UNCHANGED call PROVE RequestsKnown'
    BY <1>1 DEF RequestsKnown, Active
  <1>2. ASSUME NEW c \in Callers, NEW req \in Requests, HandleRequest(c,
       req) PROVE RequestsKnown'
    BY <1>2 DEF HandleRequest, Shape, RequestsKnown, Active
  <1>3. ASSUME NEW c \in Callers,
               \/ DecideWithoutEngine(c) \/ Decide(c) \/ CacheDecision(c) \/ ModifyPanics(c)
               \/ TransparentNotReady(c) \/ TrackConnection(c) \/ Observe(c)
        PROVE  RequestsKnown'
    <2>1. /\ \A d \in Callers \ {c} : call'[d] = call[d]
          /\ call'[c].req = call[c].req /\ Active(c)
      BY <1>3 DEF DecideWithoutEngine, Decide, CacheDecision, ModifyPanics, Recover,
                  TransparentNotReady, TrackConnection, Observe, Shape, CallFields, Active
    <2> QED  BY <2>1 DEF RequestsKnown, Active
  <1>4. ASSUME NEW c \in Callers, Route(c) PROVE RequestsKnown'
    BY <1>4, RouteEffect DEF RequestsKnown, Active
  <1>5. ASSUME NEW m \in Modes, SwitchMode(m) PROVE RequestsKnown'
    <2>1. \A c \in Callers : call'[c].pc = call[c].pc /\ call'[c].req = call[c].req
      BY <1>5 DEF SwitchMode, Shape, CallFields
    <2> QED  BY <2>1 DEF RequestsKnown, Active
  <1>6. CASE SwapRules \/ SortEnds
    BY <1>1, <1>6, SortEffect
  <1>7. CASE StoreMode \/ StoreConfigMode \/ InitEngine \/ InitModifier \/ InitRule \/ InitHandler
             \/ ClearDecisionCache \/ Close \/ UNCHANGED vars
    BY <1>1, <1>7 DEF StoreMode, StoreConfigMode, InitEngine, InitModifier, InitRule,
         InitHandler,
       ClearDecisionCache, Close, vars
  <1>8. ASSUME NEW r \in CustomRules, AddDecisionRule(r) PROVE RequestsKnown'
    BY <1>1, <1>8 DEF AddDecisionRule
  <1>9. ASSUME NEW c \in Callers, NEW d \in Callers, ConcurrentMapAccess(c,
       d) PROVE RequestsKnown'
    BY <1>1, <1>9 DEF ConcurrentMapAccess
  <1> QED  BY <1>2, <1>3, <1>4, <1>5, <1>6, <1>7, <1>8, <1>9 DEF Next, Caller, Operator

(* The decision for a request comes from the cache, a rule or the default action. *)
LEMMA DecidedIsCountable ==
    ASSUME Shape, RulesInv, RequestsKnown, DecisionsCountable, EveryActionCounted,
           NEW c \in Callers, Decide(c)
    PROVE  Countable(call'[c].decision)
  <1> DEFINE req == call[c].req
             matching == MatchingRules(req)
             cached == engine.cache[getCacheKey(req)]
  <1>1. /\ call[c].pc = "half"
        /\ call'[c].decision = IF cached # NoDecision THEN cached
                               ELSE IF matching # {} THEN DecisionOf(engine.rules[Min(matching)])
                               ELSE Default
    BY DEF Decide, Shape, CallFields
  <1>2. getCacheKey(req) \in Keys
    BY <1>1, RequestTyped DEF RequestsKnown, Active
  <1>3. CASE cached # NoDecision
    BY <1>1, <1>2, <1>3 DEF DecisionsCountable
  <1>4. CASE cached = NoDecision /\ matching # {}
    <2>1. matching \subseteq DOMAIN engine.rules
      BY DEF MatchingRules
    <2>2. matching \subseteq Nat
      BY <2>1, RulesTyped
    <2>3. Min(matching) \in matching
      <3>1. \E n \in matching : \A m \in matching : n <= m
        BY <1>4, <2>2, LeastOfSet
      <3> QED  BY <3>1 DEF Min
    <2> QED  BY <1>1, <1>4, <2>1, <2>3 DEF DecisionsCountable
  <1>5. CASE cached = NoDecision /\ matching = {}
    BY <1>1, <1>5 DEF Default, EveryActionCounted, Countable
  <1> QED  BY <1>3, <1>4, <1>5

(* The default rules modify with a modifier. *)
LEMMA DefaultsCountable == \A k \in DOMAIN DefaultRules : Countable(DecisionOf(DefaultRules[k]))
  <1>1. DOMAIN DefaultRules = 1 .. 5
    BY DefaultRulesOrdered
  <1>2. \A k \in 1 .. 5 : k = 1 \/ k = 2 \/ k = 3 \/ k = 4 \/ k = 5
    OBVIOUS
  <1>3. /\ DefaultRules[1].action = "block" /\ DefaultRules[2].action = "forward"
        /\ DefaultRules[3].action = "modify" /\ DefaultRules[3].modifier = "sandbox_executable"
        /\ DefaultRules[4].action = "modify" /\ DefaultRules[4].modifier = "content_logging"
        /\ DefaultRules[5].action = "simulate"
    BY DEF DefaultRules, Rule
  <1>4. \A r : DecisionOf(r).action = r.action /\ DecisionOf(r).modifier = r.modifier
    BY DEF DecisionOf
  <1> HIDE DEF DefaultRules
  <1> QED  BY <1>1, <1>2, <1>3, <1>4 DEF Countable, Modifies

(* Every step keeps the decisions countable, when every action has a counter. *)
LEMMA CountableStep ==
    ASSUME Shape, ModesSeen, RulesInv, RequestsKnown, DecisionsCountable, [Next]_vars
    PROVE  DecisionsCountable'
  <1> DEFINE rulesOk(rules) == \A k \in DOMAIN rules : Countable(DecisionOf(rules[k]))
  <1>1. config' = config /\ (EveryActionCounted' <=> EveryActionCounted)
    <2>1. config' = config
      BY SortEffect DEF Next, vars, Caller, HandleRequest, DecideWithoutEngine, Decide,
           CacheDecision,
         ModifyPanics, Recover, Route, TransparentNotReady, TrackConnection, Observe, Unshared,
         Operator, SwitchMode, StoreMode, StoreConfigMode, InitEngine, InitModifier, InitRule,
         InitHandler, AddDecisionRule, ClearDecisionCache, Close, Unhandled, ConcurrentMapAccess
    <2> QED  BY <2>1 DEF EveryActionCounted
  <1>2. ASSUME engine'.cache = engine.cache,
       rulesOk(engine.rules) => rulesOk(engine'.rules),
               \A c \in Callers : /\ call'[c].pc = call[c].pc /\ call'[c].via = call[c].via
                                  /\ call'[c].decision = call[c].decision
        PROVE  DecisionsCountable'
    BY <1>1, <1>2 DEF DecisionsCountable
  <1>3. ASSUME UNCHANGED <<engine, call>> PROVE DecisionsCountable'
    BY <1>2, <1>3
  <1>4. ASSUME NEW c \in Callers, UNCHANGED engine,
       \A d \in Callers \ {c} : call'[d] = call[d],
               \/ call'[c].pc \notin {"store", "route"} \/ call'[c].via # "half"
               \/ EveryActionCounted => Countable(call'[c].decision)
        PROVE  DecisionsCountable'
    BY <1>1, <1>4 DEF DecisionsCountable
  <1>5. ASSUME NEW c \in Callers, NEW req \in Requests, HandleRequest(c, req)
        PROVE  DecisionsCountable'
    <2>1. /\ UNCHANGED engine /\ \A d \in Callers \ {c} : call'[d] = call[d]
          /\ \/ call'[c].pc = "route" /\ call'[c].via = "full"
             \/ call'[c].pc = mode /\ mode \in {"half", "transparent"}
      BY <1>5 DEF HandleRequest, Shape
    <2> QED  BY <1>4, <2>1
  <1>6. ASSUME NEW c \in Callers,
               \/ DecideWithoutEngine(c) \/ ModifyPanics(c) \/ Route(c)
               \/ TransparentNotReady(c) \/ TrackConnection(c) \/ Observe(c)
        PROVE  DecisionsCountable'
    <2>1. /\ UNCHANGED engine /\ \A d \in Callers \ {c} : call'[d] = call[d]
          /\ call'[c].pc \in {"done", "observe"} \/ call'[c].via = "full"
      BY <1>6 DEF DecideWithoutEngine, ModifyPanics, Recover, Route, TransparentNotReady,
                  TrackConnection, Observe, Shape, CallFields
    <2> QED  BY <1>4, <2>1
  <1>7. ASSUME NEW c \in Callers, Decide(c) PROVE DecisionsCountable'
    <2>1. UNCHANGED engine /\ \A d \in Callers \ {c} : call'[d] = call[d]
      BY <1>7 DEF Decide, Shape
    <2> QED  BY <1>4, <1>7, <2>1, DecidedIsCountable
  <1>8. ASSUME NEW c \in Callers, CacheDecision(c) PROVE DecisionsCountable'
    <2>1. /\ \A d \in Callers \ {c} : call'[d] = call[d]
          /\ call[c].pc = "store" /\ call'[c].via = call[c].via
          /\ call'[c].decision = call[c].decision /\ engine'.rules = engine.rules
          /\ engine'.cache = [engine.cache EXCEPT ![getCacheKey(call[c].req)] = call[c].decision]
      BY <1>8 DEF CacheDecision, Shape, CallFields
    <2>2. call[c].via = "half"
      BY <2>1 DEF ModesSeen, Active
    <2>3. EveryActionCounted => Countable(call[c].decision)
      BY <2>1, <2>2 DEF DecisionsCountable
    <2> QED  BY <1>1, <2>1, <2>3 DEF DecisionsCountable
  <1>9. ASSUME NEW m \in Modes, SwitchMode(m) PROVE DecisionsCountable'
    BY <1>2, <1>9, SwitchEffect DEF SwitchMode
  <1>10. CASE SwapRules
    <2>1. PICK i, j \in DOMAIN engine.rules :
            engine' = [engine EXCEPT !.rules[i] = engine.rules[j], !.rules[j] = engine.rules[i]]
      BY <1>10 DEF SwapRules
    <2>2. /\ engine'.cache = engine.cache
          /\ engine'.rules = [engine.rules EXCEPT ![i] = engine.rules[j], ![j] = engine.rules[i]]
      BY <2>1 DEF Shape
    <2>3. rulesOk(engine.rules) => rulesOk(engine'.rules)
      <3>1. \A k \in DOMAIN engine'.rules : \E l \in DOMAIN engine.rules :
                engine'.rules[k] = engine.rules[l]
        BY <2>2
      <3> QED  BY <3>1
    <2>4. UNCHANGED call
      BY <1>10 DEF SwapRules
    <2> HIDE DEF rulesOk
    <2> QED  BY <1>2, <2>2, <2>3, <2>4
  <1>11. CASE SortEnds \/ StoreMode \/ StoreConfigMode \/ InitModifier \/ InitHandler \/ Close
              \/ UNCHANGED vars
    BY <1>3, <1>11 DEF SortEnds, StoreMode, StoreConfigMode, InitModifier, InitHandler,
         Close, vars
  <1>12. CASE InitEngine
    <2>1. UNCHANGED call /\ DOMAIN engine'.rules = {} /\ engine'.cache = [k \in Keys |-> NoDecision]
      BY <1>12 DEF InitEngine, NewEngine, EmptyCache
    <2> QED  BY <1>1, <2>1 DEF DecisionsCountable
  <1>13. ASSUME NEW r, engine'.rules = Append(engine.rules, r),
       engine'.cache = engine.cache,
                UNCHANGED call, EveryActionCounted => Countable(DecisionOf(r))
         PROVE  DecisionsCountable'
    <2>1. \A k \in DOMAIN engine'.rules :
            engine'.rules[k] = r \/ (k \in DOMAIN engine.rules /\ engine'.rules[k] = engine.rules[k])
      BY <1>13 DEF RulesInv
    <2> QED  BY <1>1, <1>13, <2>1 DEF DecisionsCountable
  <1>14. CASE InitRule
    <2>1. /\ engine'.rules = Append(engine.rules, DefaultRules[op.next])
          /\ engine'.cache = engine.cache /\ UNCHANGED call /\ op.next \in DOMAIN DefaultRules
      BY <1>14 DEF InitRule, Shape, RulesInv
    <2> QED  BY <1>13, <2>1, DefaultsCountable
  <1>15. ASSUME NEW r \in CustomRules, AddDecisionRule(r) PROVE DecisionsCountable'
    <2>1. /\ engine'.rules = Append(engine.rules, r) /\ engine'.cache = engine.cache
          /\ UNCHANGED call /\ r.action \in Actions
      BY <1>15 DEF AddDecisionRule, Shape
    <2>2. EveryActionCounted => Countable(DecisionOf(r))
      BY <2>1 DEF EveryActionCounted, Countable, Modifies, DecisionOf, Actions
    <2> QED  BY <1>13, <2>1, <2>2
  <1>16. CASE ClearDecisionCache
    <2>1. /\ UNCHANGED call /\ engine'.rules = engine.rules
          /\ engine'.cache = [k \in Keys |-> NoDecision]
      BY <1>16 DEF ClearDecisionCache, EmptyCache, Shape
    <2> QED  BY <1>1, <2>1 DEF DecisionsCountable
  <1>17. ASSUME NEW c \in Callers, NEW d \in Callers, ConcurrentMapAccess(c, d)
         PROVE  DecisionsCountable'
    BY <1>3, <1>17 DEF ConcurrentMapAccess
  <1> QED  BY <1>5, <1>6, <1>7, <1>8, <1>9, <1>10, <1>11, <1>12, <1>14, <1>15, <1>16,
       <1>17
           DEF Next, Caller, Operator

(* The bytes of one more packet, of a connection already known or of a new one. *)
LEMMA BytesAdded ==
    ASSUME NEW K, NEW f, NEW g, NEW x, NEW a \in Nat, NEW n \in Nat,
           \A l \in K \ {x} : g[l] = f[l], g[x] = a + n,
           x \in K => f[x] = a, x \notin K => a = 0, IsFiniteSet(Bytes(K, f))
    PROVE  /\ IsFiniteSet(Bytes(K \cup {x}, g)) /\ Cardinality(Bytes(K, f)) \in Nat
           /\ Cardinality(Bytes(K \cup {x}, g)) = Cardinality(Bytes(K, f)) + n
  <1> DEFINE more == (a + 1) .. (a + n)
             new == {x} \X more
             S == Bytes(K, f)
  <1>1. IsFiniteSet(more) /\ Cardinality(more) = n
    BY FS_Interval
  <1>2. IsFiniteSet({x}) /\ Cardinality({x}) = 1
    BY FS_Singleton
  <1>3. IsFiniteSet(new) /\ Cardinality(new) = n
    <2>1. IsFiniteSet(new) /\ Cardinality(new) = 1 * n
      BY <1>1, <1>2, FS_Product
    <2> QED  BY <2>1
  <1>4. 1 .. (a + n) = (1 .. a) \cup more /\ (1 .. a) \cap more = {}
    OBVIOUS
  <1>5. S \cap new = {}
    <2> SUFFICES ASSUME NEW y \in S, y \in new PROVE FALSE
      OBVIOUS
    <2>1. PICK l \in K : y \in {l} \X (1 .. f[l])
      BY DEF Bytes
    <2>2. y[1] = l /\ y[1] = x /\ y[2] \in 1 .. f[l] /\ y[2] \in more
      BY <2>1
    <2> QED  BY <1>4, <2>1, <2>2
  <1>6. Bytes(K \cup {x}, g) = S \cup new
    <2>1. ASSUME NEW y \in Bytes(K \cup {x}, g) PROVE y \in S \cup new
      <3>1. PICK l \in K \cup {x} : y \in {l} \X (1 .. g[l])
        BY DEF Bytes
      <3>2. CASE l # x
        <4>1. l \in K /\ y \in {l} \X (1 .. f[l])
          BY <3>1, <3>2
        <4> QED  BY <4>1 DEF Bytes
      <3>3. CASE l = x
        <4>1. y \in {x} \X ((1 .. a) \cup more)
          BY <1>4, <3>1, <3>3
        <4>2. y \in new \/ y \in {x} \X (1 .. a)
          BY <4>1
        <4>3. CASE x \in K
          <5>1. y \in new \/ y \in {x} \X (1 .. f[x])
            BY <4>2, <4>3
          <5> QED  BY <4>3, <5>1 DEF Bytes
        <4>4. CASE x \notin K
          <5>1. 1 .. a = {}
            BY <4>4
          <5> QED  BY <4>2, <5>1
        <4> QED  BY <4>3, <4>4
      <3> QED  BY <3>2, <3>3
    <2>2. ASSUME NEW y \in S PROVE y \in Bytes(K \cup {x}, g)
      <3>1. PICK l \in K : y \in {l} \X (1 .. f[l])
        BY DEF Bytes
      <3>2. y \in {l} \X (1 .. g[l])
        <4>1. CASE l # x
          BY <3>1, <4>1
        <4>2. CASE l = x
          <5>1. 1 .. f[l] \subseteq 1 .. g[l]
            BY <4>2
          <5> QED  BY <3>1, <5>1
        <4> QED  BY <4>1, <4>2
      <3> QED  BY <3>1, <3>2 DEF Bytes
    <2>3. ASSUME NEW y \in new PROVE y \in Bytes(K \cup {x}, g)
      <3>1. y \in {x} \X (1 .. g[x])
        BY <1>4
      <3> QED  BY <3>1 DEF Bytes
    <2> HIDE DEF S, new
    <2> QED  BY <2>1, <2>2, <2>3
  <1>7. Cardinality(S \cap new) = 0 /\ Cardinality(S) \in Nat
    BY <1>5, FS_EmptySet, FS_CardinalityType
  <1> HIDE DEF new, S
  <1>8. /\ IsFiniteSet(S \cup new)
        /\ Cardinality(S \cup new) = Cardinality(S) + Cardinality(new) - Cardinality(S \cap new)
    <2>1. IsFiniteSet(S)
      BY DEF S
    <2> QED  BY <1>3, <2>1, FS_Union
  <1>9. IsFiniteSet(S \cup new) /\ Cardinality(S \cup new) = Cardinality(S) + n
    BY <1>3, <1>7, <1>8
  <1> QED  BY <1>6, <1>7, <1>9 DEF S

(* g counts what f counts for the keys of K, and n bytes for x, a key outside K. *)
NewEntry(K, f, g, x, n) ==
    /\ n \in Nat /\ x \notin K /\ g[x] = n
    /\ \A l \in K : g[l] = f[l]
    /\ IsFiniteSet(Bytes(K, f))

(* The bytes of a packet whose entry is new. *)
LEMMA BytesOfNew ==
    ASSUME NEW K, NEW f, NEW g, NEW x, NEW n, NewEntry(K, f, g, x, n)
    PROVE  /\ IsFiniteSet(Bytes(K \cup {x}, g)) /\ Cardinality(Bytes(K, f)) \in Nat
           /\ Cardinality(Bytes(K \cup {x}, g)) = Cardinality(Bytes(K, f)) + n
  <1>1. PICK a \in Nat : a = 0
    OBVIOUS
  <1>2. /\ n \in Nat /\ x \notin K /\ g[x] = a + n /\ IsFiniteSet(Bytes(K, f))
        /\ \A l \in K \ {x} : g[l] = f[l]
    BY <1>1 DEF NewEntry
  <1> QED  BY <1>1, <1>2, BytesAdded

(* The table stays when neither it nor the packets being observed change. *)
LEMMA TableSame ==
    ASSUME TableKept, config' = config, UNCHANGED handler,
         op'.pc = "handler" => ~handler.ready,
           \A c \in Callers : /\ call'[c].pc = "observe" <=> call[c].pc = "observe"
                              /\ call[c].pc = "observe" => call'[c].req = call[c].req
    PROVE  TableKept'
  <1>1. Tracked' = Tracked /\ TableBytes' = TableBytes /\ Observing' = Observing
    BY DEF Tracked, TableBytes, Observing
  <1>2. PendingBytes' = PendingBytes
    <2> DEFINE f == [c \in Callers |-> call[c].req.size]
               g == [c \in Callers |-> call'[c].req.size]
    <2>1. \A c \in Observing : g[c] = f[c]
      BY DEF Observing
    <2>2. PendingBytes' = Bytes(Observing, g) /\ PendingBytes = Bytes(Observing, f)
      BY <1>1 DEF PendingBytes
    <2> HIDE DEF f, g
    <2> QED  BY <2>1, <2>2 DEF Bytes
  <1> QED  BY <1>1, <1>2 DEF TableKept

(* A packet enters the table: a new entry or more bytes in an old one. *)
LEMMA TrackStep ==
    ASSUME Shape, RequestsKnown, TableKept, NEW c \in Callers, TrackConnection(c)
    PROVE  TableKept'
  <1> DEFINE req == call[c].req
             k == connKey(req)
             new == handler.conns[k] = Untracked
             old == IF new THEN 0 ELSE handler.conns[k]
  <1>1. /\ UNCHANGED <<config, op>> /\ \A d \in Callers \ {c} : call'[d] = call[d]
        /\ call[c].pc = "transparent" /\ call'[c].pc = "observe" /\ call'[c].req = req
        /\ handler.ready /\ handler' = trackConnection(req)
    BY DEF TrackConnection, Unshared, Shape, CallFields
  <1>2. req.size \in Nat /\ k \in ConnKeys
    BY <1>1, RequestTyped DEF RequestsKnown, Active
  <1>3. old \in Nat /\ handler.conns[k] \in Nat \cup {Untracked}
    BY <1>2 DEF TableKept, Untracked
  <1>4. /\ handler'.conns = [handler.conns EXCEPT ![k] = old + req.size]
        /\ handler'.total = IF new THEN handler.total + 1 ELSE handler.total
        /\ handler'.bytes = handler.bytes /\ handler'.events = handler.events
        /\ handler'.payloads = handler.payloads /\ handler'.open = handler.open
        /\ handler'.ready = handler.ready
    <2>1. /\ IF new THEN req.size = old + req.size ELSE handler.conns[k] + req.size = old + req.size
          /\ handler' = [handler EXCEPT !.conns[k] = IF new THEN req.size
                                                     ELSE handler.conns[k] + req.size,
                                        !.total = IF new THEN handler.total + 1 ELSE handler.total]
      BY <1>1, <1>2, <1>3 DEF trackConnection, Shape, TableKept
    <2>2. handler' = [handler EXCEPT !.conns[k] = old + req.size,
                                     !.total = IF new THEN handler.total + 1 ELSE handler.total]
      BY <2>1
    <2> HIDE DEF new, old
    <2> QED  BY <2>2 DEF Shape
  <1>5. /\ DOMAIN handler.conns = ConnKeys /\ handler'.conns[k] = old + req.size
        /\ \A l \in ConnKeys \ {k} : handler'.conns[l] = handler.conns[l]
        /\ handler'.conns \in [ConnKeys -> Nat \cup {Untracked}]
    BY <1>2, <1>3, <1>4 DEF TableKept
  <1> HIDE DEF req, k, old
  <1>6. Tracked' = Tracked \cup {k} /\ (k \in Tracked <=> ~new)
    BY <1>2, <1>3, <1>5 DEF Tracked, Untracked
  <1>7. IsFiniteSet(Tracked') /\ handler'.total = Cardinality(Tracked') /\ handler'.total \in Nat
    BY <1>4, <1>6, FS_AddElement DEF TableKept
  <1>8. Observing' = Observing \cup {c} /\ c \notin Observing
    BY <1>1 DEF Observing
  <1>9. /\ IsFiniteSet(Observing') /\ Cardinality(Observing') = Cardinality(Observing) + 1
        /\ Cardinality(Observing) \in Nat
    BY <1>8, FS_AddElement, FS_CardinalityType DEF TableKept
  <1>10. /\ IsFiniteSet(TableBytes') /\ Cardinality(TableBytes') = Cardinality(TableBytes) + req.size
         /\ Cardinality(TableBytes) \in Nat
    <2>1. \A l \in Tracked \ {k} : handler'.conns[l] = handler.conns[l]
      BY <1>5 DEF Tracked
    <2>2. (k \in Tracked => handler.conns[k] = old) /\ (k \notin Tracked => old = 0)
      BY <1>6 DEF old
    <2>3. IsFiniteSet(Bytes(Tracked, handler.conns))
      BY DEF TableKept, TableBytes
    <2>4. TableBytes' = Bytes(Tracked \cup {k}, handler'.conns)
      BY <1>6 DEF TableBytes
    <2> QED  BY <1>2, <1>3, <1>5, <2>1, <2>2, <2>3, <2>4, BytesAdded DEF TableBytes
  <1>11. /\ IsFiniteSet(PendingBytes')
         /\ Cardinality(PendingBytes') = Cardinality(PendingBytes) + req.size
         /\ Cardinality(PendingBytes) \in Nat
    <2> DEFINE f == [d \in Callers |-> call[d].req.size]
               g == [d \in Callers |-> call'[d].req.size]
    <2>1. \A d \in Observing : g[d] = f[d]
      BY <1>1 DEF Observing
    <2>2. g[c] = req.size
      BY <1>1 DEF req
    <2>3. IsFiniteSet(Bytes(Observing, f)) /\ PendingBytes = Bytes(Observing, f)
      BY DEF TableKept, PendingBytes
    <2>4. PendingBytes' = Bytes(Observing \cup {c}, g)
      BY <1>8 DEF PendingBytes
    <2> HIDE DEF f, g
    <2>5. NewEntry(Observing, f, g, c, req.size)
      BY <1>2, <1>8, <2>1, <2>2, <2>3 DEF NewEntry
    <2> QED  BY <2>3, <2>4, <2>5, BytesOfNew
  <1>12. handler'.bytes + Cardinality(PendingBytes') = Cardinality(TableBytes')
    BY <1>2, <1>4, <1>10, <1>11 DEF TableKept
  <1>13. handler'.open /\ config'.logConnections =>
            /\ handler'.events + Cardinality(Observing') >= handler'.total
            /\ handler'.events >= handler'.payloads
    BY <1>1, <1>4, <1>9 DEF TableKept
  <1>14. op'.pc # "handler"
    BY <1>1 DEF TableKept
  <1> QED  BY <1>1, <1>4, <1>5, <1>7, <1>9, <1>10, <1>11, <1>12, <1>13,
       <1>14 DEF TableKept

(* A packet that was tracked enters the handler's counters. *)
LEMMA ObserveStep ==
    ASSUME Shape, RequestsKnown, TableKept, NEW c \in Callers, Observe(c)
    PROVE  TableKept'
  <1> DEFINE req == call[c].req
             f == [d \in Callers |-> call[d].req.size]
             g == [d \in Callers |-> call'[d].req.size]
             rest == Observing \ {c}
  <1>1. /\ UNCHANGED <<config, op>> /\ \A d \in Callers \ {c} : call'[d] = call[d]
        /\ call[c].pc = "observe" /\ call'[c].pc = "done"
        /\ handler' = [handler EXCEPT !.bytes = @ + req.size, !.events = @ + writeConnectionLog,
                                      !.payloads = @ + extractAndLogPayload(req)]
    BY DEF Observe, Unshared, Shape, CallFields
  <1>2. req.size \in Nat
    BY <1>1, RequestTyped DEF RequestsKnown, Active
  <1>3. writeConnectionLog \in {0, 1} /\ extractAndLogPayload(req) \in {0, 1}
    BY DEF writeConnectionLog, extractAndLogPayload
  <1>4. /\ handler'.conns = handler.conns /\ handler'.total = handler.total
        /\ handler'.bytes = handler.bytes + req.size
        /\ handler'.events = handler.events + writeConnectionLog
        /\ handler'.payloads = handler.payloads + extractAndLogPayload(req)
        /\ handler'.open = handler.open /\ handler'.ready = handler.ready
    BY <1>1 DEF Shape
  <1>5. Observing' = rest /\ c \in Observing /\ Observing = rest \cup {c} /\ c \notin rest
    BY <1>1 DEF Observing
  <1>6. /\ IsFiniteSet(rest) /\ Cardinality(rest) = Cardinality(Observing) - 1
        /\ Cardinality(Observing) \in Nat
    BY <1>5, FS_RemoveElement, FS_CardinalityType DEF TableKept
  <1>7. /\ IsFiniteSet(PendingBytes') /\ Cardinality(PendingBytes') \in Nat
        /\ Cardinality(PendingBytes) = Cardinality(PendingBytes') + req.size
    <2>1. PendingBytes = Bytes(rest \cup {c}, f) /\ PendingBytes' = Bytes(rest, g)
      BY <1>5 DEF PendingBytes
    <2>2. \A d \in rest : f[d] = g[d]
      BY <1>1, <1>5 DEF Observing
    <2>3. f[c] = req.size
      OBVIOUS
    <2> HIDE DEF f, g, rest, req
    <2>4. Bytes(rest, g) \subseteq Bytes(rest \cup {c}, f)
      BY <2>2 DEF Bytes
    <2>5. IsFiniteSet(Bytes(rest, g))
      BY <2>1, <2>4, FS_Subset DEF TableKept
    <2>6. c \notin rest /\ req.size \in Nat
      BY <1>2, <1>5 DEF req, rest
    <2>7. /\ Cardinality(Bytes(rest, g)) \in Nat
          /\ Cardinality(Bytes(rest \cup {c}, f)) = Cardinality(Bytes(rest, g)) + req.size
      <3>1. NewEntry(rest, g, f, c, req.size)
        BY <2>2, <2>3, <2>5, <2>6 DEF NewEntry
      <3> QED  BY <3>1, BytesOfNew
    <2> QED  BY <2>1, <2>5, <2>7
  <1>8. TableBytes' = TableBytes /\ Tracked' = Tracked
    BY <1>4 DEF TableBytes, Tracked
  <1> HIDE DEF req, rest
  <1>9. handler'.bytes + Cardinality(PendingBytes') = Cardinality(TableBytes')
    BY <1>2, <1>4, <1>7, <1>8 DEF TableKept
  <1>10. handler'.open /\ config'.logConnections =>
            /\ handler'.events + Cardinality(Observing') >= handler'.total
            /\ handler'.events >= handler'.payloads
    <2>1. handler.open /\ config.logConnections => writeConnectionLog = 1
      BY DEF writeConnectionLog
    <2> QED  BY <1>1, <1>3, <1>4, <1>5, <1>6, <2>1 DEF TableKept
  <1>11. /\ handler'.bytes \in Nat /\ handler'.events \in Nat /\ handler'.payloads \in Nat
    BY <1>2, <1>3, <1>4 DEF TableKept
  <1>12. handler'.ready /\ op'.pc # "handler"
    BY <1>1, <1>4, <1>5 DEF TableKept
  <1> QED  BY <1>4, <1>5, <1>6, <1>7, <1>8, <1>9, <1>10, <1>11, <1>12 DEF TableKept

(* A handler that was just made. *)
LEMMA FreshHandler ==
    ASSUME NEW h, h = NoHandler \/ h = NewTransparentModeHandler
    PROVE  /\ h.conns = [k \in ConnKeys |-> Untracked] /\ h.total = 0
           /\ h.bytes = 0 /\ h.events = 0 /\ h.payloads = 0
  <1>1. CASE h = NoHandler
    BY <1>1 DEF NoHandler
  <1>2. CASE h = NewTransparentModeHandler
    BY <1>2 DEF NewTransparentModeHandler, NoHandler
  <1> QED  BY <1>1, <1>2

(* Every step keeps the table with the packets being observed. *)
LEMMA TableStep ==
    ASSUME Shape, ModesSeen, RequestsKnown, TableKept, [Next]_vars
    PROVE  TableKept'
  <1>1. ASSUME UNCHANGED <<config, handler, call>>, op'.pc = "handler" => ~handler.ready
        PROVE  TableKept'
    BY <1>1, TableSame
  <1>2. ASSUME NEW c \in Callers, UNCHANGED <<config, handler, op>>,
               \A d \in Callers \ {c} : call'[d] = call[d],
               call[c].pc # "observe", call'[c].pc # "observe"
        PROVE  TableKept'
    <2>1. \A d \in Callers : /\ call'[d].pc = "observe" <=> call[d].pc = "observe"
                             /\ call[d].pc = "observe" => call'[d].req = call[d].req
      BY <1>2
    <2>2. op'.pc = "handler" => ~handler.ready
      BY <1>2 DEF TableKept
    <2> QED  BY <1>2, <2>1, <2>2, TableSame
  <1>3. ASSUME NEW c \in Callers, NEW req \in Requests, HandleRequest(c,
       req) PROVE TableKept'
    BY <1>2, <1>3 DEF HandleRequest, Unshared, Shape, Active
  <1>4. ASSUME NEW c \in Callers,
               \/ DecideWithoutEngine(c) \/ Decide(c) \/ CacheDecision(c) \/ ModifyPanics(c)
               \/ Route(c) \/ TransparentNotReady(c)
        PROVE  TableKept'
    BY <1>2, <1>4 DEF DecideWithoutEngine, Decide, CacheDecision, ModifyPanics, Recover,
         Route,
                      TransparentNotReady, Unshared, Shape, CallFields
  <1>5. ASSUME NEW m \in Modes, SwitchMode(m) PROVE TableKept'
    <2>1. \A c \in Callers : call'[c].pc = call[c].pc /\ call'[c].req = call[c].req
      BY <1>5 DEF SwitchMode, Shape, CallFields
    <2>2. op'.pc = "mode" /\ UNCHANGED <<config, handler>>
      BY <1>5 DEF SwitchMode, Idle, Unhandled
    <2> QED  BY <2>1, <2>2, TableSame
  <1>6. CASE StoreMode \/ InitEngine \/ InitModifier \/ InitRule \/ ClearDecisionCache
             \/ UNCHANGED vars
    <2>1. op'.pc = "handler" => op.pc = "handler"
      BY <1>6 DEF StoreMode, InitEngine, InitModifier, InitRule, ClearDecisionCache,
           vars, Shape
    <2>2. op'.pc = "handler" => ~handler.ready
      BY <2>1 DEF TableKept
    <2> QED  BY <1>1, <1>6, <2>2 DEF StoreMode, InitEngine, InitModifier, InitRule,
                ClearDecisionCache, vars, Unhandled
  <1>7. CASE StoreConfigMode
    <2>1. op'.pc = "handler" => ~handler.ready
      BY <1>7 DEF StoreConfigMode, Shape, Idle
    <2> QED  BY <1>1, <1>7, <2>1 DEF StoreConfigMode, Unhandled
  <1>8. CASE SwapRules \/ SortEnds
    BY <1>1, <1>8, SortEffect DEF Unhandled
  <1>9. ASSUME NEW r \in CustomRules, AddDecisionRule(r) PROVE TableKept'
    BY <1>1, <1>9 DEF AddDecisionRule, Unhandled, Idle
  <1>10. CASE InitHandler
    <2>1. op.pc = "handler" /\ handler' = NewTransparentModeHandler /\ op' = Idle /\ UNCHANGED call
      BY <1>10 DEF InitHandler
    <2>2. Observing' = {}
      BY <2>1 DEF TableKept, Observing
    <2>3. /\ handler'.conns = [k \in ConnKeys |-> Untracked] /\ handler'.total = 0
          /\ handler'.bytes = 0 /\ handler'.events = 0 /\ handler'.payloads = 0
      BY <2>1, FreshHandler
    <2>4. Tracked' = {}
      BY <2>3 DEF Tracked
    <2>5. TableBytes' = {} /\ PendingBytes' = {}
      BY <2>2, <2>4 DEF TableBytes, PendingBytes, Bytes
    <2> QED  BY <2>1, <2>2, <2>3, <2>4, <2>5, FS_EmptySet DEF TableKept, Idle
  <1>11. CASE Close
    <2>1. /\ UNCHANGED <<config, call, op>> /\ handler' = [handler EXCEPT !.open = FALSE]
      BY <1>11 DEF Close, Unhandled
    <2>2. /\ handler'.conns = handler.conns /\ handler'.total = handler.total
          /\ handler'.bytes = handler.bytes /\ handler'.events = handler.events
          /\ handler'.payloads = handler.payloads /\ handler'.open = FALSE
          /\ handler'.ready = handler.ready
      BY <2>1 DEF Shape
    <2>3. /\ Tracked' = Tracked /\ TableBytes' = TableBytes /\ Observing' = Observing
          /\ PendingBytes' = PendingBytes
      BY <2>1, <2>2 DEF Tracked, TableBytes, Observing, PendingBytes
    <2> QED  BY <2>1, <2>2, <2>3 DEF TableKept
  <1>12. ASSUME NEW c \in Callers, NEW d \in Callers, ConcurrentMapAccess(c,
       d) PROVE TableKept'
    <2>1. op'.pc = "handler" => ~handler.ready
      BY <1>12 DEF ConcurrentMapAccess, TableKept
    <2> QED  BY <1>1, <1>12, <2>1 DEF ConcurrentMapAccess
  <1> QED  BY <1>3, <1>4, <1>5, <1>6, <1>7, <1>8, <1>9, <1>10, <1>11, <1>12, TrackStep,
       ObserveStep
           DEF Next, Caller, Operator

(* Whatever requests overlapped and however often the mode was switched, once none is
   under way the counters, the two logs and the transparent handler's table account for
   every request (controller.go incrementStat, logger.go, transparent.go). *)
THEOREM RequestsAreAccounted == Spec => []Accounted
  <1>1. Init => AccountInv
    <2> SUFFICES ASSUME Init PROVE AccountInv
      OBVIOUS
    <2>1. /\ \A c \in Callers : call[c].pc = "idle"
          /\ op.pc = "idle" /\ (handler = NoHandler \/ handler = NewTransparentModeHandler)
      BY DEF Init, NewController, NoCall, Idle
    <2>2. InProgress = {} /\ ToCount = {} /\ Observing = {}
      BY <2>1 DEF InProgress, ToCount, Observing, Active
    <2>3. RequestsKnown
      BY <2>1 DEF RequestsKnown, Active
    <2>4. StatsKept
      <3>1. /\ stats \in Stats /\ logged \in [traffic : Nat, decisions : Nat]
            /\ stats.total = 0 /\ stats.errors = 0 /\ Counters = 0
            /\ stats.blocked = 0 /\ stats.modified = 0 /\ logged.traffic = 0 /\ logged.decisions = 0
        BY DEF Init, NewController, Stats, Counters
      <3> QED  BY <2>2, <3>1, FS_EmptySet DEF StatsKept
    <2>5. DecisionsCountable
      <3> DEFINE none == << >>
      <3>1. /\ engine.cache = [k \in Keys |-> NoDecision]
            /\ engine.rules = none \/ engine.rules = DefaultRules
        BY DEF Init, NewController, NewEngine, EmptyCache
      <3>2. \A k \in DOMAIN engine.rules : Countable(DecisionOf(engine.rules[k]))
        BY <3>1, DefaultsCountable
      <3> QED  BY <2>1, <3>1, <3>2 DEF DecisionsCountable
    <2>6. TableKept
      <3>1. /\ handler.conns = [k \in ConnKeys |-> Untracked] /\ handler.total = 0
            /\ handler.bytes = 0 /\ handler.events = 0 /\ handler.payloads = 0
        BY <2>1, FreshHandler
      <3>2. Tracked = {}
        BY <3>1 DEF Tracked
      <3>3. TableBytes = {} /\ PendingBytes = {}
        BY <2>2, <3>2 DEF TableBytes, PendingBytes, Bytes
      <3> QED  BY <2>1, <2>2, <3>1, <3>2, <3>3, FS_EmptySet DEF TableKept
    <2> QED  BY <2>3, <2>4, <2>5, <2>6 DEF AccountInv
  <1>2. ModeInv /\ RulesInv /\ AccountInv /\ [Next]_vars => AccountInv'
    BY RequestsStep, StatsStep, CountableStep, TableStep DEF ModeInv, AccountInv
  <1>3. ASSUME AccountInv PROVE Accounted
    <2> SUFFICES ASSUME Quiet
                 PROVE  /\ Counters <= stats.total
                        /\ EveryActionCounted => Counters + stats.errors >= stats.total
                        /\ ~closed /\ config.logAll => logged.traffic + stats.errors = stats.total
                        /\ ~closed /\ config.logDecisions =>
                                logged.decisions >= stats.blocked + stats.modified
                        /\ handler.bytes = Cardinality(TableBytes)
                        /\ handler.total = Cardinality(Tracked)
                        /\ handler.open /\ config.logConnections =>
                                handler.events >= handler.total /\ handler.events >= handler.payloads
      BY DEF Accounted, Counters, GetConnectionStats, TableBytes, Tracked, Bytes
    <2>1. InProgress = {} /\ ToCount = {} /\ Observing = {}
      BY DEF Quiet, InProgress, ToCount, Observing, Active
    <2>2. PendingBytes = {}
      BY <2>1 DEF PendingBytes, Bytes
    <2>3. /\ Cardinality(InProgress) = 0 /\ Cardinality(ToCount) = 0
          /\ Cardinality(Observing) = 0 /\ Cardinality(PendingBytes) = 0
      BY <2>1, <2>2, FS_EmptySet
    <2>4. stats \in Stats /\ Counters \in Nat /\ logged.traffic \in Nat
      BY <1>3 DEF AccountInv, StatsKept, Stats, Counters
    <2>5. /\ Counters <= stats.total
          /\ EveryActionCounted => Counters + stats.errors >= stats.total
          /\ ~closed /\ config.logAll => logged.traffic + stats.errors = stats.total
          /\ ~closed /\ config.logDecisions =>
                logged.decisions >= stats.blocked + stats.modified
      BY <1>3, <2>3, <2>4 DEF AccountInv, StatsKept, Stats
    <2> QED  BY <1>3, <2>3, <2>5 DEF AccountInv, TableKept
  <1> QED  BY <1>1, <1>2, <1>3, ModeInvariant, RulesInvariant, PTL DEF Spec

=============================================================================
