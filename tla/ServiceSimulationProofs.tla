----------------------- MODULE ServiceSimulationProofs -----------------------
(***************************************************************************)
(* Proofs about the service simulation: what a sample is served is logged  *)
(* and kept, and the artifacts it finds are whole; for any requests,       *)
(* events, files, failures and restarts.                                   *)
(***************************************************************************)
EXTENDS ServiceSimulation, FiniteSetTheorems, SequenceTheorems, WellFoundedInduction, TLAPS

-----------------------------------------------------------------------------
(* The HTTP simulation: what its variables hold. *)

Ids == Nat \X STRING

Kinds == {"sandbox_fake", "honeypot"}

Replies == Kinds \cup {"none", "blocked", "default", "auth", "accepted", "json", "placeholder",
                       "file", "analysis", "bad_request"}

Threads == [pc : {"idle", "received", "log", "save", "metadata", "answered", "lost"},
            shape : Shapes \cup {NoShape}, id : Ids \cup {<< >>}, answer : Replies,
            saved : BOOLEAN]

Files == UNION {[S -> Kinds] : S \in SUBSET Ids}

HTTPTypes ==
    /\ server \in {"config", "waiting", "serving"}
    /\ inetsim \in BOOLEAN
    /\ now \in Nat
    /\ handler \in [Calls -> Threads]
    /\ dir \in [log : Seq(Ids), content : Files, metadata : Files]
    /\ unlogged \subseteq Ids
    /\ losses \in 0 .. MaxLosses

(* The ids under which something was logged, or should have been. *)
Traced == LoggedIds \cup unlogged

(* What a request has, and has left, by its step. *)
Located(q) ==
    /\ handler[q].pc = "idle" => handler[q].id = << >>
    /\ handler[q].pc # "idle" => handler[q].shape \in Shapes /\ handler[q].id \in Ids
    /\ handler[q].pc = "answered" <=> handler[q].answer # "none"
    /\ handler[q].pc \in {"save", "metadata"} =>
           strategy(handler[q].shape) \in Kinds /\ handler[q].id \in Traced
    /\ handler[q].pc = "metadata" => handler[q].id \in DOMAIN dir.content

(* A request that has saved content, or was answered as if it had. *)
Saver(q) == handler[q].pc \in {"metadata", "lost"} \/ handler[q].answer \in Kinds

(* Every file is traced, and some request saved it. *)
Owned ==
    /\ DOMAIN dir.metadata \subseteq DOMAIN dir.content
    /\ DOMAIN dir.content \subseteq Traced
    /\ \A id \in DOMAIN dir.content : \E q \in Calls : handler[q].id = id /\ Saver(q)

(* Under an id of its own a request finds what it saved. *)
Kept(q) ==
    Alone(q) =>
        /\ handler[q].pc = "metadata" => dir.content[handler[q].id] = strategy(handler[q].shape)
        /\ handler[q].answer \in Kinds /\ handler[q].saved =>
            /\ handler[q].id \in DOMAIN dir.metadata
            /\ dir.content[handler[q].id] = handler[q].answer
            /\ dir.metadata[handler[q].id] = handler[q].answer

TraceInv ==
    /\ HTTPTypes
    /\ \A q \in Calls : Located(q)
    /\ Owned
    /\ \A q \in Calls : Kept(q)

-----------------------------------------------------------------------------
(* Operators. *)

(* A set of numbers has a least element. *)
LEMMA LeastOf ==
    ASSUME NEW S, S \subseteq Nat, S # {}
    PROVE  \E x \in S : \A y \in S : x <= y
  <1>1. PICK x \in S : \A y \in S : ~(<<y, x>> \in OpToRel(<, Nat))
    BY NatLessThanWellFounded, WFMin
  <1>2. \A y \in S : ~(y < x)
    BY <1>1 DEF OpToRel
  <1> QED  BY <1>2

(* classify answers with a category: "unknown" matches whatever the request. *)
LEMMA ClassifyTotal ==
    ASSUME NEW s
    PROVE  classify(s) \in {"executable_download", "malicious", "data_exfiltration",
                            "authentication", "upload", "api_call", "static_content",
                            "file_download", "unknown"}
  <1> DEFINE hits == {i \in DOMAIN Categories : Matches(s)[Categories[i]]}
  <1>1. DOMAIN Categories = 1 .. 9 /\ Categories[9] = "unknown"
    BY DEF Categories
  <1>2. Matches(s)["unknown"]
    BY DEF Matches
  <1>3. hits \subseteq Nat /\ 9 \in hits
    BY <1>1, <1>2
  <1>4. \E i \in hits : \A j \in hits : i <= j
    BY <1>3, LeastOf
  <1>5. (CHOOSE i \in hits : \A j \in hits : i <= j) \in hits
    BY <1>4
  <1>6. \A i \in hits : Categories[i] \in
            {"executable_download", "malicious", "data_exfiltration", "authentication", "upload",
             "api_call", "static_content", "file_download", "unknown"}
    BY <1>1 DEF Categories
  <1> QED  BY <1>5, <1>6 DEF classify

(* What is answered to a request that is not for an executable is no file. *)
LEMMA AnswerTyped ==
    ASSUME NEW s, classify(s) # "executable_download"
    PROVE  Answer[classify(s)] \in Replies \ (Kinds \cup {"none"})
  BY ClassifyTotal DEF Answer, Replies, Kinds

(* The three strategies. *)
LEMMA StrategyTyped ==
    ASSUME NEW s
    PROVE  strategy(s) \in Kinds \cup {"blocked"}
  BY DEF strategy, Kinds

(* A file is written, over an older one of its name or beside the others. *)
LEMMA PutFile ==
    ASSUME NEW f \in Files, NEW id \in Ids, NEW kind \in Kinds
    PROVE  /\ Put(f, id, kind) \in Files
           /\ DOMAIN Put(f, id, kind) = DOMAIN f \cup {id}
           /\ Put(f, id, kind)[id] = kind
           /\ \A k \in DOMAIN f : k # id => Put(f, id, kind)[k] = f[k]
  <1>1. DOMAIN f \subseteq Ids /\ \A k \in DOMAIN f : f[k] \in Kinds
    BY DEF Files
  <1>2. Put(f, id, kind) \in [DOMAIN f \cup {id} -> Kinds]
    BY <1>1 DEF Put
  <1>3. DOMAIN f \cup {id} \in SUBSET Ids
    BY <1>1
  <1>4. Put(f, id, kind) \in Files
    BY <1>2, <1>3 DEF Files
  <1> QED  BY <1>2, <1>4 DEF Put

(* No file yet. *)
LEMMA NoFiles == << >> \in Files /\ DOMAIN << >> = {}
  <1>1. << >> \in [{} -> Kinds]
    OBVIOUS
  <1> QED  BY <1>1 DEF Files

(* An id is not empty. *)
LEMMA IdNotEmpty == << >> \notin Ids
  BY DEF Ids

(* The log grows. *)
LEMMA LogGrows ==
    ASSUME HTTPTypes, NEW id \in Ids, dir' = [dir EXCEPT !.log = Append(@, id)]
    PROVE  /\ dir' \in [log : Seq(Ids), content : Files, metadata : Files]
           /\ dir'.content = dir.content /\ dir'.metadata = dir.metadata
           /\ LoggedIds' = LoggedIds \cup {id}
  <1>1. dir.log \in Seq(Ids) /\ dir'.log = Append(dir.log, id)
    BY DEF HTTPTypes
  <1>2. dir' \in [log : Seq(Ids), content : Files, metadata : Files]
    <2>1. Append(dir.log, id) \in Seq(Ids)
      BY <1>1, AppendProperties
    <2> QED  BY <2>1 DEF HTTPTypes
  <1>3. Len(dir.log) \in Nat /\ DOMAIN dir.log = 1 .. Len(dir.log)
    BY <1>1, LenProperties
  <1>4. /\ DOMAIN dir'.log = 1 .. Len(dir.log) + 1
        /\ \A i \in 1 .. Len(dir.log) : dir'.log[i] = dir.log[i]
        /\ dir'.log[Len(dir.log) + 1] = id
    BY <1>1, <1>3, AppendProperties, LenProperties
  <1>5. LoggedIds' = LoggedIds \cup {id}
    BY <1>3, <1>4 DEF LoggedIds
  <1> QED  BY <1>2, <1>5 DEF HTTPTypes

-----------------------------------------------------------------------------
(* Steps of the HTTP simulation. *)

(* The thread of q is at another step; nothing else of it changes but its answer. *)
Moves(q, pc, answer, saved) ==
    /\ handler' \in [Calls -> Threads]
    /\ handler'[q].pc = pc /\ handler'[q].answer = answer /\ handler'[q].saved = saved
    /\ handler'[q].id = handler[q].id /\ handler'[q].shape = handler[q].shape
    /\ \A r \in Calls \ {q} : handler'[r] = handler[r]

(* Step only moves ... *)
LEMMA StepMoves ==
    ASSUME HTTPTypes, NEW q \in Calls, NEW pc, Step(q, pc),
           pc \in {"idle", "received", "log", "save", "metadata", "answered", "lost"}
    PROVE  Moves(q, pc, handler[q].answer, handler[q].saved)
  BY DEF HTTPTypes, Step, Threads, Moves

(* ... and Reply answers. *)
LEMMA ReplyMoves ==
    ASSUME HTTPTypes, NEW q \in Calls, NEW answer \in Replies, Reply(q, answer)
    PROVE  Moves(q, "answered", answer, handler[q].saved)
  BY DEF HTTPTypes, Reply, Threads, Moves

(* Ids do not change: a request alone under its id was so before. *)
LEMMA AloneKept ==
    ASSUME NEW q \in Calls, NEW pc, NEW answer, NEW saved, Moves(q, pc, answer, saved)
    PROVE  \A r \in Calls : Alone(r)' => Alone(r)
  BY DEF Alone, Moves

(* A step that changes no file: what is known is kept if it is kept for q. *)
LEMMA QuietStep ==
    ASSUME TraceInv, NEW q \in Calls, NEW pc, NEW answer, NEW saved,
           Moves(q, pc, answer, saved), Traced \subseteq Traced',
           dir'.content = dir.content, dir'.metadata = dir.metadata,
           Located(q)', Saver(q) => Saver(q)',
           answer \in Kinds => ~saved, pc # "metadata"
    PROVE  (\A r \in Calls : Located(r)') /\ Owned' /\ (\A r \in Calls : Kept(r)')
  <1>1. \A r \in Calls : handler'[r].id = handler[r].id
    BY DEF Moves
  <1>2. ASSUME NEW r \in Calls PROVE Located(r)'
    <2>1. CASE r = q
      BY <2>1
    <2>2. CASE r # q
      <3>1. handler'[r] = handler[r] /\ Located(r)
        BY <2>2 DEF Moves, TraceInv
      <3> QED  BY <3>1 DEF Located
    <2> QED  BY <2>1, <2>2
  <1>3. \A r \in Calls : Saver(r) => Saver(r)'
    BY DEF Moves, Saver
  <1>4. Owned'
    BY <1>1, <1>3 DEF TraceInv, Owned
  <1>5. ASSUME NEW r \in Calls PROVE Kept(r)'
    <2>1. CASE r = q
      BY <2>1 DEF Moves, Kept
    <2>2. CASE r # q
      <3>1. handler'[r] = handler[r] /\ Kept(r) /\ (Alone(r)' => Alone(r))
        BY <2>2, AloneKept DEF Moves, TraceInv
      <3> QED  BY <3>1 DEF Kept
    <2> QED  BY <2>1, <2>2
  <1> QED  BY <1>2, <1>4, <1>5

(* What is known of the files and the threads depends on nothing else. *)
LEMMA TraceSame ==
    ASSUME TraceInv, UNCHANGED <<handler, dir, unlogged>>, HTTPTypes'
    PROVE  TraceInv'
  BY DEF TraceInv, Located, Traced, LoggedIds, Owned, Saver, Kept, Alone

(* A request arrives. *)
LEMMA ReceiveStep ==
    ASSUME TraceInv, NEW q \in Calls, NEW s \in Shapes, Receive(q, s)
    PROVE  TraceInv'
  <1> DEFINE th == [Idle EXCEPT !.pc = "received", !.shape = s, !.id = <<now', s.url>>]
  <1>1. HTTPTypes /\ Located(q) /\ handler[q].pc = "idle"
    BY DEF TraceInv, Receive
  <1>2. now' \in Nat /\ <<now', s.url>> \in Ids
    BY <1>1, HTTPAssumption DEF Receive, HTTPTypes, Ids, HTTPAssumption, Shape
  <1>3. /\ th \in Threads /\ th.pc = "received" /\ th.shape = s /\ th.id \in Ids
        /\ th.answer = "none"
    BY <1>2 DEF Idle, Threads, Replies
  <1>4. handler' = [handler EXCEPT ![q] = th]
    BY DEF Receive
  <1> HIDE DEF th
  <1>5. /\ handler' \in [Calls -> Threads] /\ handler'[q] = th
        /\ \A r \in Calls \ {q} : handler'[r] = handler[r]
    BY <1>1, <1>3, <1>4 DEF HTTPTypes
  <1>6. UNCHANGED <<dir, unlogged, Traced>>
    BY DEF Receive, Traced, LoggedIds
  <1>7. HTTPTypes'
    BY <1>1, <1>2, <1>5 DEF HTTPTypes, Receive
  <1>8. handler[q].id = << >> /\ handler[q].answer = "none"
    BY <1>1 DEF Located
  <1>9. ASSUME NEW r \in Calls PROVE Located(r)'
    <2>1. CASE r = q
      BY <1>3, <1>5, <2>1 DEF Located, Replies, Kinds
    <2>2. CASE r # q
      BY <1>5, <1>6, <2>2 DEF Located, TraceInv
    <2> QED  BY <2>1, <2>2
  <1>10. Owned'
    <2>1. ~Saver(q)
      BY <1>1, <1>8 DEF Saver, Kinds
    <2>2. \A r \in Calls : Saver(r) => handler'[r].id = handler[r].id /\ Saver(r)'
      BY <1>5, <2>1 DEF Saver
    <2> QED  BY <1>6, <2>2 DEF TraceInv, Owned
  <1>11. ASSUME NEW r \in Calls PROVE Kept(r)'
    <2>1. CASE r = q
      BY <1>3, <1>5, <2>1 DEF Kept, Kinds
    <2>2. CASE r # q
      <3>1. handler'[r] = handler[r]
        BY <1>5, <2>2
      <3>2. CASE handler[r].pc = "idle"
        BY <3>1, <3>2 DEF Kept, TraceInv, Located, Kinds
      <3>3. CASE handler[r].pc # "idle"
        <4>1. handler[r].id # handler[q].id
          BY <1>8, <3>3, IdNotEmpty DEF TraceInv, Located
        <4>2. Alone(r)' => Alone(r)
          BY <1>5, <3>1, <4>1 DEF Alone
        <4> QED  BY <1>6, <3>1, <4>2 DEF Kept, TraceInv
      <3> QED  BY <3>2, <3>3
    <2> QED  BY <2>1, <2>2
  <1> QED  BY <1>7, <1>9, <1>10, <1>11 DEF TraceInv

(* A request is answered without a file, or turns out to be for an executable. *)
LEMMA AnsweredStep ==
    ASSUME TraceInv, NEW q \in Calls, handler[q].pc = "received",
           UNCHANGED <<server, inetsim, now, dir, unlogged, losses>>,
           NEW pc, NEW answer \in Replies \ Kinds, Moves(q, pc, answer, handler[q].saved),
           (pc = "answered" /\ answer # "none") \/ (pc = "log" /\ answer = "none")
    PROVE  TraceInv'
  <1>1. HTTPTypes /\ Located(q)
    BY DEF TraceInv
  <1>2. HTTPTypes'
    BY <1>1 DEF HTTPTypes, Moves
  <1>3. Traced' = Traced
    BY DEF Traced, LoggedIds
  <1>4. Located(q)'
    BY <1>1, <1>3 DEF Located, Moves
  <1>5. ~Saver(q)
    BY <1>1 DEF Saver, Located, Kinds
  <1>6. (\A r \in Calls : Located(r)') /\ Owned' /\ (\A r \in Calls : Kept(r)')
    BY <1>3, <1>4, <1>5, QuietStep
  <1> QED  BY <1>2, <1>6 DEF TraceInv

(* The routes. *)
LEMMA RouteStep ==
    ASSUME TraceInv, NEW q \in Calls,
         analyze_request(q) \/ simulate_request(q) \/ catch_all(q)
    PROVE  TraceInv'
  <1>1. /\ handler[q].pc = "received"
        /\ UNCHANGED <<server, inetsim, now, dir, unlogged, losses>>
    BY DEF analyze_request, simulate_request, catch_all, Routed
  <1>2. HTTPTypes /\ handler[q].answer = "none"
    BY <1>1 DEF TraceInv, Located
  <1>3. CASE \E answer \in {"analysis", "bad_request"} : Reply(q, answer)
    <2>1. PICK answer \in {"analysis", "bad_request"} : Reply(q, answer)
      BY <1>3
    <2>2. answer \in Replies \ Kinds /\ answer # "none"
      BY DEF Replies, Kinds
    <2>3. Moves(q, "answered", answer, handler[q].saved)
      BY <1>2, <2>1, <2>2, ReplyMoves
    <2> QED  BY <1>1, <2>2, <2>3, AnsweredStep
  <1>4. CASE generate_response(q)
    <2> DEFINE c == classify(handler[q].shape)
    <2>1. CASE c = "executable_download"
      <3>1. Moves(q, "log", handler[q].answer, handler[q].saved)
        BY <1>2, <1>4, <2>1, StepMoves DEF generate_response
      <3>2. "none" \in Replies \ Kinds
        BY DEF Replies, Kinds
      <3> QED  BY <1>1, <1>2, <3>1, <3>2, AnsweredStep
    <2>2. CASE c # "executable_download"
      <3>1. Answer[c] \in Replies \ (Kinds \cup {"none"})
        BY <2>2, AnswerTyped
      <3>2. Reply(q, Answer[c])
        BY <1>4, <2>2 DEF generate_response
      <3> HIDE DEF c
      <3>3. Moves(q, "answered", Answer[c], handler[q].saved)
        BY <1>2, <3>1, <3>2, ReplyMoves
      <3> QED  BY <1>1, <3>1, <3>3, AnsweredStep
    <2> QED  BY <2>1, <2>2
  <1> QED  BY <1>3, <1>4 DEF analyze_request, simulate_request, catch_all

(* The next number of losses. *)
LEMMA LoseTyped ==
    ASSUME HTTPTypes, Lose
    PROVE  losses' \in 0 .. MaxLosses
  BY HTTPAssumption DEF HTTPTypes, Lose, HTTPAssumption

(* The request is logged, or that fails; then it is blocked or goes on. *)
LEMMA LogStep ==
    ASSUME TraceInv, NEW q \in Calls, _log_executable_request(q) \/ LogFails(q)
    PROVE  TraceInv'
  <1>1. /\ HTTPTypes /\ Located(q) /\ handler[q].pc = "log" /\ AfterLog(q)
        /\ UNCHANGED <<server, inetsim, now>>
    BY DEF TraceInv, _log_executable_request, LogFails
  <1>2. handler[q].id \in Ids /\ handler[q].answer = "none"
    BY <1>1 DEF Located
  <1>3. /\ dir' \in [log : Seq(Ids), content : Files, metadata : Files]
        /\ dir'.content = dir.content /\ dir'.metadata = dir.metadata
        /\ unlogged' \subseteq Ids
        /\ Traced \subseteq Traced' /\ handler[q].id \in Traced'
        /\ losses' \in 0 .. MaxLosses
    <2>1. CASE _log_executable_request(q)
      <3>1. dir' = [dir EXCEPT !.log = Append(@, handler[q].id)]
        BY <2>1 DEF _log_executable_request
      <3>2. UNCHANGED <<unlogged, losses>>
        BY <2>1 DEF _log_executable_request
      <3>3. /\ dir' \in [log : Seq(Ids), content : Files, metadata : Files]
            /\ dir'.content = dir.content /\ dir'.metadata = dir.metadata
            /\ LoggedIds' = LoggedIds \cup {handler[q].id}
        BY <1>1, <1>2, <3>1, LogGrows
      <3> QED  BY <1>1, <3>2, <3>3 DEF Traced, HTTPTypes
    <2>2. CASE LogFails(q)
      <3>1. dir' = dir /\ unlogged' = unlogged \cup {handler[q].id}
        BY <2>2 DEF LogFails
      <3>2. losses' \in 0 .. MaxLosses
        BY <1>1, <2>2, LoseTyped DEF LogFails
      <3> QED  BY <1>1, <1>2, <3>1, <3>2 DEF Traced, HTTPTypes, LoggedIds
    <2> QED  BY <2>1, <2>2
  <1>4. ~Saver(q)
    BY <1>1, <1>2 DEF Saver, Kinds
  <1>5. CASE strategy(handler[q].shape) = "blocked"
    <2>1. "blocked" \in Replies
      BY DEF Replies
    <2>2. Reply(q, "blocked")
      BY <1>1, <1>5 DEF AfterLog
    <2>3. Moves(q, "answered", "blocked", handler[q].saved)
      BY <1>1, <2>1, <2>2, ReplyMoves
    <2>4. Located(q)' /\ "blocked" \notin Kinds
      BY <1>1, <2>3 DEF Located, Moves, Kinds
    <2>5. (\A r \in Calls : Located(r)') /\ Owned' /\ (\A r \in Calls : Kept(r)')
      BY <1>3, <1>4, <2>3, <2>4, QuietStep
    <2>6. HTTPTypes'
      BY <1>1, <1>3, <2>3 DEF HTTPTypes, Moves
    <2> QED  BY <2>5, <2>6 DEF TraceInv
  <1>6. CASE strategy(handler[q].shape) # "blocked"
    <2>1. strategy(handler[q].shape) \in Kinds
      BY <1>6, StrategyTyped
    <2>2. Step(q, "save")
      BY <1>1, <1>6 DEF AfterLog
    <2>3. Moves(q, "save", handler[q].answer, handler[q].saved)
      BY <1>1, <2>2, StepMoves
    <2>4. Located(q)' /\ handler[q].answer \notin Kinds
      BY <1>1, <1>2, <1>3, <2>1, <2>3 DEF Located, Moves, Kinds
    <2>5. (\A r \in Calls : Located(r)') /\ Owned' /\ (\A r \in Calls : Kept(r)')
      BY <1>3, <1>4, <2>3, <2>4, QuietStep
    <2>6. HTTPTypes'
      BY <1>1, <1>3, <2>3 DEF HTTPTypes, Moves
    <2> QED  BY <2>5, <2>6 DEF TraceInv
  <1> QED  BY <1>5, <1>6

(* The content is saved under the id of the request. *)
LEMMA ContentStep ==
    ASSUME TraceInv, NEW q \in Calls, SaveContent(q)
    PROVE  TraceInv'
  <1> DEFINE id == handler[q].id
             kind == strategy(handler[q].shape)
  <1>1. HTTPTypes /\ Located(q) /\ handler[q].pc = "save"
    BY DEF TraceInv, SaveContent
  <1>2. id \in Ids /\ kind \in Kinds /\ id \in Traced /\ handler[q].answer = "none"
    BY <1>1 DEF Located
  <1>3. dir' = [dir EXCEPT !.content = Put(dir.content, id, kind)]
    BY DEF SaveContent, executable_content
  <1>4. dir.content \in Files
    BY <1>1 DEF HTTPTypes
  <1>5. Moves(q, "metadata", handler[q].answer, handler[q].saved)
    BY <1>1, StepMoves DEF SaveContent
  <1> HIDE DEF id, kind
  <1>6. /\ Put(dir.content, id, kind) \in Files
        /\ DOMAIN Put(dir.content, id, kind) = DOMAIN dir.content \cup {id}
        /\ Put(dir.content, id, kind)[id] = kind
        /\ \A k \in DOMAIN dir.content : k # id => Put(dir.content, id, kind)[k] = dir.content[k]
    BY <1>2, <1>4, PutFile
  <1>7. /\ dir'.log = dir.log /\ dir'.metadata = dir.metadata
        /\ dir'.content = Put(dir.content, id, kind)
        /\ dir' \in [log : Seq(Ids), content : Files, metadata : Files]
    BY <1>1, <1>3, <1>6 DEF HTTPTypes
  <1>8. Traced' = Traced
    BY <1>7 DEF SaveContent, Traced, LoggedIds
  <1>9. HTTPTypes'
    BY <1>1, <1>5, <1>7 DEF HTTPTypes, Moves, SaveContent
  <1>10. handler'[q].id = id /\ handler'[q].pc = "metadata"
    BY <1>5 DEF Moves, id
  <1>11. ASSUME NEW r \in Calls PROVE Located(r)'
    <2>1. CASE r = q
      <3>1. id \in DOMAIN dir'.content
        BY <1>6, <1>7
      <3>2. strategy(handler'[q].shape) \in Kinds /\ handler'[q].answer = "none"
        BY <1>2, <1>5 DEF Moves, kind
      <3>3. handler'[q].shape \in Shapes
        BY <1>1, <1>5 DEF Moves, Located
      <3> QED  BY <1>2, <1>8, <1>10, <2>1, <3>1, <3>2, <3>3 DEF Located
    <2>2. CASE r # q
      <3>1. handler'[r] = handler[r] /\ Located(r)
        BY <1>5, <2>2 DEF Moves, TraceInv
      <3>2. DOMAIN dir.content \subseteq DOMAIN dir'.content
        BY <1>6, <1>7
      <3> QED  BY <1>8, <3>1, <3>2 DEF Located
    <2> QED  BY <2>1, <2>2
  <1>12. Owned'
    <2>1. /\ DOMAIN dir'.metadata \subseteq DOMAIN dir'.content
          /\ DOMAIN dir'.content \subseteq Traced'
      BY <1>2, <1>6, <1>7, <1>8 DEF TraceInv, Owned
    <2>2. ASSUME NEW k \in DOMAIN dir'.content
          PROVE  \E r \in Calls : handler'[r].id = k /\ Saver(r)'
      <3>1. CASE k = id
        BY <1>10, <3>1 DEF Saver
      <3>2. CASE k # id
        <4>1. k \in DOMAIN dir.content
          BY <1>6, <1>7, <3>2
        <4>2. PICK r \in Calls : handler[r].id = k /\ Saver(r)
          BY <4>1 DEF TraceInv, Owned
        <4>3. r # q
          BY <3>2, <4>2 DEF id
        <4> QED  BY <1>5, <4>2, <4>3 DEF Moves, Saver
      <3> QED  BY <3>1, <3>2
    <2> QED  BY <2>1, <2>2 DEF Owned
  <1>13. ASSUME NEW r \in Calls PROVE Kept(r)'
    <2>1. CASE r = q
      <3>1. dir'.content[handler'[q].id] = strategy(handler'[q].shape)
        BY <1>5, <1>6, <1>7, <1>10 DEF Moves, kind
      <3>2. handler'[q].answer \notin Kinds
        BY <1>2, <1>5 DEF Moves, Kinds
      <3> QED  BY <2>1, <3>1, <3>2 DEF Kept
    <2>2. CASE r # q
      <3> SUFFICES ASSUME Alone(r)' PROVE Kept(r)'
        BY DEF Kept
      <3>1. handler'[r] = handler[r] /\ Kept(r) /\ Alone(r) /\ Located(r)
        BY <1>5, <2>2, AloneKept DEF Moves, TraceInv
      <3>2. handler[r].id # id
        BY <2>2, <3>1 DEF Alone, id
      <3>3. handler[r].id \in DOMAIN dir.content => dir'.content[handler[r].id] = dir.content[handler[r].id]
        BY <1>6, <1>7, <3>2
      <3>4. handler[r].id \in DOMAIN dir.metadata => handler[r].id \in DOMAIN dir.content
        BY DEF TraceInv, Owned
      <3> QED  BY <1>7, <3>1, <3>3, <3>4 DEF Kept, Located
    <2> QED  BY <2>1, <2>2
  <1> QED  BY <1>9, <1>11, <1>12, <1>13 DEF TraceInv

(* The metadata follow, and the client is answered with what was saved. *)
LEMMA MetadataStep ==
    ASSUME TraceInv, NEW q \in Calls, SaveMetadata(q)
    PROVE  TraceInv'
  <1> DEFINE id == handler[q].id
             kind == strategy(handler[q].shape)
  <1>1. HTTPTypes /\ Located(q) /\ handler[q].pc = "metadata"
    BY DEF TraceInv, SaveMetadata
  <1>2. id \in Ids /\ kind \in Kinds /\ id \in Traced /\ id \in DOMAIN dir.content
    BY <1>1 DEF Located
  <1>3. dir' = [dir EXCEPT !.metadata = Put(dir.metadata, id, kind)]
    BY DEF SaveMetadata, executable_content
  <1>4. dir.metadata \in Files
    BY <1>1 DEF HTTPTypes
  <1>5. Moves(q, "answered", kind, handler[q].saved)
    <2>1. kind \in Replies
      BY <1>2 DEF Replies
    <2>2. Reply(q, kind)
      BY DEF SaveMetadata, executable_content
    <2> HIDE DEF kind
    <2> QED  BY <1>1, <2>1, <2>2, ReplyMoves
  <1> HIDE DEF id, kind
  <1>6. /\ Put(dir.metadata, id, kind) \in Files
        /\ DOMAIN Put(dir.metadata, id, kind) = DOMAIN dir.metadata \cup {id}
        /\ Put(dir.metadata, id, kind)[id] = kind
        /\ \A k \in DOMAIN dir.metadata : k # id => Put(dir.metadata, id, kind)[k] = dir.metadata[k]
    BY <1>2, <1>4, PutFile
  <1>7. /\ dir'.log = dir.log /\ dir'.content = dir.content
        /\ dir'.metadata = Put(dir.metadata, id, kind)
        /\ dir' \in [log : Seq(Ids), content : Files, metadata : Files]
    BY <1>1, <1>3, <1>6 DEF HTTPTypes
  <1>8. Traced' = Traced
    BY <1>7 DEF SaveMetadata, Traced, LoggedIds
  <1>9. HTTPTypes'
    BY <1>1, <1>5, <1>7 DEF HTTPTypes, Moves, SaveMetadata
  <1>10. /\ handler'[q].id = id /\ handler'[q].pc = "answered" /\ handler'[q].answer = kind
         /\ kind # "none"
    BY <1>2, <1>5 DEF Moves, id, Kinds
  <1>11. ASSUME NEW r \in Calls PROVE Located(r)'
    <2>1. CASE r = q
      <3>1. handler'[q].shape \in Shapes
        BY <1>1, <1>5 DEF Moves, Located
      <3> QED  BY <1>2, <1>10, <2>1, <3>1 DEF Located
    <2>2. CASE r # q
      BY <1>5, <1>7, <1>8, <2>2 DEF Moves, TraceInv, Located
    <2> QED  BY <2>1, <2>2
  <1>12. Owned'
    <2>1. /\ DOMAIN dir'.metadata \subseteq DOMAIN dir'.content
          /\ DOMAIN dir'.content \subseteq Traced'
      BY <1>2, <1>6, <1>7, <1>8 DEF TraceInv, Owned
    <2>2. \A r \in Calls : Saver(r) => handler'[r].id = handler[r].id /\ Saver(r)'
      BY <1>2, <1>5, <1>10 DEF Moves, Saver
    <2> QED  BY <1>7, <2>1, <2>2 DEF TraceInv, Owned
  <1>13. ASSUME NEW r \in Calls PROVE Kept(r)'
    <2> SUFFICES ASSUME Alone(r)' PROVE Kept(r)'
      BY DEF Kept
    <2>1. Alone(r) /\ Kept(r)
      BY <1>5, AloneKept DEF TraceInv
    <2>2. CASE r = q
      <3>1. dir.content[id] = kind
        BY <1>1, <2>1, <2>2 DEF Kept, id, kind
      <3> QED  BY <1>6, <1>7, <1>10, <2>2, <3>1 DEF Kept
    <2>3. CASE r # q
      <3>1. handler'[r] = handler[r] /\ handler[r].id # id
        BY <1>5, <2>1, <2>3 DEF Moves, Alone, id
      <3> QED  BY <1>6, <1>7, <2>1, <3>1 DEF Kept
    <2> QED  BY <2>2, <2>3
  <1> QED  BY <1>9, <1>11, <1>12, <1>13 DEF TraceInv

(* A write fails, and the client is answered all the same. *)
LEMMA SaveFailsStep ==
    ASSUME TraceInv, NEW q \in Calls, SaveFails(q)
    PROVE  TraceInv'
  <1> DEFINE kind == strategy(handler[q].shape)
  <1>1. HTTPTypes /\ Located(q) /\ handler[q].pc \in {"save", "metadata"}
    BY DEF TraceInv, SaveFails
  <1>2. kind \in Kinds /\ kind \in Replies /\ kind # "none"
    BY <1>1 DEF Located, Replies, Kinds
  <1>3. Moves(q, "answered", kind, FALSE)
    <2>1. handler' = [handler EXCEPT ![q].pc = "answered", ![q].saved = FALSE, ![q].answer = kind]
      BY DEF SaveFails, executable_content
    <2> HIDE DEF kind
    <2> QED  BY <1>1, <1>2, <2>1 DEF HTTPTypes, Threads, Moves
  <1> HIDE DEF kind
  <1>4. UNCHANGED <<server, inetsim, now, dir, unlogged, Traced>>
    BY DEF SaveFails, Traced, LoggedIds
  <1>5. losses' \in 0 .. MaxLosses
    BY <1>1, LoseTyped DEF SaveFails
  <1>6. HTTPTypes'
    BY <1>1, <1>3, <1>4, <1>5 DEF HTTPTypes, Moves
  <1>7. Located(q)'
    BY <1>1, <1>2, <1>3 DEF Located, Moves
  <1>8. Saver(q)'
    BY <1>2, <1>3 DEF Moves, Saver
  <1>9. (\A r \in Calls : Located(r)') /\ Owned' /\ (\A r \in Calls : Kept(r)')
    BY <1>3, <1>4, <1>7, <1>8, QuietStep
  <1> QED  BY <1>6, <1>9 DEF TraceInv

(* A restart loses requests, and nothing of the directory. *)
LEMMA RestartServerStep ==
    ASSUME TraceInv, ServerRestarts
    PROVE  TraceInv'
  <1>1. HTTPTypes
    BY DEF TraceInv
  <1>2. UNCHANGED <<inetsim, now, dir, unlogged, Traced>> /\ server' = "config"
    BY DEF ServerRestarts, Traced, LoggedIds
  <1>3. losses' \in 0 .. MaxLosses
    BY <1>1, LoseTyped DEF ServerRestarts
  <1>4. /\ handler' \in [Calls -> Threads]
        /\ \A q \in Calls :
            /\ handler'[q].id = handler[q].id /\ handler'[q].shape = handler[q].shape
            /\ handler'[q].answer = handler[q].answer /\ handler'[q].saved = handler[q].saved
            /\ \/ handler[q].pc \in {"idle", "answered"} /\ handler'[q].pc = handler[q].pc
               \/ handler[q].pc \notin {"idle", "answered"} /\ handler'[q].pc = "lost"
    BY <1>1 DEF ServerRestarts, HTTPTypes, Threads
  <1>5. HTTPTypes'
    BY <1>1, <1>2, <1>3, <1>4 DEF HTTPTypes
  <1>6. \A q \in Calls : Located(q)'
    BY <1>2, <1>4 DEF TraceInv, Located
  <1>7. \A q \in Calls : Saver(q) => Saver(q)'
    BY <1>4 DEF TraceInv, Located, Saver
  <1>8. Owned'
    BY <1>2, <1>4, <1>7 DEF TraceInv, Owned
  <1>9. ASSUME NEW q \in Calls PROVE Kept(q)'
    <2>1. Alone(q)' => Alone(q)
      BY <1>4 DEF Alone
    <2> QED  BY <1>2, <1>4, <2>1 DEF TraceInv, Kept
  <1> QED  BY <1>5, <1>6, <1>8, <1>9 DEF TraceInv

(* TraceInv holds before the server starts ... *)
LEMMA TraceInit ==
    ASSUME HTTPInit
    PROVE  TraceInv
  <1>1. Idle \in Threads /\ Idle.pc = "idle" /\ Idle.id = << >> /\ Idle.answer = "none"
    BY DEF Idle, Threads, Replies
  <1>2. \A q \in Calls : handler[q] = Idle
    BY DEF HTTPInit
  <1>3. /\ dir.log = << >> /\ dir.content = << >> /\ dir.metadata = << >>
        /\ dir \in [log : Seq(Ids), content : Files, metadata : Files]
    BY NoFiles DEF HTTPInit
  <1>4. HTTPTypes
    <2>1. handler \in [Calls -> Threads]
      BY <1>1 DEF HTTPInit
    <2>2. losses \in 0 .. MaxLosses
      BY HTTPAssumption DEF HTTPInit, HTTPAssumption
    <2> QED  BY <1>3, <2>1, <2>2 DEF HTTPInit, HTTPTypes
  <1>5. \A q \in Calls : Located(q)
    BY <1>1, <1>2 DEF Located
  <1>6. Owned
    BY <1>3, NoFiles DEF Owned
  <1>7. \A q \in Calls : Kept(q)
    BY <1>1, <1>2 DEF Kept, Kinds
  <1> QED  BY <1>4, <1>5, <1>6, <1>7 DEF TraceInv

(* ... and every step of the simulation keeps it. *)
LEMMA TraceStep ==
    ASSUME TraceInv, [HTTPNext]_httpVars
    PROVE  TraceInv'
  <1>1. CASE StartUp
    <2>1. UNCHANGED <<handler, dir, unlogged>>
      BY <1>1 DEF StartUp, generate_config, InetsimUp, StartFlask
    <2>2. HTTPTypes'
      BY <1>1 DEF StartUp, generate_config, InetsimUp, StartFlask, TraceInv, HTTPTypes
    <2> QED  BY <2>1, <2>2, TraceSame
  <1>2. CASE UNCHANGED httpVars
    <2>1. HTTPTypes'
      BY <1>2 DEF httpVars, TraceInv, HTTPTypes
    <2> QED  BY <1>2, <2>1, TraceSame DEF httpVars
  <1> QED
    BY <1>1, <1>2, ReceiveStep, RouteStep, LogStep, ContentStep, MetadataStep,
         SaveFailsStep,
       RestartServerStep
    DEF HTTPNext, Handle

(* What TraceInv says of the files is what the sample was promised. *)
LEMMA TraceInvImplies ==
    ASSUME TraceInv
    PROVE  ServedIsTraced
  <1>1. /\ DOMAIN dir.metadata \subseteq DOMAIN dir.content
        /\ DOMAIN dir.content \subseteq LoggedIds \cup unlogged
    BY DEF TraceInv, Owned, Traced
  <1>2. ASSUME NEW q \in Calls, Alone(q), handler[q].answer = "blocked"
        PROVE  handler[q].id \notin DOMAIN dir.content
    <2>1. ~Saver(q)
      BY <1>2 DEF TraceInv, Located, Saver, Kinds
    <2>2. \A r \in Calls : handler[r].id = handler[q].id => r = q
      BY <1>2 DEF Alone
    <2> QED  BY <2>1, <2>2 DEF TraceInv, Owned
  <1>3. ASSUME NEW q \in Calls, Alone(q)
        PROVE  handler[q].answer \in {"sandbox_fake", "honeypot"} /\ handler[q].saved =>
                    /\ handler[q].id \in DOMAIN dir.metadata
                    /\ dir.content[handler[q].id] = handler[q].answer
                    /\ dir.metadata[handler[q].id] = handler[q].answer
    BY <1>3 DEF TraceInv, Kept, Kinds
  <1> QED  BY <1>1, <1>2, <1>3 DEF ServedIsTraced

-----------------------------------------------------------------------------
(* The artifacts: what has been captured and written by each step. *)

Queries == {i \in DOMAIN Events : Events[i].type = "dns_query" /\ Events[i].name # None}

Downloads == {i \in DOMAIN Events : Events[i].type = "file_download"}

Names == {Events[i].name : i \in DOMAIN Events}

Marks == [file : Names, host : {Events[i].host : i \in DOMAIN Events}]

InjectionSteps == {"dns", "unlink", "schema", "rows", "zones", "linux", "files"}

(* Of the first n events the queries and the downloads are captured. *)
Captured(sn, n) ==
    /\ \A i \in Queries : i <= n /\ Profile.jitter >= 30 =>
           \E j \in DOMAIN sn.dns : sn.dns[j] = Events[i].name
    /\ \A i \in Downloads : i <= n => \E j \in DOMAIN sn.downloads :
           sn.downloads[j].file = Events[i].name

(* Nothing else is captured. *)
OnlyQueries(queries) ==
    /\ queries \in Seq(Names)
    /\ \A j \in DOMAIN queries : \E i \in Queries : queries[j] = Events[i].name

EntryStates ==
    [pc : InjectionSteps \cup {"emit", "done"}, at : Nat \ {0}, identity : Identities \cup {None},
     failed : SUBSET {"dns", "http", "linux"}]

EntryTypes ==
    /\ entry \in EntryStates
    /\ OnlyQueries(seen.dns)
    /\ seen.downloads \in Seq(Marks)
    /\ volume = [dns |-> volume.dns, history |-> volume.history, zones |-> volume.zones,
                 linux |-> volume.linux]
    /\ volume.linux = [p \in Paths |-> volume.linux[p]]
    /\ boots \in Nat /\ boots >= 1 /\ boots <= failures + 1
    /\ failures \in 0 .. MaxFailures

(* The events are captured in order, and all of them before anything is written. *)
EventsCaptured ==
    /\ entry.pc = "emit" => Captured(seen, entry.at - 1)
    /\ entry.pc \in InjectionSteps => Captured(seen, Len(Events))

(* The DNS cache holds the captured queries. *)
DnsWritten ==
    /\ volume.dns \in DnsCache
    /\ Profile.jitter >= 30 => ToSet(volume.dns.queries) = EventNames("dns_query") \ {None}

DnsKept ==
    entry.pc \in (InjectionSteps \ {"dns"}) \cup {"done"} /\ "dns" \notin entry.failed => DnsWritten

(* The marks of the downloads are written one by one. *)
Marked(file) == file \in DOMAIN volume.zones /\ volume.zones[file] # Torn

ZonesKept ==
    /\ entry.pc = "zones" => \A j \in DOMAIN seen.downloads :
           j < entry.at => Marked(seen.downloads[j].file)
    /\ entry.pc \in {"linux", "files", "done"} /\ "http" \notin entry.failed =>
           \A f \in EventNames("file_download") : Marked(f)

(* So are the files of the host, for one identity and one start. *)
FilesOf(identity, n) ==
    \A j \in DOMAIN LinuxFiles : j < n =>
        volume.linux[PathOf(LinuxFiles[j], identity)] = [identity |-> identity, boot |-> boots]

(* What a file of a home may hold: what one of the first n starts wrote for the
   identity whose home it is, or a part of it. *)
LeftOver(p, n) ==
    \/ volume.linux[p] \in {None, Torn}
    \/ volume.linux[p] \in [identity : {p.home}, boot : 1 .. n]

(* This start writes to no home but that of its identity. *)
HomesBut(identity) ==
    \A p \in Paths : p.home \notin {identity, None} => LeftOver(p, boots - 1)

BeforeFiles == {"emit", "dns", "unlink", "schema", "rows", "zones", "linux"}

HostKept ==
    /\ \A p \in Paths : p.home # None => LeftOver(p, boots)
    /\ entry.pc \in BeforeFiles => HomesBut(None)
    /\ entry.pc = "files" =>
           /\ entry.identity \in Identities
           /\ FilesOf(entry.identity, entry.at) /\ HomesBut(entry.identity)
    /\ entry.pc = "done" /\ "linux" \notin entry.failed =>
           \E i \in Identities :
               /\ \A f \in ToSet(LinuxFiles) :
                      volume.linux[PathOf(f, i)] = [identity |-> i, boot |-> boots]
               /\ HomesBut(i)

WholeInv == EntryTypes /\ EventsCaptured /\ DnsKept /\ ZonesKept /\ HostKept

(* The events and the files of the host are lists. *)
LEMMA Lists ==
    /\ DOMAIN Events = 1 .. Len(Events) /\ Len(Events) \in Nat
    /\ DOMAIN LinuxFiles = 1 .. Len(LinuxFiles) /\ Len(LinuxFiles) \in Nat
    /\ ToSet(LinuxFiles) = {LinuxFiles[j] : j \in DOMAIN LinuxFiles}
  <1>1. Events \in Seq(ToSet(Events)) /\ LinuxFiles \in Seq(ToSet(LinuxFiles))
    BY ArtifactAssumption DEF ArtifactAssumption
  <1>2. ToSet(LinuxFiles) = {LinuxFiles[j] : j \in DOMAIN LinuxFiles}
    BY DEF ToSet
  <1> QED  BY <1>1, <1>2, LenProperties

(* Files have paths of their own, and those of two homes differ. *)
LEMMA PathFacts ==
    ASSUME NEW f \in ToSet(LinuxFiles), NEW i \in Identities
    PROVE  /\ PathOf(f, i) \in Paths /\ PathOf(f, i).file = f
           /\ PathOf(f, i).home \in {i, None}
  BY DEF Paths, PathOf

(* Before the files of the host are written, the homes are as they were. *)
LEMMA HostSame ==
    ASSUME HostKept, entry.pc \in BeforeFiles, entry'.pc \in BeforeFiles,
           boots' = boots, volume'.linux = volume.linux
    PROVE  HostKept'
  <1>1. \A p, n : LeftOver(p, n)' <=> LeftOver(p, n)
    BY DEF LeftOver
  <1>2. \A p \in Paths : p.home # None => LeftOver(p, boots)'
    BY <1>1 DEF HostKept
  <1>3. HomesBut(None)'
    BY <1>1 DEF HostKept, HomesBut
  <1> QED  BY <1>2, <1>3 DEF HostKept, BeforeFiles

(* A list that grows. *)
LEMMA ListGrows ==
    ASSUME NEW S, NEW s \in Seq(S), NEW x \in S
    PROVE  /\ Append(s, x) \in Seq(S)
           /\ \A j \in DOMAIN s : j \in DOMAIN Append(s, x) /\ Append(s, x)[j] = s[j]
           /\ \A j \in DOMAIN Append(s, x) : j \in DOMAIN s \/ Append(s, x)[j] = x
           /\ \E j \in DOMAIN Append(s, x) : Append(s, x)[j] = x
  <1>1. Len(s) \in Nat /\ DOMAIN s = 1 .. Len(s)
    BY LenProperties
  <1>2. /\ Append(s, x) \in Seq(S) /\ Len(Append(s, x)) = Len(s) + 1
        /\ \A j \in 1 .. Len(s) : Append(s, x)[j] = s[j]
        /\ Append(s, x)[Len(s) + 1] = x
    BY AppendProperties
  <1>3. DOMAIN Append(s, x) = 1 .. Len(s) + 1
    BY <1>1, <1>2, LenProperties
  <1> QED  BY <1>1, <1>2, <1>3

(* An event is offered to every extension, and captured by the one it is for. *)
LEMMA DispatchStep ==
    ASSUME WholeInv, dispatch
    PROVE  WholeInv'
  <1> DEFINE at == entry.at
             e == Events[at]
  <1>1. /\ EntryTypes /\ EventsCaptured /\ entry.pc = "emit"
        /\ at \in DOMAIN Events /\ at \in Nat \ {0}
    BY Lists DEF WholeInv, dispatch, EntryTypes, EntryStates
  <1>2. Captured(seen, at - 1)
    BY <1>1 DEF EventsCaptured
  <1>3. /\ seen'.dns = DnsEvent(e) /\ seen'.downloads = DownloadEvent(e)
        /\ entry' = [entry EXCEPT !.at = at + 1]
        /\ UNCHANGED <<volume, boots, failures>>
    BY DEF dispatch
  <1>4. /\ seen.dns \in Seq(Names) /\ seen.downloads \in Seq(Marks) /\ e.name \in Names
        /\ \A j \in DOMAIN seen.dns : \E i \in Queries : seen.dns[j] = Events[i].name
    BY <1>1 DEF EntryTypes, OnlyQueries, Names
  <1>5. /\ OnlyQueries(seen'.dns)
        /\ \A j \in DOMAIN seen.dns : j \in DOMAIN seen'.dns /\ seen'.dns[j] = seen.dns[j]
        /\ at \in Queries /\ Profile.jitter >= 30 => \E j \in DOMAIN seen'.dns : seen'.dns[j] = e.name
    <2>1. CASE at \in Queries /\ Profile.jitter >= 30
      <3>1. seen'.dns = Append(seen.dns, e.name)
        BY <1>3, <2>1 DEF DnsEvent, Queries
      <3>2. /\ seen'.dns \in Seq(Names)
            /\ \A j \in DOMAIN seen.dns : j \in DOMAIN seen'.dns /\ seen'.dns[j] = seen.dns[j]
            /\ \A j \in DOMAIN seen'.dns : j \in DOMAIN seen.dns \/ seen'.dns[j] = e.name
            /\ \E j \in DOMAIN seen'.dns : seen'.dns[j] = e.name
        BY <1>4, <3>1, ListGrows
      <3> QED  BY <1>4, <2>1, <3>2 DEF OnlyQueries
    <2>2. CASE ~(at \in Queries /\ Profile.jitter >= 30)
      <3>1. seen'.dns = seen.dns
        BY <1>1, <1>3, <2>2 DEF DnsEvent, Queries
      <3> QED  BY <1>4, <2>2, <3>1 DEF OnlyQueries
    <2> QED  BY <2>1, <2>2
  <1>6. /\ seen'.downloads \in Seq(Marks)
        /\ \A j \in DOMAIN seen.downloads :
               j \in DOMAIN seen'.downloads /\ seen'.downloads[j] = seen.downloads[j]
        /\ at \in Downloads => \E j \in DOMAIN seen'.downloads : seen'.downloads[j].file = e.name
    <2> DEFINE mark == [file |-> e.name, host |-> e.host]
    <2>1. CASE at \in Downloads
      <3>1. seen'.downloads = Append(seen.downloads, mark)
        BY <1>3, <2>1 DEF DownloadEvent, Downloads
      <3>2. mark \in Marks /\ mark.file = e.name
        BY <1>1, <1>4 DEF Marks
      <3> HIDE DEF mark
      <3>3. /\ seen'.downloads \in Seq(Marks)
            /\ \A j \in DOMAIN seen.downloads :
                   j \in DOMAIN seen'.downloads /\ seen'.downloads[j] = seen.downloads[j]
            /\ \E j \in DOMAIN seen'.downloads : seen'.downloads[j] = mark
        BY <1>4, <3>1, <3>2, ListGrows
      <3> QED  BY <3>2, <3>3
    <2>2. CASE at \notin Downloads
      <3>1. seen'.downloads = seen.downloads
        BY <1>1, <1>3, <2>2 DEF DownloadEvent, Downloads
      <3> QED  BY <1>4, <2>2, <3>1
    <2> QED  BY <2>1, <2>2
  <1>7. entry'.pc = "emit" /\ entry'.at = at + 1
    BY <1>1, <1>3 DEF EntryTypes, EntryStates
  <1>8. Captured(seen', at)
    <2>1. \A i \in DOMAIN Events : i <= at => i <= at - 1 \/ i = at
      BY <1>1, Lists
    <2>2. ASSUME NEW i \in Queries, i <= at, Profile.jitter >= 30
          PROVE  \E j \in DOMAIN seen'.dns : seen'.dns[j] = Events[i].name
      BY <1>2, <1>5, <2>1, <2>2 DEF Captured, Queries
    <2>3. ASSUME NEW i \in Downloads, i <= at
          PROVE  \E j \in DOMAIN seen'.downloads : seen'.downloads[j].file = Events[i].name
      BY <1>2, <1>6, <2>1, <2>3 DEF Captured, Downloads
    <2> QED  BY <2>2, <2>3 DEF Captured
  <1>9. EventsCaptured'
    <2>1. entry'.at - 1 = at
      BY <1>1, <1>7
    <2> QED  BY <1>7, <1>8, <2>1 DEF EventsCaptured, InjectionSteps
  <1>10. EntryTypes'
    <2>1. at + 1 \in Nat \ {0}
      BY <1>1
    <2>2. entry' \in EntryStates
      BY <1>1, <1>3, <2>1 DEF EntryTypes, EntryStates
    <2> QED  BY <1>1, <1>3, <1>5, <1>6, <2>2 DEF EntryTypes, OnlyQueries
  <1>11. HostKept'
    BY <1>1, <1>3, <1>7, HostSame DEF WholeInv, BeforeFiles
  <1> QED  BY <1>7, <1>9, <1>10, <1>11 DEF WholeInv, DnsKept, ZonesKept, InjectionSteps

(* Another step of the injection. *)
LEMMA EntryMoves ==
    ASSUME EntryTypes, NEW pc \in InjectionSteps \cup {"emit", "done"}, EntryGoto(pc)
    PROVE  /\ entry' \in EntryStates
           /\ entry'.pc = pc /\ entry'.at = 1 /\ entry'.failed = entry.failed
           /\ entry'.identity = entry.identity
  <1>1. entry \in EntryStates /\ entry' = [entry EXCEPT !.pc = pc, !.at = 1]
    BY DEF EntryTypes, EntryGoto
  <1>2. 1 \in Nat \ {0}
    OBVIOUS
  <1> QED  BY <1>1, <1>2 DEF EntryStates

(* All events have been offered. *)
LEMMA BeginStep ==
    ASSUME WholeInv, BeginInject
    PROVE  WholeInv'
  <1>1. /\ EntryTypes /\ Captured(seen, entry.at - 1) /\ entry.at \in Nat /\ entry.at > Len(Events)
        /\ UNCHANGED <<seen, volume, boots, failures>>
    BY DEF WholeInv, EventsCaptured, BeginInject, EntryTypes, EntryStates
  <1>2. entry' \in EntryStates /\ entry'.pc = "dns"
    BY <1>1, EntryMoves DEF BeginInject, InjectionSteps
  <1>3. \A i \in DOMAIN Events : i <= Len(Events) => i <= entry.at - 1
    BY <1>1, Lists
  <1>4. Captured(seen, Len(Events))
    BY <1>1, <1>3 DEF Captured, Queries, Downloads
  <1>5. HostKept'
    BY <1>1, <1>2, HostSame DEF WholeInv, BeginInject, BeforeFiles
  <1> QED
    BY <1>1, <1>2, <1>4, <1>5
    DEF WholeInv, EntryTypes, EventsCaptured, DnsKept, ZonesKept, InjectionSteps

(* The entries of the DNS cache are built of what was captured. *)
LEMMA BuiltEntries ==
    ASSUME EntryTypes, Captured(seen, Len(Events))
    PROVE  /\ _build_entries \in DnsCache
           /\ Profile.jitter >= 30 =>
                  ToSet(_build_entries.queries) = EventNames("dns_query") \ {None}
  <1>1. seen.dns \in Seq(Names) /\ \A j \in DOMAIN seen.dns : \E i \in Queries : seen.dns[j] = Events[i].name
    BY DEF EntryTypes, OnlyQueries
  <1>2. Len(seen.dns) \in Nat
    BY <1>1, LenProperties
  <1>3. Profile.entries \in Nat /\ Profile.negative \in Nat
    BY ArtifactAssumption DEF ArtifactAssumption, UserProfile
  <1>4. /\ AtLeast(Profile.entries - Len(seen.dns), 0) \in Nat
        /\ AtLeast(Profile.negative, 1) \in Nat
    BY <1>2, <1>3 DEF AtLeast
  <1>5. _build_entries \in DnsCache /\ _build_entries.queries = seen.dns
    BY <1>1, <1>4 DEF _build_entries, DnsCache, Names
  <1>6. ASSUME Profile.jitter >= 30 PROVE ToSet(seen.dns) = EventNames("dns_query") \ {None}
    <2>1. \A i \in Queries : \E j \in DOMAIN seen.dns : seen.dns[j] = Events[i].name
      <3>1. \A i \in Queries : i <= Len(Events)
        BY Lists DEF Queries
      <3> QED  BY <1>6, <3>1 DEF Captured
    <2>2. EventNames("dns_query") \ {None} = {Events[i].name : i \in Queries}
      BY DEF EventNames, Queries
    <2>3. ToSet(seen.dns) = {seen.dns[j] : j \in DOMAIN seen.dns}
      BY DEF ToSet
    <2> QED  BY <1>1, <2>1, <2>2, <2>3
  <1> QED  BY <1>5, <1>6

(* They are written, or cannot be. *)
LEMMA DnsStep ==
    ASSUME WholeInv, InjectDns
    PROVE  WholeInv'
  <1> DEFINE raises == _build_entries.positive > 0 /\ Profile.jitter < 1
  <1>1. /\ EntryTypes /\ Captured(seen, Len(Events)) /\ entry.pc = "dns"
        /\ UNCHANGED <<seen, boots, failures>>
    BY DEF WholeInv, EventsCaptured, InjectDns, InjectionSteps
  <1>2. /\ entry' = [entry EXCEPT !.pc = "unlink",
                                  !.failed = IF raises THEN @ \cup {"dns"} ELSE @]
        /\ volume' = IF raises THEN volume ELSE [volume EXCEPT !.dns = _build_entries]
    BY DEF InjectDns
  <1> HIDE DEF raises
  <1>3. /\ entry' \in EntryStates /\ entry'.pc = "unlink"
        /\ raises => "dns" \in entry'.failed
    BY <1>1, <1>2 DEF EntryTypes, EntryStates, InjectionSteps
  <1>4. /\ ~raises => volume'.dns = _build_entries
        /\ volume' = [dns |-> volume'.dns, history |-> volume.history, zones |-> volume.zones,
                      linux |-> volume.linux]
    BY <1>1, <1>2 DEF EntryTypes
  <1>5. EntryTypes'
    BY <1>1, <1>3, <1>4 DEF EntryTypes
  <1>6. ~raises => DnsWritten'
    BY <1>1, <1>4, BuiltEntries DEF DnsWritten
  <1>7. volume'.linux = volume.linux
    BY <1>4
  <1>8. HostKept'
    BY <1>1, <1>3, <1>7, HostSame DEF WholeInv, BeforeFiles
  <1> QED
    BY <1>1, <1>3, <1>5, <1>6, <1>8
    DEF WholeInv, EventsCaptured, DnsKept, ZonesKept, InjectionSteps

(* The history is written in three steps. *)
LEMMA HistoryStep ==
    ASSUME WholeInv, HistoryUnlink \/ _create_schema \/ _inject_history
    PROVE  WholeInv'
  <1>1. /\ EntryTypes /\ entry.pc \in {"unlink", "schema", "rows"}
        /\ UNCHANGED <<seen, boots, failures>>
    BY DEF WholeInv, HistoryUnlink, _create_schema, _inject_history
  <1>2. \/ UNCHANGED volume \/ \E history : volume' = [volume EXCEPT !.history = history]
    BY DEF HistoryUnlink, _create_schema, _inject_history
  <1>3. /\ entry' \in EntryStates /\ entry'.at = 1
        /\ \/ entry'.pc \in {"schema", "rows", "zones"} /\ entry'.failed = entry.failed
           \/ entry'.pc = "linux" /\ entry'.failed = entry.failed \cup {"http"}
    <2>1. CASE HistoryUnlink \/ _create_schema
      BY <1>1, <2>1, EntryMoves DEF InjectionSteps, HistoryUnlink, _create_schema
    <2>2. CASE _inject_history
      <3>1. PICK pc \in {"linux", "zones"}, failed \in {entry.failed, entry.failed \cup {"http"}} :
              /\ entry' = [entry EXCEPT !.pc = pc, !.at = 1, !.failed = failed]
              /\ pc = "linux" => failed = entry.failed \cup {"http"}
              /\ pc = "zones" => failed = entry.failed
        BY <2>2 DEF _inject_history
      <3>2. 1 \in Nat \ {0} /\ failed \in SUBSET {"dns", "http", "linux"}
        BY <1>1 DEF EntryTypes, EntryStates
      <3> QED  BY <1>1, <3>1, <3>2 DEF EntryTypes, EntryStates, InjectionSteps
    <2> QED  BY <2>1, <2>2
  <1>4. entry'.pc \in {"schema", "rows", "zones", "linux"} /\ entry.failed \subseteq entry'.failed
    BY <1>3
  <1>5. volume' = [dns |-> volume.dns, history |-> volume'.history, zones |-> volume.zones,
                   linux |-> volume.linux]
    BY <1>1, <1>2 DEF EntryTypes
  <1>6. EntryTypes'
    BY <1>1, <1>3, <1>5 DEF EntryTypes
  <1>7. EventsCaptured' /\ DnsKept'
    BY <1>1, <1>4, <1>5 DEF WholeInv, EventsCaptured, DnsKept, DnsWritten, InjectionSteps
  <1>8. \A j \in DOMAIN seen.downloads : ~(j < 1)
    <2>1. seen.downloads \in Seq(Marks)
      BY <1>1 DEF EntryTypes
    <2> QED  BY <2>1, LenProperties
  <1>9. ZonesKept'
    BY <1>1, <1>3, <1>8 DEF ZonesKept
  <1>10. volume'.linux = volume.linux
    BY <1>5
  <1>11. HostKept'
    BY <1>1, <1>4, <1>10, HostSame DEF WholeInv, BeforeFiles
  <1> QED  BY <1>6, <1>7, <1>9, <1>11 DEF WholeInv

(* A download is marked ... *)
LEMMA ZoneStep ==
    ASSUME WholeInv, _inject_zone_identifiers
    PROVE  WholeInv'
  <1> DEFINE at == entry.at
             d == seen.downloads[at]
  <1>1. /\ EntryTypes /\ ZonesKept /\ entry.pc = "zones" /\ at \in Nat \ {0}
        /\ UNCHANGED <<seen, boots, failures>>
    BY DEF WholeInv, _inject_zone_identifiers, EntryTypes, EntryStates
  <1>2. /\ volume' = [volume EXCEPT !.zones = WriteZone(volume.zones, d.file, ZoneIdentifier(d))]
        /\ entry' = [entry EXCEPT !.at = at + 1]
    BY DEF _inject_zone_identifiers
  <1>3. at + 1 \in Nat \ {0}
    BY <1>1
  <1>4. /\ entry' \in EntryStates /\ entry'.pc = "zones" /\ entry'.at = at + 1
        /\ entry'.failed = entry.failed
    BY <1>1, <1>2, <1>3 DEF EntryTypes, EntryStates
  <1>5. volume' = [dns |-> volume.dns, history |-> volume.history,
                   zones |-> WriteZone(volume.zones, d.file, ZoneIdentifier(d)),
                   linux |-> volume.linux]
    BY <1>1, <1>2 DEF EntryTypes
  <1>6. /\ d.file \in DOMAIN volume'.zones /\ volume'.zones[d.file] # Torn
        /\ \A f : Marked(f) => Marked(f)'
    <2>1. PICK file, text : file = d.file /\ text = ZoneIdentifier(d)
      OBVIOUS
    <2>2. text # Torn
      BY <2>1 DEF ZoneIdentifier, Torn
    <2>3. volume'.zones = [f \in DOMAIN volume.zones \cup {file} |->
                              IF f = file THEN text ELSE volume.zones[f]]
      BY <1>5, <2>1 DEF WriteZone
    <2> HIDE DEF d
    <2> QED  BY <2>1, <2>2, <2>3 DEF Marked
  <1>7. EntryTypes'
    BY <1>1, <1>4, <1>5 DEF EntryTypes
  <1>8. EventsCaptured' /\ DnsKept' /\ HostKept'
    <2>1. volume'.dns = volume.dns /\ volume'.linux = volume.linux
      BY <1>5
    <2>2. HostKept'
      BY <1>1, <1>4, <2>1, HostSame DEF WholeInv, BeforeFiles
    <2> QED  BY <1>1, <1>4, <2>1, <2>2 DEF WholeInv, EventsCaptured, DnsKept, DnsWritten, InjectionSteps
  <1>9. DOMAIN seen.downloads = 1 .. Len(seen.downloads) /\ Len(seen.downloads) \in Nat
    <2>1. seen.downloads \in Seq(Marks)
      BY <1>1 DEF EntryTypes
    <2> QED  BY <2>1, LenProperties
  <1>10. \A j \in DOMAIN seen.downloads : j < at + 1 => j < at \/ j = at
    BY <1>1, <1>9
  <1>11. ZonesKept'
    <2>1. ASSUME NEW j \in DOMAIN seen.downloads, j < at + 1
          PROVE  Marked(seen.downloads[j].file)'
      BY <1>1, <1>6, <1>10, <2>1 DEF ZonesKept, Marked
    <2> QED  BY <1>1, <1>4, <2>1 DEF ZonesKept
  <1> QED  BY <1>7, <1>8, <1>11 DEF WholeInv

(* ... until all are. *)
LEMMA ZonesWrittenStep ==
    ASSUME WholeInv, ZonesWritten
    PROVE  WholeInv'
  <1>1. /\ EntryTypes /\ ZonesKept /\ entry.pc = "zones" /\ entry.at \in Nat
        /\ entry.at > Len(seen.downloads) /\ Captured(seen, Len(Events))
        /\ UNCHANGED <<seen, volume, boots, failures>>
    BY DEF WholeInv, ZonesWritten, EntryTypes, EntryStates, EventsCaptured, InjectionSteps
  <1>2. entry' \in EntryStates /\ entry'.pc = "linux" /\ entry'.failed = entry.failed
    BY <1>1, EntryMoves DEF ZonesWritten, InjectionSteps
  <1>3. DOMAIN seen.downloads = 1 .. Len(seen.downloads) /\ Len(seen.downloads) \in Nat
    <2>1. seen.downloads \in Seq(Marks)
      BY <1>1 DEF EntryTypes
    <2> QED  BY <2>1, LenProperties
  <1>4. \A j \in DOMAIN seen.downloads : Marked(seen.downloads[j].file)
    BY <1>1, <1>3 DEF ZonesKept
  <1>5. \A i \in Downloads : i <= Len(Events)
    BY Lists DEF Downloads
  <1>6. \A f \in EventNames("file_download") : Marked(f)
    BY <1>1, <1>4, <1>5 DEF Captured, EventNames, Downloads
  <1>7. \A f : Marked(f)' <=> Marked(f)
    BY <1>1 DEF Marked
  <1>8. ZonesKept'
    BY <1>2, <1>6, <1>7 DEF ZonesKept
  <1>9. HostKept'
    BY <1>1, <1>2, HostSame DEF WholeInv, BeforeFiles
  <1> QED
    BY <1>1, <1>2, <1>8, <1>9
    DEF WholeInv, EntryTypes, EventsCaptured, DnsKept, DnsWritten, InjectionSteps

(* An identity is chosen. *)
LEMMA IdentityStep ==
    ASSUME WholeInv, ChooseIdentity
    PROVE  WholeInv'
  <1>1. EntryTypes /\ entry.pc = "linux" /\ UNCHANGED <<seen, volume, boots, failures>>
    BY DEF WholeInv, ChooseIdentity
  <1>2. PICK i \in Identities : entry' = [entry EXCEPT !.pc = "files", !.at = 1, !.identity = i]
    BY DEF ChooseIdentity
  <1>3. 1 \in Nat \ {0} /\ "files" \in InjectionSteps
    BY DEF InjectionSteps
  <1>4. /\ entry' \in EntryStates /\ entry'.pc = "files" /\ entry'.at = 1
        /\ entry'.identity = i /\ entry'.failed = entry.failed
    BY <1>1, <1>2, <1>3 DEF EntryTypes, EntryStates
  <1>5. \A j \in DOMAIN LinuxFiles : ~(j < 1)
    BY Lists
  <1>6. FilesOf(i, 1)'
    BY <1>5 DEF FilesOf
  <1>7. HostKept'
    <2>1. HomesBut(None) /\ \A p \in Paths : p.home # None => LeftOver(p, boots)
      BY <1>1 DEF WholeInv, HostKept, BeforeFiles
    <2>2. \A p, n : LeftOver(p, n)' <=> LeftOver(p, n)
      BY <1>1 DEF LeftOver
    <2>3. HomesBut(i)' /\ \A p \in Paths : p.home # None => LeftOver(p, boots)'
      BY <1>1, <2>1, <2>2 DEF HomesBut
    <2> QED  BY <1>4, <1>6, <2>3 DEF HostKept, BeforeFiles
  <1>8. \A f : Marked(f)' <=> Marked(f)
    BY <1>1 DEF Marked
  <1>9. ZonesKept'
    BY <1>1, <1>4, <1>8 DEF WholeInv, ZonesKept
  <1> QED
    BY <1>1, <1>4, <1>7, <1>9
    DEF WholeInv, EntryTypes, EventsCaptured, DnsKept, DnsWritten, InjectionSteps

(* A file of the host is written ... *)
LEMMA FileStep ==
    ASSUME WholeInv, _write_text
    PROVE  WholeInv'
  <1>1. PICK at : at = entry.at
    OBVIOUS
  <1>2. PICK who : who = entry.identity
    OBVIOUS
  <1>3. /\ EntryTypes /\ HostKept /\ entry.pc = "files" /\ at \in Nat \ {0} /\ at <= Len(LinuxFiles)
        /\ UNCHANGED <<seen, boots, failures>>
    BY <1>1 DEF WholeInv, _write_text, EntryTypes, EntryStates
  <1>4. /\ who \in Identities /\ FilesOf(who, at) /\ HomesBut(who)
        /\ \A p \in Paths : p.home # None => LeftOver(p, boots)
    BY <1>1, <1>2, <1>3 DEF HostKept
  <1>5. PICK path : path = PathOf(LinuxFiles[at], who)
    OBVIOUS
  <1>6. /\ volume' = [volume EXCEPT !.linux[path] = Rendered]
        /\ entry' = [entry EXCEPT !.at = at + 1] /\ at + 1 \in Nat \ {0}
    BY <1>1, <1>2, <1>3, <1>5 DEF _write_text, FilePath
  <1>7. /\ entry' \in EntryStates /\ entry'.pc = "files" /\ entry'.at = at + 1
        /\ entry'.identity = who /\ entry'.failed = entry.failed
    BY <1>2, <1>3, <1>6 DEF EntryTypes, EntryStates
  <1>8. volume' = [dns |-> volume.dns, history |-> volume.history, zones |-> volume.zones,
                   linux |-> [volume.linux EXCEPT ![path] = Rendered]]
    BY <1>3, <1>6 DEF EntryTypes
  <1>9. at \in DOMAIN LinuxFiles /\ LinuxFiles[at] \in ToSet(LinuxFiles)
    BY <1>3, Lists
  <1>10. path \in Paths /\ path.file = LinuxFiles[at] /\ path.home \in {who, None}
    BY <1>4, <1>5, <1>9, PathFacts
  <1>11. /\ volume'.linux = [p \in Paths |-> volume'.linux[p]]
         /\ volume'.linux[path] = Rendered
         /\ \A p \in Paths : p # path => volume'.linux[p] = volume.linux[p]
    BY <1>3, <1>8, <1>10 DEF EntryTypes
  <1>12. volume'.dns = volume.dns /\ volume'.zones = volume.zones
    BY <1>8
  <1>13. EntryTypes'
    BY <1>3, <1>7, <1>8, <1>11 DEF EntryTypes
  <1>14. Rendered = [identity |-> who, boot |-> boots] /\ boots' = boots
    BY <1>2, <1>3 DEF Rendered
  <1>15. \A j \in DOMAIN LinuxFiles : j < at + 1 => j < at \/ j = at
    BY <1>3, Lists
  <1>16. FilesOf(who, at + 1)'
    <2>1. ASSUME NEW j \in DOMAIN LinuxFiles, j < at + 1
          PROVE  volume'.linux[PathOf(LinuxFiles[j], who)] = [identity |-> who, boot |-> boots]
      <3>1. LinuxFiles[j] \in ToSet(LinuxFiles)
        BY Lists
      <3>2. PathOf(LinuxFiles[j], who) \in Paths /\ PathOf(LinuxFiles[j], who).file = LinuxFiles[j]
        BY <1>4, <3>1, PathFacts
      <3>3. CASE PathOf(LinuxFiles[j], who) = path
        BY <1>11, <1>14, <3>3
      <3>4. CASE PathOf(LinuxFiles[j], who) # path
        <4>1. j < at
          BY <1>5, <1>15, <2>1, <3>4
        <4> QED  BY <1>4, <1>11, <3>2, <3>4, <4>1 DEF FilesOf
      <3> QED  BY <3>3, <3>4
    <2> QED  BY <1>14, <2>1 DEF FilesOf
  <1>17. HomesBut(who)'
    <2>1. ASSUME NEW p \in Paths, p.home \notin {who, None}
          PROVE  LeftOver(p, boots - 1)'
      <3>1. p # path
        BY <1>10, <2>1
      <3> QED  BY <1>4, <1>11, <1>14, <2>1, <3>1 DEF HomesBut, LeftOver
    <2> QED  BY <2>1 DEF HomesBut
  <1>18. ASSUME NEW p \in Paths, p.home # None
         PROVE  LeftOver(p, boots)'
    <2>1. CASE p = path
      <3>1. p.home = who /\ boots \in 1 .. boots
        BY <1>3, <1>10, <1>18, <2>1 DEF EntryTypes
      <3>2. volume'.linux[p] \in [identity : {p.home}, boot : 1 .. boots]
        BY <1>11, <1>14, <2>1, <3>1
      <3> QED  BY <1>14, <3>2 DEF LeftOver
    <2>2. CASE p # path
      BY <1>4, <1>11, <1>14, <1>18, <2>2 DEF LeftOver
    <2> QED  BY <2>1, <2>2
  <1>19. HostKept'
    BY <1>4, <1>7, <1>16, <1>17, <1>18 DEF HostKept, BeforeFiles
  <1>20. ZonesKept'
    BY <1>3, <1>7, <1>12 DEF WholeInv, ZonesKept, Marked
  <1>21. EventsCaptured' /\ DnsKept'
    BY <1>3, <1>7, <1>12
    DEF WholeInv, EventsCaptured, DnsKept, DnsWritten, InjectionSteps
  <1> QED  BY <1>13, <1>19, <1>20, <1>21 DEF WholeInv

(* ... until all are, and the process ends. *)
LEMMA FilesWrittenStep ==
    ASSUME WholeInv, FilesWritten
    PROVE  WholeInv'
  <1>1. /\ EntryTypes /\ HostKept /\ entry.pc = "files" /\ entry.at \in Nat
        /\ entry.at > Len(LinuxFiles) /\ UNCHANGED <<volume, boots, failures>>
        /\ seen' = NothingSeen
    BY DEF WholeInv, FilesWritten, EntryTypes, EntryStates
  <1>2. entry' = [entry EXCEPT !.pc = "done", !.at = 1, !.identity = None] /\ 1 \in Nat \ {0}
    BY DEF FilesWritten
  <1>3. entry' \in EntryStates /\ entry'.pc = "done" /\ entry'.failed = entry.failed
    BY <1>1, <1>2 DEF EntryTypes, EntryStates
  <1>4. /\ entry.identity \in Identities /\ FilesOf(entry.identity, entry.at)
        /\ HomesBut(entry.identity) /\ \A p \in Paths : p.home # None => LeftOver(p, boots)
    BY <1>1 DEF HostKept
  <1>5. \A j \in DOMAIN LinuxFiles : j < entry.at
    BY <1>1, Lists
  <1>6. \A f \in ToSet(LinuxFiles) :
            volume.linux[PathOf(f, entry.identity)] = [identity |-> entry.identity, boot |-> boots]
    BY <1>4, <1>5, Lists DEF FilesOf
  <1>7. \A p, n : LeftOver(p, n)' <=> LeftOver(p, n)
    BY <1>1 DEF LeftOver
  <1>8. HostKept'
    <2>1. \A p \in Paths : p.home # None => LeftOver(p, boots)'
      BY <1>1, <1>4, <1>7
    <2>2. PICK i \in Identities : i = entry.identity
      BY <1>4
    <2>3. HomesBut(i)'
      BY <1>1, <1>4, <1>7, <2>2 DEF HomesBut
    <2>4. \A f \in ToSet(LinuxFiles) : volume'.linux[PathOf(f, i)] = [identity |-> i, boot |-> boots']
      BY <1>1, <1>6, <2>2
    <2> QED  BY <1>3, <2>1, <2>3, <2>4 DEF HostKept, BeforeFiles
  <1>9. OnlyQueries(<< >>) /\ << >> \in Seq(Marks)
    BY DEF OnlyQueries
  <1>10. EntryTypes'
    BY <1>1, <1>3, <1>9 DEF EntryTypes, NothingSeen
  <1>11. DnsKept' /\ ZonesKept' /\ EventsCaptured'
    BY <1>1, <1>3
    DEF WholeInv, DnsKept, DnsWritten, ZonesKept, Marked, EventsCaptured, InjectionSteps
  <1> QED  BY <1>8, <1>10, <1>11 DEF WholeInv

(* What an interrupted write leaves. *)
LEMMA InterruptedWrite ==
    ASSUME EntryTypes, Interrupted
    PROVE  /\ volume' = [dns |-> volume'.dns, history |-> volume'.history, zones |-> volume'.zones,
                         linux |-> volume'.linux]
           /\ volume'.linux = [p \in Paths |-> volume'.linux[p]]
           /\ \A p \in Paths : volume'.linux[p] \in {volume.linux[p], Torn}
           /\ entry.pc # "files" => volume'.linux = volume.linux
           /\ entry.pc # "zones" => volume'.zones = volume.zones
           /\ entry.pc # "dns" => volume'.dns = volume.dns
  <1>1. CASE UNCHANGED volume
    BY <1>1 DEF EntryTypes
  <1>2. CASE entry.pc = "dns" /\ volume' = [volume EXCEPT !.dns = Torn]
    BY <1>2 DEF EntryTypes
  <1>3. CASE /\ entry.pc = "zones"
             /\ \E zones : volume' = [volume EXCEPT !.zones = zones]
    BY <1>3 DEF EntryTypes
  <1>4. CASE entry.pc = "files" /\ volume' = [volume EXCEPT !.linux[FilePath] = Torn]
    <2>1. volume' = [dns |-> volume.dns, history |-> volume.history, zones |-> volume.zones,
                     linux |-> [volume.linux EXCEPT ![FilePath] = Torn]]
      BY <1>4 DEF EntryTypes
    <2>2. /\ volume'.linux = [p \in Paths |-> volume'.linux[p]]
          /\ \A p \in Paths : volume'.linux[p] \in {volume.linux[p], Torn}
      BY <2>1 DEF EntryTypes
    <2> QED  BY <1>4, <2>1, <2>2
  <1> QED  BY <1>1, <1>2, <1>3, <1>4 DEF Interrupted

(* A torn file of a home is left over like any other. *)
LEMMA InterruptedHomes ==
    ASSUME EntryTypes, Interrupted, NEW p \in Paths, NEW n, LeftOver(p, n)
    PROVE  LeftOver(p, n)'
  BY InterruptedWrite DEF LeftOver

(* An extension that raises is given up, and only that one. *)
LEMMA ExtensionFails ==
    ASSUME WholeInv, inject_all
    PROVE  WholeInv'
  <1>1. /\ EntryTypes /\ entry.pc \in InjectionSteps
        /\ Interrupted /\ UNCHANGED <<seen, boots>>
        /\ failures < MaxFailures /\ failures' = failures + 1
    BY DEF WholeInv, inject_all, Injecting, EntryTypes, EntryStates
  <1>2. failures' \in 0 .. MaxFailures /\ boots <= failures' + 1
    BY <1>1, ArtifactAssumption DEF EntryTypes, ArtifactAssumption
  <1>3. \/ entry.pc = "dns" /\ ExtensionOf = "dns" /\ AfterExtension[ExtensionOf] = "unlink"
        \/ /\ entry.pc \in {"unlink", "schema", "rows", "zones"} /\ ExtensionOf = "http"
           /\ AfterExtension[ExtensionOf] = "linux"
        \/ /\ entry.pc \in {"linux", "files"} /\ ExtensionOf = "linux"
           /\ AfterExtension[ExtensionOf] = "done"
    BY <1>1 DEF ExtensionOf, AfterExtension, InjectionSteps
  <1>4. PICK ext \in {"dns", "http", "linux"}, pc \in {"unlink", "linux", "done"} :
            /\ ext = ExtensionOf /\ pc = AfterExtension[ExtensionOf]
            /\ entry' = [entry EXCEPT !.pc = pc, !.at = 1, !.failed = @ \cup {ext}]
    BY <1>3 DEF inject_all
  <1>5. 1 \in Nat \ {0} /\ pc \in InjectionSteps \cup {"emit", "done"}
    BY DEF InjectionSteps
  <1>6. entry' \in EntryStates /\ entry'.pc = pc /\ entry'.failed = entry.failed \cup {ext}
    BY <1>1, <1>4, <1>5 DEF EntryTypes, EntryStates
  <1>7. EntryTypes'
    BY <1>1, <1>2, <1>6, InterruptedWrite DEF EntryTypes
  <1>8. EventsCaptured'
    BY <1>1, <1>6 DEF WholeInv, EventsCaptured, InjectionSteps
  <1>9. DnsKept'
    <2>1. CASE entry.pc = "dns"
      BY <1>3, <1>4, <1>6, <2>1 DEF DnsKept
    <2>2. CASE entry.pc # "dns"
      BY <1>1, <1>6, <2>2, InterruptedWrite DEF WholeInv, DnsKept, DnsWritten,
           InjectionSteps
    <2> QED  BY <2>1, <2>2
  <1>10. ZonesKept'
    BY <1>1, <1>3, <1>4, <1>6, InterruptedWrite DEF WholeInv, ZonesKept, Marked
  <1>11. HostKept'
    <2>1. \A p \in Paths : p.home # None => LeftOver(p, boots)
      BY DEF WholeInv, HostKept
    <2>2. \A p \in Paths : p.home # None => LeftOver(p, boots)'
      BY <1>1, <2>1, InterruptedHomes
    <2>3. CASE entry.pc \in {"linux", "files"}
      BY <1>3, <1>4, <1>6, <2>2, <2>3 DEF HostKept, BeforeFiles
    <2>4. CASE entry.pc \notin {"linux", "files"}
      <3>1. entry.pc \in BeforeFiles /\ entry'.pc \in BeforeFiles
        BY <1>3, <1>4, <1>6, <2>4 DEF BeforeFiles
      <3>2. volume'.linux = volume.linux
        BY <1>1, <2>4, InterruptedWrite
      <3> QED  BY <1>1, <3>1, <3>2, HostSame DEF WholeInv
    <2> QED  BY <2>3, <2>4
  <1> QED  BY <1>7, <1>8, <1>9, <1>10, <1>11 DEF WholeInv

(* A new start captures everything again. *)
LEMMA RestartStep ==
    ASSUME WholeInv, Restart
    PROVE  WholeInv'
  <1>1. /\ EntryTypes /\ Interrupted /\ entry' = Started /\ seen' = NothingSeen
        /\ failures < MaxFailures /\ failures' = failures + 1 /\ boots' = boots + 1
    BY DEF WholeInv, Restart
  <1>2. /\ failures' \in 0 .. MaxFailures /\ boots' \in Nat /\ boots' >= 1 /\ boots' <= failures' + 1
    BY <1>1, ArtifactAssumption DEF EntryTypes, ArtifactAssumption
  <1>3. Started \in EntryStates /\ Started.pc = "emit" /\ Started.at = 1
    BY DEF Started, EntryStates
  <1>4. OnlyQueries(<< >>) /\ << >> \in Seq(Marks)
    BY DEF OnlyQueries
  <1>5. EntryTypes'
    BY <1>1, <1>2, <1>3, <1>4, InterruptedWrite DEF EntryTypes, NothingSeen
  <1>6. \A i \in DOMAIN Events : ~(i <= 0)
    BY Lists
  <1>7. Captured(seen', 0)
    BY <1>6 DEF Captured, Queries, Downloads
  <1>8. HostKept'
    <2>1. ASSUME NEW p \in Paths, p.home # None
          PROVE  LeftOver(p, boots - 1)' /\ LeftOver(p, boots)'
      <3>1. LeftOver(p, boots)
        BY <2>1 DEF WholeInv, HostKept
      <3>2. volume'.linux[p] \in {None, Torn} \/ volume'.linux[p] \in [identity : {p.home}, boot : 1 .. boots]
        BY <1>1, <3>1, InterruptedWrite DEF LeftOver
      <3>3. /\ boots' - 1 = boots /\ 1 .. boots \subseteq 1 .. boots'
        BY <1>1 DEF EntryTypes
      <3> QED  BY <3>2, <3>3 DEF LeftOver
    <2>2. HomesBut(None)'
      BY <2>1 DEF HomesBut
    <2> QED  BY <1>1, <1>3, <2>1, <2>2 DEF HostKept, BeforeFiles
  <1> QED
    BY <1>1, <1>3, <1>5, <1>7, <1>8
    DEF WholeInv, EventsCaptured, DnsKept, ZonesKept, InjectionSteps

(* WholeInv holds at the first start ... *)
LEMMA WholeInit ==
    ASSUME ArtifactInit
    PROVE  WholeInv
  <1>1. Started \in EntryStates /\ Started.pc = "emit" /\ Started.at = 1
    BY DEF Started, EntryStates
  <1>2. OnlyQueries(<< >>) /\ << >> \in Seq(Marks)
    BY DEF OnlyQueries
  <1>3. 0 \in 0 .. MaxFailures
    BY ArtifactAssumption DEF ArtifactAssumption
  <1>4. EntryTypes
    BY <1>1, <1>2, <1>3 DEF ArtifactInit, EntryTypes, NothingSeen
  <1>5. \A i \in DOMAIN Events : ~(i <= 0)
    BY Lists
  <1>6. Captured(seen, 0)
    BY <1>5 DEF Captured, Queries, Downloads
  <1>7. HostKept
    <2>1. \A p \in Paths : volume.linux[p] = None
      BY DEF ArtifactInit
    <2> QED  BY <1>1, <2>1 DEF ArtifactInit, HostKept, HomesBut, LeftOver
  <1> QED
    BY <1>1, <1>4, <1>6, <1>7
    DEF ArtifactInit, WholeInv, EventsCaptured, DnsKept, ZonesKept, InjectionSteps

(* ... and every step of the injection keeps it. *)
LEMMA WholeStep ==
    ASSUME WholeInv, [ArtifactNext]_artifactVars
    PROVE  WholeInv'
  <1>1. CASE UNCHANGED artifactVars
    BY <1>1
    DEF artifactVars, WholeInv, EntryTypes, EventsCaptured, DnsKept, DnsWritten, ZonesKept,
        Marked, HostKept, FilesOf, HomesBut, LeftOver
  <1> QED
    BY <1>1, DispatchStep, BeginStep, DnsStep, HistoryStep, ZoneStep, ZonesWrittenStep,
       IdentityStep, FileStep, FilesWrittenStep, ExtensionFails, RestartStep
    DEF ArtifactNext, InjectStep

(* What WholeInv says when the sample starts. *)
LEMMA WholeInvImplies ==
    ASSUME WholeInv
    PROVE  ArtifactsWhole
  <1>1. ASSUME entry.pc = "done", "dns" \notin entry.failed
        PROVE  /\ volume.dns \notin {None, Torn}
               /\ Profile.jitter >= 30 => ToSet(volume.dns.queries) = EventNames("dns_query") \ {None}
    <2>1. DnsWritten
      BY <1>1 DEF WholeInv, DnsKept
    <2>2. volume.dns # None
      BY <2>1, ArtifactAssumption DEF DnsWritten, ArtifactAssumption
    <2>3. Torn \notin DnsCache
      BY DEF Torn, DnsCache
    <2> QED  BY <2>1, <2>2, <2>3 DEF DnsWritten
  <1>2. ASSUME entry.pc = "done", "linux" \notin entry.failed
        PROVE  \E i \in Identities :
                 /\ \A f \in ToSet(LinuxFiles) :
                      volume.linux[PathOf(f, i)] = [identity |-> i, boot |-> boots]
                 /\ \A p \in Paths : p.home \notin {i, None} =>
                      \/ volume.linux[p] \in {None, Torn}
                      \/ volume.linux[p] \in [identity : {p.home}, boot : 1 .. boots - 1]
    BY <1>2 DEF WholeInv, HostKept, HomesBut, LeftOver
  <1> QED  BY <1>1, <1>2 DEF WholeInv, ZonesKept, Marked, ArtifactsWhole

-----------------------------------------------------------------------------
(* The history database: what _write_entries computes. *)

HistoryEntry == [url : Urls, time : 0 .. Now]

(* The visits of a url. *)
VisitsOf(db, u) == {i \in DOMAIN db.visits : db.visits[i].url = u}

(* Every url counts its visits and knows the last. *)
CountsVisits(db) ==
    \A u \in DOMAIN db.urls :
        /\ db.urls[u].count = Cardinality(VisitsOf(db, u))
        /\ db.urls[u].last \in {db.visits[i].time : i \in VisitsOf(db, u)}
        /\ \A i \in VisitsOf(db, u) : db.visits[i].time <= db.urls[u].last

VisitsKnown(db) == \A i \in DOMAIN db.visits : db.visits[i].url \in DOMAIN db.urls

InOrder(db) == \A i, j \in DOMAIN db.visits : i < j => db.visits[i].time <= db.visits[j].time

(* The clock of Chrome's history runs forward. *)
LEMMA ChromeTimes ==
    ASSUME NEW s \in Int, NEW t \in Int, s <= t
    PROVE  /\ _unix_to_chrome_time(s) \in Int /\ _unix_to_chrome_time(t) \in Int
           /\ _unix_to_chrome_time(s) <= _unix_to_chrome_time(t)
  <1>1. Micro \in Nat /\ ChromeOffset \in Int
    BY ArtifactAssumption DEF ArtifactAssumption
  <1>2. s * Micro \in Int /\ t * Micro \in Int /\ (t - s) * Micro >= 0
    BY <1>1
  <1>3. (t - s) * Micro = t * Micro - s * Micro
    BY <1>1
  <1> QED  BY <1>1, <1>2, <1>3 DEF _unix_to_chrome_time

(* The empty database. *)
LEMMA EmptyDb ==
    /\ NoHistory \in HistoryDb /\ CountsVisits(NoHistory) /\ VisitsKnown(NoHistory)
    /\ DOMAIN NoHistory.visits = {} /\ Len(NoHistory.visits) = 0
  <1> DEFINE none == << >>
  <1>1. /\ none \in Seq([url : Urls, time : Int]) /\ DOMAIN none = {} /\ Len(none) = 0
        /\ none \in [{} -> [count : Nat, last : Int]]
    OBVIOUS
  <1> HIDE DEF none
  <1>2. NoHistory = [urls |-> none, visits |-> none]
    BY DEF NoHistory, none
  <1>3. none \in UNION {[S -> [count : Nat, last : Int]] : S \in SUBSET Urls}
    BY <1>1
  <1> QED  BY <1>1, <1>2, <1>3 DEF HistoryDb, CountsVisits, VisitsKnown

(* One more row: the visits grow by one and the urls by what it names. *)
LEMMA WriteEntryGrows ==
    ASSUME NEW db \in HistoryDb, NEW e \in HistoryEntry
    PROVE  /\ WriteEntry(db, e) \in HistoryDb
           /\ DOMAIN WriteEntry(db, e).urls = DOMAIN db.urls \cup {e.url}
           /\ Len(db.visits) \in Nat /\ DOMAIN db.visits = 1 .. Len(db.visits)
           /\ Len(WriteEntry(db, e).visits) = Len(db.visits) + 1
           /\ DOMAIN WriteEntry(db, e).visits = 1 .. Len(db.visits) + 1
           /\ \A i \in 1 .. Len(db.visits) : WriteEntry(db, e).visits[i] = db.visits[i]
           /\ WriteEntry(db, e).visits[Len(db.visits) + 1] = Visit(e)
           /\ Visit(e) \in [url : Urls, time : Int] /\ Visit(e).url = e.url
  <1> DEFINE w == WriteEntry(db, e)
             t == Visit(e).time
             V == [url : Urls, time : Int]
             R == [count : Nat, last : Int]
  <1>1. e.url \in Urls /\ e.time \in Int
    BY ArtifactAssumption DEF HistoryEntry, ArtifactAssumption
  <1>2. Visit(e) \in V /\ Visit(e).url = e.url /\ t \in Int
    BY <1>1, ChromeTimes DEF Visit
  <1>3. db.visits \in Seq(V)
    BY DEF HistoryDb
  <1>4. PICK S \in SUBSET Urls : db.urls \in [S -> R]
    BY DEF HistoryDb
  <1>5. w.visits = Append(db.visits, Visit(e))
    BY DEF WriteEntry
  <1>6. /\ Append(db.visits, Visit(e)) \in Seq(V)
        /\ Len(Append(db.visits, Visit(e))) = Len(db.visits) + 1
        /\ \A i \in 1 .. Len(db.visits) : Append(db.visits, Visit(e))[i] = db.visits[i]
        /\ Append(db.visits, Visit(e))[Len(db.visits) + 1] = Visit(e)
    BY <1>2, <1>3, AppendProperties
  <1>7. Len(db.visits) \in Nat /\ DOMAIN db.visits = 1 .. Len(db.visits)
    BY <1>3, LenProperties
  <1>8. DOMAIN w.visits = 1 .. Len(db.visits) + 1
    BY <1>5, <1>6, <1>7, LenProperties
  <1>9. DOMAIN w.urls = S \cup {e.url} /\ w.urls = [u \in S \cup {e.url} |-> w.urls[u]]
    BY <1>4 DEF WriteEntry
  <1>10. ASSUME NEW u \in S \cup {e.url} PROVE w.urls[u] \in R
    <2>1. w.urls[u] = IF u \notin S THEN [count |-> 1, last |-> t]
                      ELSE IF u = e.url
                      THEN [count |-> db.urls[u].count + 1, last |-> AtLeast(db.urls[u].last, t)]
                      ELSE db.urls[u]
      BY <1>4, <1>10 DEF WriteEntry
    <2>2. u \in S => db.urls[u] \in R
      BY <1>4
    <2>3. u \in S => /\ db.urls[u].count + 1 \in Nat /\ AtLeast(db.urls[u].last, t) \in Int
      BY <1>2, <2>2 DEF AtLeast
    <2> QED  BY <1>2, <2>1, <2>2, <2>3
  <1>11. w.urls \in [S \cup {e.url} -> R] /\ S \cup {e.url} \in SUBSET Urls
    BY <1>1, <1>9, <1>10
  <1>12. w \in HistoryDb
    <2>1. w.urls \in UNION {[Q -> R] : Q \in SUBSET Urls}
      BY <1>11
    <2>2. w = [urls |-> w.urls, visits |-> w.visits]
      BY DEF WriteEntry
    <2>3. w.visits \in Seq(V)
      BY <1>5, <1>6
    <2> HIDE DEF w
    <2> QED  BY <2>1, <2>2, <2>3 DEF HistoryDb
  <1> QED  BY <1>2, <1>4, <1>5, <1>6, <1>7, <1>8, <1>9, <1>12

(* The visits of a url after one more row. *)
LEMMA VisitsGrow ==
    ASSUME NEW db \in HistoryDb, NEW e \in HistoryEntry, NEW u
    PROVE  VisitsOf(WriteEntry(db, e), u)
             = IF u = e.url THEN VisitsOf(db, u) \cup {Len(db.visits) + 1} ELSE VisitsOf(db, u)
  <1> DEFINE w == WriteEntry(db, e)
  <1>1. /\ Len(db.visits) \in Nat /\ DOMAIN db.visits = 1 .. Len(db.visits)
        /\ DOMAIN w.visits = 1 .. Len(db.visits) + 1
        /\ \A i \in 1 .. Len(db.visits) : w.visits[i] = db.visits[i]
        /\ w.visits[Len(db.visits) + 1].url = e.url
    BY WriteEntryGrows
  <1> HIDE DEF w
  <1>2. VisitsOf(w, u)
           = IF u = e.url THEN VisitsOf(db, u) \cup {Len(db.visits) + 1} ELSE VisitsOf(db, u)
    BY <1>1 DEF VisitsOf
  <1> QED  BY <1>2 DEF w

(* The counts stay right. *)
LEMMA WriteEntryCounts ==
    ASSUME NEW db \in HistoryDb, NEW e \in HistoryEntry, CountsVisits(db), VisitsKnown(db)
    PROVE  CountsVisits(WriteEntry(db, e)) /\ VisitsKnown(WriteEntry(db, e))
  <1> DEFINE w == WriteEntry(db, e)
             t == Visit(e).time
             last == Len(db.visits) + 1
  <1>1. /\ w \in HistoryDb /\ DOMAIN w.urls = DOMAIN db.urls \cup {e.url}
        /\ Len(db.visits) \in Nat /\ DOMAIN db.visits = 1 .. Len(db.visits)
        /\ DOMAIN w.visits = 1 .. last
        /\ \A i \in 1 .. Len(db.visits) : w.visits[i] = db.visits[i]
        /\ w.visits[last] = Visit(e) /\ t \in Int /\ Visit(e).url = e.url
    BY WriteEntryGrows
  <1>2. VisitsKnown(w)
    <2> HIDE DEF w, t
    <2> QED  BY <1>1 DEF VisitsKnown
  <1>3. ASSUME NEW u \in DOMAIN w.urls
        PROVE  /\ w.urls[u].count = Cardinality(VisitsOf(w, u))
               /\ w.urls[u].last \in {w.visits[i].time : i \in VisitsOf(w, u)}
               /\ \A i \in VisitsOf(w, u) : w.visits[i].time <= w.urls[u].last
    <2>1. w.urls[u] = IF u \notin DOMAIN db.urls THEN [count |-> 1, last |-> t]
                      ELSE IF u = e.url
                      THEN [count |-> db.urls[u].count + 1, last |-> AtLeast(db.urls[u].last, t)]
                      ELSE db.urls[u]
      BY <1>1, <1>3 DEF WriteEntry
    <2>2. VisitsOf(w, u) = IF u = e.url THEN VisitsOf(db, u) \cup {last} ELSE VisitsOf(db, u)
      BY VisitsGrow
    <2>3. /\ VisitsOf(db, u) \subseteq 1 .. Len(db.visits) /\ last \notin VisitsOf(db, u)
          /\ IsFiniteSet(VisitsOf(db, u))
      <3>1. IsFiniteSet(1 .. Len(db.visits))
        BY <1>1, FS_Interval
      <3> QED  BY <1>1, <3>1, FS_Subset DEF VisitsOf
    <2>4. \A i \in VisitsOf(db, u) : w.visits[i].time = db.visits[i].time
      BY <1>1, <2>3
    <2>5. /\ u \in DOMAIN db.urls => db.urls[u].count \in Nat /\ db.urls[u].last \in Int
          /\ \A i \in VisitsOf(db, u) : db.visits[i].time \in Int
      <3>1. PICK S \in SUBSET Urls : db.urls \in [S -> [count : Nat, last : Int]]
        BY DEF HistoryDb
      <3>2. db.visits \in Seq([url : Urls, time : Int])
        BY DEF HistoryDb
      <3>3. \A i \in DOMAIN db.visits : db.visits[i] \in [url : Urls, time : Int]
        BY <3>2, <1>1, ElementOfSeq
      <3> QED  BY <3>1, <3>3 DEF VisitsOf
    <2>6. u \in DOMAIN db.urls =>
            /\ db.urls[u].count = Cardinality(VisitsOf(db, u))
            /\ db.urls[u].last \in {db.visits[i].time : i \in VisitsOf(db, u)}
            /\ \A i \in VisitsOf(db, u) : db.visits[i].time <= db.urls[u].last
      BY DEF CountsVisits
    <2> HIDE DEF w, t
    <2>7. CASE u # e.url
      <3>1. u \in DOMAIN db.urls /\ w.urls[u] = db.urls[u] /\ VisitsOf(w, u) = VisitsOf(db, u)
        BY <1>1, <1>3, <2>1, <2>2, <2>7
      <3> QED  BY <2>4, <2>6, <3>1
    <2>8. CASE u = e.url /\ u \notin DOMAIN db.urls
      <3>1. VisitsOf(db, u) = {}
        BY <2>8 DEF VisitsKnown, VisitsOf
      <3>2. VisitsOf(w, u) = {last} /\ w.urls[u].count = 1 /\ w.urls[u].last = t
        BY <2>1, <2>2, <2>8, <3>1
      <3>3. Cardinality({last}) = 1
        BY FS_Singleton
      <3> QED  BY <1>1, <3>2, <3>3 DEF t
    <2>9. CASE u = e.url /\ u \in DOMAIN db.urls
      <3>1. /\ VisitsOf(w, u) = VisitsOf(db, u) \cup {last}
            /\ w.urls[u].count = db.urls[u].count + 1
            /\ w.urls[u].last = AtLeast(db.urls[u].last, t)
        BY <2>1, <2>2, <2>9
      <3>2. Cardinality(VisitsOf(w, u)) = Cardinality(VisitsOf(db, u)) + 1
        BY <2>3, <3>1, FS_AddElement
      <3>3. w.visits[last].time = t
        BY <1>1 DEF t
      <3>4. w.urls[u].last \in {w.visits[i].time : i \in VisitsOf(w, u)}
        BY <2>4, <2>6, <2>9, <3>1, <3>3 DEF AtLeast
      <3>5. \A i \in VisitsOf(w, u) : w.visits[i].time <= w.urls[u].last
        BY <1>1, <2>4, <2>5, <2>6, <2>9, <3>1, <3>3 DEF AtLeast
      <3> QED  BY <2>6, <2>9, <3>1, <3>2, <3>4, <3>5
    <2> QED  BY <2>7, <2>8, <2>9
  <1> QED  BY <1>2, <1>3 DEF CountsVisits

(* One more entry is written. *)
NextRows(entries, r) ==
    LET i == NextEntry(entries, r.left)
    IN  [db |-> WriteEntry(r.db, entries[i]), left |-> r.left \ {i}]

FirstRows(entries) == [db |-> NoHistory, left |-> DOMAIN entries]

(* rows is what is written, and left, after each of the first N entries. *)
Written(entries, N, rows) ==
    rows = [n \in 0 .. N |-> IF n = 0 THEN FirstRows(entries) ELSE NextRows(entries, rows[n - 1])]

(* Any number of entries can be written. *)
LEMMA WrittenExists ==
    ASSUME NEW entries, NEW N \in Nat
    PROVE  \E rows : Written(entries, N, rows)
  <1> DEFINE Bad == {n \in Nat : ~\E rows : Written(entries, n, rows)}
  <1>1. SUFFICES ASSUME Bad # {} PROVE FALSE
    OBVIOUS
  <1>2. PICK n \in Bad : \A m \in Bad : n <= m
    BY <1>1, LeastOf
  <1>3. n # 0
    <2> DEFINE one == [k \in 0 .. 0 |-> FirstRows(entries)]
    <2>1. Written(entries, 0, one)
      BY DEF Written
    <2> QED  BY <2>1
  <1>4. PICK b : Written(entries, n - 1, b)
    BY <1>2, <1>3
  <1> DEFINE more == [k \in 0 .. n |-> IF k = n THEN NextRows(entries, b[n - 1]) ELSE b[k]]
  <1>5. Written(entries, n, more)
    <2>1. ASSUME NEW k \in 0 .. n
          PROVE  more[k] = IF k = 0 THEN FirstRows(entries) ELSE NextRows(entries, more[k - 1])
      <3>1. CASE k = n
        BY <1>2, <1>3, <3>1
      <3>2. CASE k # n
        <4>1. k \in 0 .. n - 1 /\ more[k] = b[k] /\ (k # 0 => more[k - 1] = b[k - 1])
          BY <1>2, <3>2
        <4>2. b[k] = IF k = 0 THEN FirstRows(entries) ELSE NextRows(entries, b[k - 1])
          BY <1>4, <4>1 DEF Written
        <4> QED  BY <4>1, <4>2
      <3> QED  BY <3>1, <3>2
    <2> HIDE DEF more
    <2>2. more = [k \in 0 .. n |-> more[k]]
      BY DEF more
    <2>3. [k \in 0 .. n |-> more[k]]
            = [k \in 0 .. n |-> IF k = 0 THEN FirstRows(entries) ELSE NextRows(entries, more[k - 1])]
      BY <2>1
    <2> QED  BY <2>2, <2>3 DEF Written
  <1> QED  BY <1>5

(* _write_entries as a loop over the entries. *)
LEMMA WriteEntriesLoop ==
    ASSUME NEW entries, Len(entries) \in Nat
    PROVE  \E rows : Written(entries, Len(entries), rows) /\ _write_entries(entries) = rows[Len(entries)].db
  <1> DEFINE rows == CHOOSE r : Written(entries, Len(entries), r)
  <1>1. Written(entries, Len(entries), rows)
    BY WrittenExists
  <1>2. _write_entries(entries) = rows[Len(entries)].db
    BY DEF _write_entries, Written, FirstRows, NextRows
  <1> QED  BY <1>1, <1>2

(* Some entry is the next. *)
LEMMA NextExists ==
    ASSUME NEW entries \in Seq(HistoryEntry), NEW left, left \subseteq DOMAIN entries,
         left # {}
    PROVE  /\ NextEntry(entries, left) \in left
           /\ \A j \in left : entries[NextEntry(entries, left)].time <= entries[j].time
  <1> DEFINE times == {entries[i].time : i \in left}
  <1>1. DOMAIN entries = 1 .. Len(entries) /\ Len(entries) \in Nat
    BY LenProperties
  <1>2. \A i \in left : i \in Nat /\ entries[i].time \in Nat
    <2>1. \A i \in left : entries[i] \in HistoryEntry
      BY <1>1, ElementOfSeq
    <2> QED  BY <1>1, <2>1, ArtifactAssumption DEF HistoryEntry, ArtifactAssumption
  <1>3. PICK t \in times : \A s \in times : t <= s
    BY <1>2, LeastOf
  <1> DEFINE earliest == {i \in left : entries[i].time = t}
  <1>4. earliest \subseteq Nat /\ earliest # {}
    BY <1>2, <1>3
  <1>5. PICK i \in earliest : \A j \in earliest : i <= j
    BY <1>4, LeastOf
  <1>6. \A j \in left : entries[i].time < entries[j].time
                        \/ (entries[i].time = entries[j].time /\ i <= j)
    <2> SUFFICES ASSUME NEW j \in left, entries[j].time # t
                 PROVE  entries[i].time < entries[j].time
      BY <1>5
    <2>1. entries[j].time \in times /\ entries[j].time \in Nat
      BY <1>2
    <2>2. t \in Nat /\ entries[i].time = t /\ t <= entries[j].time
      BY <1>2, <1>3, <1>5, <2>1
    <2> HIDE DEF times
    <2> QED  BY <2>1, <2>2
  <1>7. /\ NextEntry(entries, left) \in left
        /\ \A j \in left : \/ entries[NextEntry(entries, left)].time < entries[j].time
                           \/ /\ entries[NextEntry(entries, left)].time = entries[j].time
                              /\ NextEntry(entries, left) <= j
    BY <1>5, <1>6 DEF NextEntry
  <1> QED  BY <1>2, <1>7

(* What is written after n entries. *)
RowsAfter(entries, n, r) ==
    /\ r.left \subseteq DOMAIN entries /\ Cardinality(r.left) = Len(entries) - n
    /\ r.db \in HistoryDb /\ CountsVisits(r.db) /\ VisitsKnown(r.db) /\ InOrder(r.db)
    /\ Len(r.db.visits) = n
    /\ \A i \in DOMAIN r.db.visits, j \in r.left :
           r.db.visits[i].time <= _unix_to_chrome_time(entries[j].time)
    /\ \A i \in DOMAIN entries \ r.left : entries[i].url \in DOMAIN r.db.urls

(* One more. *)
LEMMA RowsNext ==
    ASSUME NEW entries \in Seq(HistoryEntry), NEW n \in 1 .. Len(entries), NEW r,
           RowsAfter(entries, n - 1, r)
    PROVE  RowsAfter(entries, n, NextRows(entries, r))
  <1> DEFINE x == NextEntry(entries, r.left)
             e == entries[x]
             w == WriteEntry(r.db, e)
             q == NextRows(entries, r)
  <1>1. DOMAIN entries = 1 .. Len(entries) /\ Len(entries) \in Nat
    BY LenProperties
  <1>2. IsFiniteSet(r.left)
    <2>1. IsFiniteSet(1 .. Len(entries))
      BY <1>1, FS_Interval
    <2> QED  BY <1>1, <2>1, FS_Subset DEF RowsAfter
  <1>3. r.left # {}
    <2>1. Cardinality(r.left) # 0
      BY <1>1 DEF RowsAfter
    <2> QED  BY <2>1, FS_EmptySet
  <1>4. x \in r.left /\ \A j \in r.left : e.time <= entries[j].time
    BY <1>3, NextExists DEF RowsAfter
  <1>5. \A i \in DOMAIN entries : entries[i] \in HistoryEntry /\ entries[i].time \in Int
    <2>1. \A i \in DOMAIN entries : entries[i] \in HistoryEntry
      BY <1>1, ElementOfSeq
    <2> QED  BY <2>1 DEF HistoryEntry
  <1>6. e \in HistoryEntry /\ x \in DOMAIN entries
    BY <1>4, <1>5 DEF RowsAfter
  <1>7. q.db = w /\ q.left = r.left \ {x}
    BY DEF NextRows
  <1>8. /\ w \in HistoryDb /\ DOMAIN w.urls = DOMAIN r.db.urls \cup {e.url}
        /\ DOMAIN r.db.visits = 1 .. n - 1 /\ Len(w.visits) = n /\ DOMAIN w.visits = 1 .. n
        /\ \A i \in 1 .. n - 1 : w.visits[i] = r.db.visits[i]
        /\ w.visits[n] = Visit(e)
    <2>1. r.db \in HistoryDb /\ Len(r.db.visits) = n - 1 /\ (n - 1) + 1 = n
      BY <1>1 DEF RowsAfter
    <2> DEFINE m == Len(r.db.visits)
    <2> HIDE DEF e
    <2>2. /\ w \in HistoryDb /\ DOMAIN w.urls = DOMAIN r.db.urls \cup {e.url}
          /\ DOMAIN r.db.visits = 1 .. m /\ Len(w.visits) = m + 1 /\ DOMAIN w.visits = 1 .. m + 1
          /\ \A i \in 1 .. m : w.visits[i] = r.db.visits[i]
          /\ w.visits[m + 1] = Visit(e)
      BY <1>6, <2>1, WriteEntryGrows
    <2> HIDE DEF w
    <2> QED  BY <2>1, <2>2
  <1>9. CountsVisits(w) /\ VisitsKnown(w)
    BY <1>6, WriteEntryCounts DEF RowsAfter
  <1>10. w.visits[n].time = _unix_to_chrome_time(e.time)
    BY <1>8 DEF Visit
  <1>11. \A j \in r.left : /\ _unix_to_chrome_time(e.time) <= _unix_to_chrome_time(entries[j].time)
    BY <1>4, <1>5, <1>6, ChromeTimes DEF RowsAfter
  <1>12. Cardinality(q.left) = Len(entries) - n
    <2>1. Cardinality(r.left \ {x}) = Cardinality(r.left) - 1
      BY <1>2, <1>4, FS_RemoveElement
    <2> QED  BY <1>1, <1>7, <2>1 DEF RowsAfter
  <1> HIDE DEF w, q, e, x
  <1>13. \A i \in 1 .. n : i \in 1 .. n - 1 \/ i = n
    BY <1>1
  <1>14. \A i \in DOMAIN w.visits, j \in r.left :
            w.visits[i].time <= _unix_to_chrome_time(entries[j].time)
    BY <1>8, <1>10, <1>11, <1>13 DEF RowsAfter
  <1>15. InOrder(w)
    <2> SUFFICES ASSUME NEW i \in DOMAIN w.visits, NEW j \in DOMAIN w.visits, i < j
                 PROVE  w.visits[i].time <= w.visits[j].time
      BY DEF InOrder
    <2>1. CASE j = n
      <3>1. w.visits[i].time <= _unix_to_chrome_time(entries[x].time)
        BY <1>4, <1>14
      <3> QED  BY <1>10, <2>1, <3>1 DEF e
    <2>2. CASE j # n
      <3>1. i \in 1 .. n - 1 /\ j \in 1 .. n - 1
        BY <1>1, <1>8, <2>2
      <3> QED  BY <1>8, <3>1 DEF RowsAfter, InOrder
    <2> QED  BY <2>1, <2>2
  <1>16. \A i \in DOMAIN entries \ q.left : entries[i].url \in DOMAIN w.urls
    BY <1>7, <1>8 DEF RowsAfter, e
  <1>17. q.left \subseteq DOMAIN entries /\ q.left \subseteq r.left
    BY <1>7 DEF RowsAfter
  <1>18. RowsAfter(entries, n, q)
    BY <1>7, <1>8, <1>9, <1>12, <1>14, <1>15, <1>16, <1>17 DEF RowsAfter
  <1> QED  BY <1>18 DEF q

(* What _write_entries writes: every entry once, in the order of their times. *)
LEMMA EntriesWritten ==
    ASSUME NEW entries \in Seq(HistoryEntry)
    PROVE  LET db == _write_entries(entries)
           IN  /\ db \in HistoryDb /\ CountsVisits(db) /\ InOrder(db)
               /\ Len(db.visits) = Len(entries)
               /\ \A i \in DOMAIN entries : entries[i].url \in DOMAIN db.urls
  <1>1. DOMAIN entries = 1 .. Len(entries) /\ Len(entries) \in Nat
    BY LenProperties
  <1>2. PICK rows : /\ Written(entries, Len(entries), rows)
                    /\ _write_entries(entries) = rows[Len(entries)].db
    BY <1>1, WriteEntriesLoop
  <1>3. /\ rows[0] = FirstRows(entries)
        /\ \A n \in 1 .. Len(entries) : rows[n] = NextRows(entries, rows[n - 1])
    <2>1. 0 \in 0 .. Len(entries)
      BY <1>1
    <2> QED  BY <1>1, <1>2, <2>1 DEF Written
  <1> DEFINE Bad == {n \in 0 .. Len(entries) : ~RowsAfter(entries, n, rows[n])}
  <1>4. RowsAfter(entries, 0, rows[0])
    <2>1. rows[0].left = DOMAIN entries /\ rows[0].db = NoHistory
      BY <1>3 DEF FirstRows
    <2>2. Cardinality(1 .. Len(entries)) = Len(entries)
      BY <1>1, FS_Interval
    <2>3. Len(entries) - 0 = Len(entries)
      BY <1>1
    <2> QED  BY <1>1, <2>1, <2>2, <2>3, EmptyDb DEF RowsAfter, InOrder
  <1>5. Bad = {}
    <2>1. SUFFICES ASSUME Bad # {} PROVE FALSE
      OBVIOUS
    <2>2. Bad \subseteq Nat
      OBVIOUS
    <2>3. PICK n \in Bad : \A m \in Bad : n <= m
      BY <2>1, <2>2, LeastOf
    <2>4. n \in 1 .. Len(entries)
      BY <1>1, <1>4, <2>3
    <2>5. RowsAfter(entries, n - 1, rows[n - 1])
      BY <1>1, <2>3, <2>4
    <2> QED  BY <1>3, <2>3, <2>4, <2>5, RowsNext
  <1>6. RowsAfter(entries, Len(entries), rows[Len(entries)])
    BY <1>1, <1>5
  <1>7. rows[Len(entries)].left = {}
    <2>1. IsFiniteSet(rows[Len(entries)].left)
      <3>1. IsFiniteSet(1 .. Len(entries))
        BY <1>1, FS_Interval
      <3> QED  BY <1>1, <1>6, <3>1, FS_Subset DEF RowsAfter
    <2>2. Cardinality(rows[Len(entries)].left) = 0
      BY <1>1, <1>6 DEF RowsAfter
    <2> QED  BY <2>1, <2>2, FS_EmptySet
  <1> QED  BY <1>2, <1>6, <1>7 DEF RowsAfter

-----------------------------------------------------------------------------
(* The browser's history through failures and restarts. *)

HttpEvents(n) == {i \in DOMAIN Events : Events[i].type = "http_request" /\ i <= n}

(* Of the first n events the requests are captured, each once. *)
HttpCaptured(requests, n) ==
    /\ requests \in Seq(HistoryEntry)
    /\ Len(requests) = Cardinality(HttpEvents(n))
    /\ \A i \in HttpEvents(n) : \E j \in DOMAIN requests : requests[j].url = Events[i].name

(* What HistoryWhole asks of a database. *)
WholeDb(db) ==
    /\ db \in HistoryDb /\ CountsVisits(db) /\ InOrder(db)
    /\ Len(db.visits) = AtLeast(Profile.history, EventCount("http_request"))
    /\ EventNames("http_request") \subseteq DOMAIN db.urls

HistoryInv ==
    /\ entry.pc = "emit" => HttpCaptured(seen.http, entry.at - 1)
    /\ entry.pc \in InjectionSteps => HttpCaptured(seen.http, Len(Events))
    /\ volume.history \in {None, NoHistory} \/ WholeDb(volume.history)
    /\ entry.pc \in {"zones", "linux", "files", "done"} /\ "http" \notin entry.failed =>
           WholeDb(volume.history)

(* A step that leaves the database alone. *)
LEMMA HistorySame ==
    ASSUME HistoryInv, volume'.history = volume.history,
         entry.failed \subseteq entry'.failed,
           entry'.pc \in InjectionSteps => entry.pc \in InjectionSteps /\ seen' = seen,
           entry'.pc = "emit" => HttpCaptured(seen'.http, entry'.at - 1),
           entry'.pc \in {"zones", "linux", "files", "done"} =>
               \/ entry.pc \in {"zones", "linux", "files", "done"} \/ "http" \in entry'.failed
    PROVE  HistoryInv'
  <1>1. (entry'.pc \in InjectionSteps => HttpCaptured(seen'.http, Len(Events)))
    BY DEF HistoryInv
  <1> QED  BY <1>1 DEF HistoryInv

(* Before the first event nothing is captured. *)
LEMMA NothingCaptured == HttpCaptured(NothingSeen.http, 0)
  <1> DEFINE none == NothingSeen.http
  <1>1. none = << >>
    BY DEF NothingSeen
  <1>2. none \in Seq(HistoryEntry) /\ Len(none) = 0
    BY <1>1
  <1>3. HttpEvents(0) = {}
    BY Lists DEF HttpEvents
  <1> HIDE DEF none
  <1>4. HttpCaptured(none, 0)
    BY <1>2, <1>3, FS_EmptySet DEF HttpCaptured
  <1> QED  BY <1>4 DEF none

(* The event at n is captured by the browser's extension if it is for it. *)
LEMMA HttpCapturedNext ==
    ASSUME NEW n \in DOMAIN Events, NEW s, HttpCaptured(s, n - 1), NEW t,
           t = IF Events[n].type = "http_request"
               THEN Append(s, [url |-> Events[n].name, time |-> Events[n].time]) ELSE s
    PROVE  HttpCaptured(t, n)
  <1>1. n \in Nat /\ \A i \in DOMAIN Events : i <= n <=> i <= n - 1 \/ i = n
    BY Lists
  <1>2. IsFiniteSet(HttpEvents(n - 1)) /\ n \notin HttpEvents(n - 1)
    <2>1. IsFiniteSet(1 .. Len(Events))
      BY Lists, FS_Interval
    <2>2. HttpEvents(n - 1) \subseteq 1 .. Len(Events)
      BY Lists DEF HttpEvents
    <2> QED  BY <1>1, <2>1, <2>2, FS_Subset DEF HttpEvents
  <1>3. CASE Events[n].type = "http_request"
    <2> DEFINE e == [url |-> Events[n].name, time |-> Events[n].time]
    <2>1. e \in HistoryEntry /\ e.url = Events[n].name
      BY ArtifactAssumption DEF HistoryEntry, Urls, ArtifactAssumption
    <2>2. HttpEvents(n) = HttpEvents(n - 1) \cup {n}
      BY <1>1, <1>3 DEF HttpEvents
    <2>3. Cardinality(HttpEvents(n)) = Cardinality(HttpEvents(n - 1)) + 1
      BY <1>2, <2>2, FS_AddElement
    <2>4. t = Append(s, e)
      BY <1>3
    <2> HIDE DEF e
    <2>5. s \in Seq(HistoryEntry)
      BY DEF HttpCaptured
    <2>6. /\ t \in Seq(HistoryEntry)
          /\ \A j \in DOMAIN s : j \in DOMAIN t /\ t[j] = s[j]
          /\ \E j \in DOMAIN t : t[j] = e
      BY <2>1, <2>4, <2>5, ListGrows
    <2>7. Len(t) = Len(s) + 1
      BY <2>1, <2>4, <2>5, AppendProperties
    <2> QED  BY <2>1, <2>2, <2>3, <2>6, <2>7 DEF HttpCaptured
  <1>4. CASE Events[n].type # "http_request"
    <2>1. HttpEvents(n) = HttpEvents(n - 1)
      BY <1>1, <1>4 DEF HttpEvents
    <2> QED  BY <1>4, <2>1 DEF HttpCaptured
  <1> QED  BY <1>3, <1>4

(* The entries that are built: background visits and every captured request. *)
LEMMA BuiltHistory ==
    ASSUME HttpCaptured(seen.http, Len(Events)), NEW entries \in _build_history_entries
    PROVE  WholeDb(_write_entries(entries))
  <1> DEFINE k == AtLeast(Profile.history - Len(seen.http), 0)
             http == seen.http
             db == _write_entries(entries)
  <1>1. http \in Seq(HistoryEntry) /\ Len(http) \in Nat /\ DOMAIN http = 1 .. Len(http)
    BY LenProperties DEF HttpCaptured
  <1>2. Profile.history \in Nat /\ Profile.days \in Nat /\ Profile.days <= Now /\ Now \in Nat
    BY ArtifactAssumption DEF ArtifactAssumption, UserProfile
  <1>3. k \in Nat /\ k + Len(http) = AtLeast(Profile.history, Len(http))
    BY <1>1, <1>2 DEF AtLeast
  <1>4. PICK b \in [1 .. k -> [url : Sites, time : (Now - Profile.days) .. Now]] :
            entries = b \o http
    BY DEF _build_history_entries, Background
  <1> HIDE DEF k, http, db
  <1>5. b \in Seq(HistoryEntry) /\ Len(b) = k
    <2>1. [url : Sites, time : (Now - Profile.days) .. Now] \subseteq HistoryEntry
      BY <1>2 DEF HistoryEntry, Urls
    <2>2. b \in [1 .. k -> HistoryEntry]
      BY <1>4, <2>1
    <2> QED  BY <1>3, <2>2, SeqDef, LenProperties
  <1>6. /\ entries \in Seq(HistoryEntry) /\ Len(entries) = k + Len(http)
        /\ \A i \in 1 .. Len(entries) :
               entries[i] = IF i <= Len(b) THEN b[i] ELSE http[i - Len(b)]
    <2>1. /\ b \o http \in Seq(HistoryEntry) /\ Len(b \o http) = Len(b) + Len(http)
          /\ \A i \in 1 .. Len(b) + Len(http) :
                 (b \o http)[i] = IF i <= Len(b) THEN b[i] ELSE http[i - Len(b)]
      BY <1>1, <1>5, ConcatProperties
    <2> QED  BY <1>4, <1>5, <2>1
  <1>7. /\ db \in HistoryDb /\ CountsVisits(db) /\ InOrder(db) /\ Len(db.visits) = Len(entries)
        /\ \A i \in DOMAIN entries : entries[i].url \in DOMAIN db.urls
    BY <1>6, EntriesWritten DEF db
  <1>8. HttpEvents(Len(Events)) = {j \in DOMAIN Events : Events[j].type = "http_request"}
    BY Lists DEF HttpEvents
  <1>9. Len(http) = EventCount("http_request")
    BY <1>8 DEF HttpCaptured, EventCount, http
  <1>10. EventNames("http_request") \subseteq DOMAIN db.urls
    <2> SUFFICES ASSUME NEW i \in HttpEvents(Len(Events)) PROVE Events[i].name \in DOMAIN db.urls
      BY <1>8 DEF EventNames
    <2>1. PICK j \in DOMAIN http : http[j].url = Events[i].name
      BY DEF HttpCaptured, http
    <2>2. k + j \in 1 .. Len(entries) /\ ~(k + j <= Len(b)) /\ (k + j) - Len(b) = j
      BY <1>1, <1>3, <1>5, <1>6
    <2>3. entries[k + j] = http[j]
      BY <1>6, <2>2
    <2>4. k + j \in DOMAIN entries
      BY <1>6, <2>2, LenProperties
    <2> QED  BY <1>7, <2>1, <2>3, <2>4
  <1>11. WholeDb(db)
    BY <1>3, <1>6, <1>7, <1>9, <1>10 DEF WholeDb
  <1> QED  BY <1>11 DEF db

(* HistoryInv holds at the first start ... *)
LEMMA HistoryInit ==
    ASSUME ArtifactInit
    PROVE  HistoryInv
  <1>1. entry.pc = "emit" /\ entry.at - 1 = 0 /\ seen = NothingSeen /\ volume.history = None
    BY DEF ArtifactInit, Started
  <1> QED  BY <1>1, NothingCaptured DEF HistoryInv, InjectionSteps

(* ... and every step of the injection keeps it. *)
LEMMA HistoryInvStep ==
    ASSUME WholeInv, HistoryInv, [ArtifactNext]_artifactVars
    PROVE  HistoryInv'
  <1>1. EntryTypes /\ entry \in EntryStates
    BY DEF WholeInv, EntryTypes
  <1>2. CASE dispatch
    <2> DEFINE at == entry.at
               e == Events[at]
    <2>1. /\ at \in DOMAIN Events /\ entry.pc = "emit" /\ entry' = [entry EXCEPT !.at = at + 1]
          /\ UNCHANGED volume /\ seen'.http = HttpEvent(e)
      BY <1>1, <1>2, Lists DEF dispatch, EntryStates
    <2>2. entry'.pc = "emit" /\ entry'.at - 1 = at /\ entry'.failed = entry.failed
      BY <1>1, <2>1, Lists DEF EntryStates
    <2>3. HttpCaptured(seen.http, at - 1)
      BY <2>1 DEF HistoryInv
    <2>4. seen'.http = IF Events[at].type = "http_request"
                       THEN Append(seen.http, [url |-> Events[at].name, time |-> Events[at].time])
                       ELSE seen.http
      BY <2>1 DEF HttpEvent
    <2> HIDE DEF at, e
    <2>5. HttpCaptured(seen'.http, at)
      BY <2>1, <2>3, <2>4, HttpCapturedNext
    <2> QED  BY <2>1, <2>2, <2>5 DEF HistoryInv, InjectionSteps
  <1>3. CASE BeginInject
    <2>1. /\ entry.pc = "emit" /\ entry.at \in Nat /\ entry.at > Len(Events)
          /\ UNCHANGED <<seen, volume>>
      BY <1>1, <1>3 DEF BeginInject, EntryStates
    <2>2. entry'.pc = "dns" /\ entry'.failed = entry.failed
      BY <1>1, <1>3, EntryMoves DEF BeginInject, InjectionSteps
    <2>3. HttpEvents(entry.at - 1) = HttpEvents(Len(Events))
      BY <2>1, Lists DEF HttpEvents
    <2>4. HttpCaptured(seen.http, Len(Events))
      BY <2>1, <2>3 DEF HistoryInv, HttpCaptured
    <2> QED  BY <2>1, <2>2, <2>4 DEF HistoryInv
  <1>4. CASE InjectDns
    <2>1. /\ entry.pc = "dns" /\ entry'.pc = "unlink" /\ UNCHANGED seen
          /\ entry.failed \subseteq entry'.failed
      BY <1>1, <1>4 DEF InjectDns, EntryStates
    <2>2. volume'.history = volume.history
      BY <1>1, <1>4 DEF InjectDns, EntryTypes
    <2> QED  BY <2>1, <2>2, HistorySame DEF InjectionSteps
  <1>5. CASE HistoryUnlink \/ _create_schema
    <2>1. /\ entry.pc \in {"unlink", "schema"} /\ UNCHANGED seen
          /\ volume'.history \in {None, NoHistory}
      BY <1>1, <1>5 DEF HistoryUnlink, _create_schema, EntryTypes
    <2>2. entry'.pc \in {"schema", "rows"}
      BY <1>1, <1>5, EntryMoves DEF HistoryUnlink, _create_schema, InjectionSteps
    <2> QED  BY <2>1, <2>2 DEF HistoryInv, InjectionSteps
  <1>6. CASE _inject_history
    <2>1. /\ entry.pc = "rows" /\ UNCHANGED seen /\ HttpCaptured(seen.http, Len(Events))
      BY <1>6 DEF _inject_history, HistoryInv, InjectionSteps
    <2>2. CASE AgeRaises
      <3>1. UNCHANGED volume /\ entry'.pc = "linux" /\ "http" \in entry'.failed
        BY <1>1, <1>6, <2>2 DEF _inject_history, EntryStates
      <3> QED  BY <2>1, <3>1 DEF HistoryInv
    <2>3. CASE ~AgeRaises
      <3>1. PICK entries \in _build_history_entries :
              volume' = [volume EXCEPT !.history = _write_entries(entries)]
        BY <1>6, <2>3 DEF _inject_history
      <3>2. volume'.history = _write_entries(entries)
        BY <1>1, <3>1 DEF EntryTypes
      <3>3. WholeDb(volume'.history)
        BY <2>1, <3>2, BuiltHistory
      <3>4. entry'.pc = "zones"
        BY <1>1, <1>6, <2>3 DEF _inject_history, EntryStates
      <3> QED  BY <2>1, <3>3, <3>4 DEF HistoryInv
    <2> QED  BY <2>2, <2>3
  <1>7. CASE _inject_zone_identifiers \/ _write_text
    <2>1. /\ entry'.pc = entry.pc /\ entry.pc \in {"zones", "files"} /\ UNCHANGED seen
          /\ entry'.failed = entry.failed
      BY <1>1, <1>7 DEF _inject_zone_identifiers, _write_text, EntryStates
    <2>2. volume'.history = volume.history
      BY <1>1, <1>7 DEF _inject_zone_identifiers, _write_text, EntryTypes
    <2> QED  BY <2>1, <2>2, HistorySame DEF InjectionSteps
  <1>8. CASE ZonesWritten
    <2>1. entry.pc = "zones" /\ UNCHANGED <<seen, volume>>
      BY <1>8 DEF ZonesWritten
    <2>2. entry'.pc = "linux" /\ entry'.failed = entry.failed
      BY <1>1, <1>8, EntryMoves DEF ZonesWritten, InjectionSteps
    <2> QED  BY <2>1, <2>2, HistorySame DEF InjectionSteps
  <1>9. CASE ChooseIdentity
    <2>1. /\ entry.pc = "linux" /\ UNCHANGED <<seen, volume>>
          /\ entry'.pc = "files" /\ entry'.failed = entry.failed
      BY <1>1, <1>9 DEF ChooseIdentity, EntryStates
    <2> QED  BY <2>1, HistorySame DEF InjectionSteps
  <1>10. CASE FilesWritten
    <2>1. /\ entry.pc = "files" /\ UNCHANGED volume
          /\ entry'.pc = "done" /\ entry'.failed = entry.failed
      BY <1>1, <1>10 DEF FilesWritten, EntryStates
    <2> QED  BY <2>1, HistorySame DEF InjectionSteps
  <1>11. ASSUME Interrupted PROVE volume'.history = volume.history
    BY <1>1, <1>11 DEF Interrupted, EntryTypes
  <1>12. CASE inject_all
    <2>1. entry.pc \in InjectionSteps /\ Interrupted /\ UNCHANGED seen
      BY <1>1, <1>12 DEF inject_all, Injecting, EntryStates
    <2>2. \/ entry.pc = "dns" /\ AfterExtension[ExtensionOf] = "unlink"
          \/ /\ entry.pc \in {"unlink", "schema", "rows", "zones"} /\ ExtensionOf = "http"
             /\ AfterExtension[ExtensionOf] = "linux"
          \/ entry.pc \in {"linux", "files"} /\ AfterExtension[ExtensionOf] = "done"
      BY <2>1 DEF ExtensionOf, AfterExtension, InjectionSteps
    <2>3. /\ entry'.pc = AfterExtension[ExtensionOf]
          /\ entry'.failed = entry.failed \cup {ExtensionOf}
      BY <1>1, <1>12 DEF inject_all, EntryStates
    <2> QED  BY <1>11, <2>1, <2>2, <2>3, HistorySame DEF InjectionSteps
  <1>13. CASE Restart
    <2>1. Interrupted /\ entry' = Started /\ seen' = NothingSeen
      BY <1>13 DEF Restart
    <2>2. entry'.pc = "emit" /\ entry'.at - 1 = 0
      BY <2>1 DEF Started
    <2>3. HttpCaptured(seen'.http, entry'.at - 1)
      BY <2>1, <2>2, NothingCaptured
    <2> QED  BY <1>11, <2>1, <2>2, <2>3 DEF HistoryInv, InjectionSteps
  <1>14. CASE UNCHANGED artifactVars
    BY <1>14, HistorySame DEF artifactVars, HistoryInv
  <1> QED
    BY <1>2, <1>3, <1>4, <1>5, <1>6, <1>7, <1>8, <1>9, <1>10, <1>12, <1>13, <1>14
    DEF ArtifactNext, InjectStep

(* What HistoryInv says of a database that is more than an empty one. *)
LEMMA HistoryInvImplies ==
    ASSUME HistoryInv
    PROVE  HistoryWhole
  <1> SUFFICES ASSUME \/ entry.pc = "done" /\ "http" \notin entry.failed
                      \/ volume.history \notin {None, NoHistory}
               PROVE  HistoryWhole
    BY DEF HistoryWhole
  <1> DEFINE db == volume.history
  <1>1. WholeDb(db)
    BY DEF HistoryInv
  <1>2. db # None
    BY <1>1, ArtifactAssumption DEF WholeDb, ArtifactAssumption
  <1> QED
    BY <1>1, <1>2 DEF WholeDb, CountsVisits, VisitsOf, InOrder, HistoryWhole

-----------------------------------------------------------------------------
(* The two together. *)

(* A step is one of the injection and one of the simulation, or of neither. *)
LEMMA BothStep ==
    ASSUME [Next]_vars
    PROVE  [ArtifactNext]_artifactVars /\ [HTTPNext]_httpVars
  BY DEF Next, vars, HTTPNext

(* Microseconds and log entries come from requests that were received. *)
Busy == {q \in Calls : handler[q].pc # "idle"}

Counted ==
    /\ now <= Cardinality(Busy)
    /\ Traced \subseteq {handler[q].id : q \in Calls}

(* A thread under way that moves or answers is still under way, with its id. *)
LEMMA StaysBusy ==
    ASSUME HTTPTypes, NEW q \in Calls, handler[q].pc # "idle", NEW pc, NEW answer,
           (Step(q, pc) /\ pc # "idle") \/ Reply(q, answer)
    PROVE  UNCHANGED Busy /\ \A r \in Calls : handler'[r].id = handler[r].id
  <1>1. handler \in [Calls -> Threads]
    BY DEF HTTPTypes
  <1>2. handler[q] \in Threads
    BY <1>1
  <1>3. \A r \in Calls \ {q} : handler'[r] = handler[r]
    BY <1>1 DEF Step, Reply
  <1>4. handler'[q].pc # "idle" /\ handler'[q].id = handler[q].id
    <2>1. CASE Step(q, pc) /\ pc # "idle"
      <3>1. handler'[q] = [handler[q] EXCEPT !.pc = pc]
        BY <1>1, <2>1 DEF Step
      <3> QED  BY <1>2, <2>1, <3>1 DEF Threads
    <2>2. CASE Reply(q, answer)
      <3>1. handler'[q] = [handler[q] EXCEPT !.pc = "answered", !.answer = answer]
        BY <1>1, <2>2 DEF Reply
      <3> QED  BY <1>2, <3>1 DEF Threads
    <2> QED  BY <2>1, <2>2
  <1>5. \A r \in Calls : handler'[r].pc # "idle" <=> handler[r].pc # "idle"
    BY <1>3, <1>4
  <1> QED  BY <1>3, <1>4, <1>5 DEF Busy

(* Every step of the simulation keeps both. *)
LEMMA CountedStep ==
    ASSUME TraceInv, Counted, [HTTPNext]_httpVars
    PROVE  Counted'
  <1>1. HTTPTypes /\ IsFiniteSet(Busy) /\ Cardinality(Busy) \in Nat
    BY HTTPAssumption, FS_Subset, FS_CardinalityType DEF TraceInv, HTTPAssumption, Busy
  <1>2. ASSUME UNCHANGED <<now, Busy>>, \A q \in Calls : handler'[q].id = handler[q].id,
               \/ UNCHANGED <<LoggedIds, unlogged>>
               \/ \E q \in Calls : Traced' \subseteq Traced \cup {handler[q].id}
        PROVE  Counted'
    BY <1>2 DEF Counted, Traced
  <1>3. ASSUME NEW q \in Calls, NEW s \in Shapes, Receive(q, s) PROVE Counted'
    <2>1. /\ handler[q].pc = "idle" /\ handler[q].id = << >> /\ now' \in {now, now + 1}
          /\ UNCHANGED <<dir, unlogged>>
      BY <1>3 DEF Receive, TraceInv, Located
    <2>2. handler'[q].pc = "received" /\ \A r \in Calls \ {q} : handler'[r] = handler[r]
      <3>1. [Idle EXCEPT !.pc = "received", !.shape = s, !.id = <<now', s.url>>].pc = "received"
        BY DEF Idle
      <3> QED  BY <1>1, <1>3, <3>1 DEF Receive, HTTPTypes
    <2>3. Busy' = Busy \cup {q} /\ q \notin Busy
      BY <2>1, <2>2 DEF Busy
    <2>4. Cardinality(Busy') = Cardinality(Busy) + 1
      BY <1>1, <2>3, FS_AddElement
    <2>5. now' <= Cardinality(Busy')
      BY <1>1, <2>1, <2>4 DEF Counted, HTTPTypes
    <2>6. Traced' = Traced /\ Traced \subseteq Ids
      <3>1. dir.log \in Seq(Ids)
        BY <1>1 DEF HTTPTypes
      <3>2. \A i \in DOMAIN dir.log : dir.log[i] \in Ids
        BY <3>1, ElementOfSeq, LenProperties
      <3> QED  BY <1>1, <2>1, <3>2 DEF Traced, LoggedIds, HTTPTypes
    <2>7. \A id \in Traced : \E r \in Calls \ {q} : handler[r].id = id
      BY <2>1, <2>6, IdNotEmpty DEF Counted
    <2> QED  BY <2>2, <2>5, <2>6, <2>7 DEF Counted
  <1>4. ASSUME NEW q \in Calls, analyze_request(q) \/ simulate_request(q) \/ catch_all(q)
        PROVE  Counted'
    <2>1. /\ handler[q].pc = "received" /\ UNCHANGED <<now, dir, unlogged>>
          /\ (\E answer : Reply(q, answer)) \/ Step(q, "log")
      BY <1>4 DEF analyze_request, simulate_request, catch_all, Routed, generate_response
    <2>2. UNCHANGED Busy /\ \A r \in Calls : handler'[r].id = handler[r].id
      BY <1>1, <2>1, StaysBusy
    <2> QED  BY <1>2, <2>1, <2>2 DEF LoggedIds
  <1>5. ASSUME NEW q \in Calls, _log_executable_request(q) \/ LogFails(q) PROVE Counted'
    <2>1. handler[q].pc = "log" /\ now' = now /\ (Reply(q, "blocked") \/ Step(q, "save"))
      BY <1>5 DEF _log_executable_request, LogFails, AfterLog
    <2>2. UNCHANGED Busy /\ \A r \in Calls : handler'[r].id = handler[r].id
      BY <1>1, <2>1, StaysBusy
    <2>3. handler[q].id \in Ids
      BY <2>1 DEF TraceInv, Located
    <2>4. _log_executable_request(q) => LoggedIds' = LoggedIds \cup {handler[q].id} /\ unlogged' = unlogged
      BY <1>1, <2>3, LogGrows DEF _log_executable_request
    <2>5. LogFails(q) => LoggedIds' = LoggedIds /\ unlogged' = unlogged \cup {handler[q].id}
      BY DEF LogFails, LoggedIds
    <2>6. Traced' \subseteq Traced \cup {handler[q].id}
      BY <1>5, <2>4, <2>5 DEF Traced
    <2> QED  BY <1>2, <2>1, <2>2, <2>6
  <1>6. ASSUME NEW q \in Calls,
       SaveContent(q) \/ SaveMetadata(q) \/ SaveFails(q) PROVE Counted'
    <2>1. /\ handler[q].pc \in {"save", "metadata"} /\ UNCHANGED <<now, unlogged>>
          /\ dir'.log = dir.log
      BY <1>1, <1>6 DEF SaveContent, SaveMetadata, SaveFails, HTTPTypes
    <2>2. UNCHANGED Busy /\ \A r \in Calls : handler'[r].id = handler[r].id
      BY <1>1, <1>6, <2>1
      DEF SaveContent, SaveMetadata, SaveFails, HTTPTypes, Threads, Reply, Step, Busy
    <2> QED  BY <1>2, <2>1, <2>2 DEF LoggedIds
  <1>7. CASE ServerRestarts
    <2>1. UNCHANGED <<now, dir, unlogged>>
      BY <1>7 DEF ServerRestarts
    <2>2. UNCHANGED Busy /\ \A r \in Calls : handler'[r].id = handler[r].id
      BY <1>1, <1>7 DEF ServerRestarts, HTTPTypes, Threads, Busy
    <2> QED  BY <1>2, <2>1, <2>2 DEF LoggedIds
  <1>8. CASE StartUp \/ UNCHANGED httpVars
    BY <1>8
    DEF StartUp, generate_config, InetsimUp, StartFlask, httpVars, Counted, Busy, Traced, LoggedIds
  <1> QED  BY <1>3, <1>4, <1>5, <1>6, <1>7, <1>8 DEF HTTPNext, Handle

\* The variables of both parts keep their types; the log names only requests that were
\* received, and an answered request is one with an answer.
THEOREM SimulationTypeCorrect == Spec => []TypeOK
  <1> DEFINE Inv == TraceInv /\ WholeInv /\ Counted
  <1>1. Init => Inv
    <2>1. ASSUME HTTPInit PROVE Counted
      <3>1. Busy = {} /\ LoggedIds = {}
        BY <2>1 DEF HTTPInit, Busy, Idle, LoggedIds
      <3> QED  BY <2>1, <3>1, FS_EmptySet DEF HTTPInit, Counted, Traced
    <2> QED  BY <2>1, TraceInit, WholeInit DEF Init
  <1>2. Inv /\ [Next]_vars => Inv'
    BY TraceStep, WholeStep, CountedStep, BothStep
  <1>3. Inv => TypeOK
    <2> SUFFICES ASSUME Inv PROVE TypeOK
      OBVIOUS
    <2>1. now \in 0 .. Cardinality(Calls)
      <3>1. Cardinality(Busy) <= Cardinality(Calls) /\ Cardinality(Busy) \in Nat /\ Cardinality(Calls) \in Nat
        BY HTTPAssumption, FS_Subset, FS_CardinalityType DEF HTTPAssumption, Busy
      <3> QED  BY <3>1 DEF TraceInv, HTTPTypes, Counted
    <2>2. boots \in 1 .. MaxFailures + 1 /\ failures \in 0 .. MaxFailures
      BY ArtifactAssumption DEF WholeInv, EntryTypes, ArtifactAssumption
    <2>3. /\ entry.failed \subseteq {"dns", "http", "linux"} /\ entry.identity \in Identities \cup {None}
          /\ DOMAIN volume.linux = Paths
      BY DEF WholeInv, EntryTypes, EntryStates
    <2>4. \A q \in Calls : /\ handler[q].pc = "answered" <=> handler[q].answer # "none"
                           /\ handler[q].pc # "idle" => handler[q].shape \in Shapes
      BY DEF TraceInv, Located
    <2>5. /\ server \in {"config", "waiting", "serving"} /\ inetsim \in BOOLEAN
          /\ losses \in 0 .. MaxLosses
      BY DEF TraceInv, HTTPTypes
    <2>6. LoggedIds \cup unlogged \subseteq {handler[q].id : q \in Calls}
      BY DEF Counted, Traced
    <2> QED  BY <2>1, <2>2, <2>3, <2>4, <2>5, <2>6 DEF TypeOK
  <1> QED  BY <1>1, <1>2, <1>3, PTL DEF Spec

\* SafeExecutableHandler: for any requests of any shape, failed writes and restarts,
\* whatever is in the executables directory was logged first, a blocked request leaves
\* no file, and a client was served what is kept under its id.
THEOREM ServedIsAlwaysTraced == Spec => []ServedIsTraced
  <1>1. Init => TraceInv
    BY TraceInit DEF Init
  <1>2. TraceInv /\ [Next]_vars => TraceInv'
    BY TraceStep, BothStep
  <1>3. TraceInv => ServedIsTraced
    BY TraceInvImplies
  <1> QED  BY <1>1, <1>2, <1>3, PTL DEF Spec

\* ArtifactManager.inject_all: for any events, files and identities, through kills,
\* failed writes and restarts, the artifacts of every extension that did not fail are
\* complete and of one identity and one start when the sample runs; the home of an
\* identity of an earlier start holds nothing but what was written for it then.
THEOREM ArtifactsAreWhole == Spec => []ArtifactsWhole
  <1>1. Init => WholeInv
    BY WholeInit DEF Init
  <1>2. WholeInv /\ [Next]_vars => WholeInv'
    BY WholeStep, BothStep
  <1>3. WholeInv => ArtifactsWhole
    BY WholeInvImplies
  <1> QED  BY <1>1, <1>2, <1>3, PTL DEF Spec

\* HTTPArtifactExtension.inject: for any events, profile and sites, through kills,
\* failed writes and restarts, the history database is absent, empty or whole, and
\* whole when the sample starts unless that extension failed: all visits in the order
\* of their times, each url with their number and the last.
THEOREM HistoryIsWhole == Spec => []HistoryWhole
  <1>1. Init => WholeInv /\ HistoryInv
    BY WholeInit, HistoryInit DEF Init
  <1>2. WholeInv /\ HistoryInv /\ [Next]_vars => (WholeInv /\ HistoryInv)'
    BY WholeStep, HistoryInvStep, BothStep
  <1>3. HistoryInv => HistoryWhole
    BY HistoryInvImplies
  <1> QED  BY <1>1, <1>2, <1>3, PTL DEF Spec

=============================================================================
