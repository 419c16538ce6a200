----------------------------- MODULE MockServer -----------------------------
(***************************************************************************)
(* The mock LLM server (server/server.go and the per-protocol handlers).   *)
(*                                                                         *)
(* All state sits behind one mutex, but a handler does not hold it for the *)
(* whole request: record, markStreamed, bodyOffersTool, shouldToolCall,    *)
(* getToolCall and getResponse each take and release it.  Here every such  *)
(* critical section is one step of the request's handler, so requests and  *)
(* the runner's own calls interleave exactly where the code lets them.     *)
(*                                                                         *)
(* A request is its Kind: the protocol of its endpoint, whether it asked   *)
(* for a stream, whether it asked for structured output, the tools its     *)
(* body declares, the path it came in on, and whether the runner waits for *)
(* it before it arms or clears again (a turn's requests, but not those an  *)
(* agent sends on the side).  Bodies are otherwise left out.  Answers      *)
(* carry no text: which text is canned is not told apart.                  *)
(***************************************************************************)
EXTENDS Naturals, Sequences, FiniteSets

CONSTANTS
  Request,      (* the HTTP requests agents make, each handled once             *)
  Tool,         (* tool names                                                   *)
  DefaultTool,  (* DefaultToolName, called when no name was prepared            *)
  NoTool,       (* no name prepared                                             *)
  Path,         (* what a request path can end with                             *)
  AnyPath,      (* an empty toolCallPath: every request qualifies               *)
  Kind,         (* the kinds of request agents make                             *)
  Agents,       (* which kinds they make together                               *)
  Prepared,     (* the calls the runner prepares, as [name, path]               *)
  MaxArms,      (* bound on PrepareToolCall calls                               *)
  MaxClears     (* bound on ClearLog calls                                      *)

Protocol == {"chat", "messages", "responses", "gemini", "bedrock", "kiro",
             "runtime", "stub"}

ASSUME RequestAssumption == IsFiniteSet(Request)
ASSUME ToolAssumption == DefaultTool \in Tool /\ NoTool \notin Tool
ASSUME PathAssumption == AnyPath \notin Path
ASSUME KindAssumption ==
  Kind \subseteq [proto : Protocol, stream : BOOLEAN, json : BOOLEAN,
                  tools : SUBSET Tool, path : Path, awaited : BOOLEAN]
ASSUME AgentsAssumption == Agents \subseteq [Request -> Kind]
ASSUME PreparedAssumption ==
  Prepared \subseteq [name : Tool \cup {NoTool}, path : Path \cup {AnyPath}]
ASSUME BoundAssumption == MaxArms \in Nat /\ MaxClears \in Nat

VARIABLES
  log,             (* the recorded requests, as [req, streamed]                 *)
  toolCallMode,    (* a prepared call waits for a request                       *)
  toolCallServed,  (* the prepared call was handed out                          *)
  toolName, toolCallPath,
  answers,         (* canned answers counted by getResponse                     *)
  pc,              (* where each request's handler is                           *)
  kind,            (* the kind of a request, once recorded                      *)
  idx,             (* the log index the handler keeps, 0 before it has one      *)
  offered,         (* the handler's answer to "does this body offer the tool"   *)
  reply,           (* what the handler answered with                            *)
  called,          (* the tool named in a call it answered with                 *)
  (* history variables, read only by properties *)
  arms, clears,    (* PrepareToolCall and ClearLog calls so far                 *)
  epoch,           (* the value of clears when a request was recorded           *)
  grant            (* the value of arms when a request was given the call       *)

serverVars == <<log, toolCallMode, toolCallServed, toolName, toolCallPath, answers>>
requestVars == <<pc, kind, idx, offered, reply, called>>
historyVars == <<arms, clears, epoch, grant>>
vars == <<serverVars, requestVars, historyVars>>

PC == {"idle", "mark", "side", "offer", "decide", "callmark", "call", "text",
       "textmark", "done"}

-----------------------------------------------------------------------------
(***************************************************************************)
(* Handlers.  A handler is the order of its critical sections:             *)
(*   marksFirst  markStreamed straight after record                        *)
(*   side        answers a request that offers one function with it        *)
(*   offer       asks bodyOffersTool before shouldToolCall                 *)
(*   calls       can answer with the prepared call at all                  *)
(*   answers     answers the model at all (stubs only record)              *)
(*   marksCall   markStreamed before a tool call                           *)
(*   marksText   markStreamed after getResponse                            *)
(* and, for the properties, whether what it writes is a stream.            *)
(***************************************************************************)
HasTools(k) == k.tools # {}

\* (bug) a tool call streamed without being marked
ChatShapeUnmarkedCall(k) ==
  [marksFirst |-> FALSE, side |-> FALSE, offer |-> TRUE, calls |-> TRUE,
   answers |-> TRUE, marksCall |-> FALSE, marksText |-> k.stream,
   streamsCall |-> k.stream, streamsText |-> k.stream]

ChatShape(k) ==
  [marksFirst |-> FALSE, side |-> FALSE, offer |-> TRUE, calls |-> TRUE,
   answers |-> TRUE, marksCall |-> k.stream, marksText |-> k.stream,
   streamsCall |-> k.stream, streamsText |-> k.stream]

MessagesShape(k) ==
  [marksFirst |-> FALSE, side |-> FALSE, offer |-> TRUE, calls |-> TRUE,
   answers |-> TRUE, marksCall |-> k.stream, marksText |-> k.stream,
   streamsCall |-> k.stream, streamsText |-> k.stream]

SingleFunction(k) == \E t \in Tool : k.tools = {t}

\* The Responses handler writes an event stream whether or not one was asked for.
ResponsesShape(k) ==
  [marksFirst |-> k.stream, side |-> SingleFunction(k), offer |-> TRUE,
   calls |-> TRUE, answers |-> TRUE, marksCall |-> FALSE, marksText |-> FALSE,
   streamsCall |-> TRUE, streamsText |-> TRUE]

\* geminiToolCall always streams and nothing marks it.
GeminiShape(k) ==
  [marksFirst |-> FALSE, side |-> FALSE, offer |-> TRUE, calls |-> TRUE,
   answers |-> TRUE, marksCall |-> FALSE, marksText |-> k.stream,
   streamsCall |-> TRUE, streamsText |-> k.stream]

\* converse (k.stream = FALSE) and converse-stream: neither asks bodyOffersTool.
BedrockShape(k) ==
  [marksFirst |-> k.stream, side |-> FALSE, offer |-> FALSE, calls |-> TRUE,
   answers |-> TRUE, marksCall |-> FALSE, marksText |-> FALSE,
   streamsCall |-> k.stream, streamsText |-> k.stream]

\* GenerateAssistantResponse is always an event stream.
KiroShape ==
  [marksFirst |-> TRUE, side |-> FALSE, offer |-> TRUE, calls |-> TRUE,
   answers |-> TRUE, marksCall |-> FALSE, marksText |-> FALSE,
   streamsCall |-> TRUE, streamsText |-> TRUE]

RuntimeShape ==
  [marksFirst |-> FALSE, side |-> FALSE, offer |-> FALSE, calls |-> FALSE,
   answers |-> TRUE, marksCall |-> FALSE, marksText |-> FALSE,
   streamsCall |-> FALSE, streamsText |-> FALSE]

StubShape == [RuntimeShape EXCEPT !.answers = FALSE]

Shape(k) ==
  CASE k.proto = "chat"      -> ChatShape(k)
    [] k.proto = "messages"  -> MessagesShape(k)
    [] k.proto = "responses" -> ResponsesShape(k)
    [] k.proto = "gemini"    -> GeminiShape(k)
    [] k.proto = "bedrock"   -> BedrockShape(k)
    [] k.proto = "kiro"      -> KiroShape
    [] k.proto = "runtime"   -> RuntimeShape
    [] OTHER                 -> StubShape

\* Where a handler goes once any first mark is behind it.
AfterMark(k) ==
  IF ~Shape(k).calls THEN "text"
  ELSE IF Shape(k).side THEN "side"
  ELSE IF Shape(k).offer THEN "offer" ELSE "decide"

AfterRecord(k) ==
  IF ~Shape(k).answers THEN "done"
  ELSE IF Shape(k).marksFirst THEN "mark" ELSE AfterMark(k)

-----------------------------------------------------------------------------
Init ==
  /\ log = <<>>
  /\ toolCallMode = FALSE
  /\ toolCallServed = FALSE
  /\ toolName = NoTool
  /\ toolCallPath = AnyPath
  /\ answers = 0
  /\ pc = [r \in Request |-> "idle"]
  /\ kind \in Agents
  /\ idx = [r \in Request |-> 0]
  /\ offered = [r \in Request |-> FALSE]
  /\ reply = [r \in Request |-> "none"]
  /\ called = [r \in Request |-> NoTool]
  /\ arms = 0
  /\ clears = 0
  /\ epoch = [r \in Request |-> 0]
  /\ grant = [r \in Request |-> 0]

\* (bug) no default when no name was prepared
CurrentToolNoDefault == toolName

\* getToolCall: the name the mock would call now.
CurrentTool == IF toolName # NoTool THEN toolName ELSE DefaultTool

\* (bug) any declared tool counts as an offer
OffersAnyTool(k) == HasTools(k)

OffersTool(k) == CurrentTool \in k.tools

Goto(r, label) == pc' = [pc EXCEPT ![r] = label]
At(r, label) == pc[r] = label

\* markStreamed(idx): only the bounds are checked, not whose entry it is.
MarkStreamed(r) ==
  log' = IF idx[r] \in DOMAIN log
         THEN [log EXCEPT ![idx[r]].streamed = TRUE]
         ELSE log

-----------------------------------------------------------------------------
(***************************************************************************)
(* The runner's calls.  resetPhase clears the log and arms the phase's     *)
(* call; the probes arm one in the middle of a session.  Nothing in the    *)
(* server keeps these calls from falling between two critical sections of  *)
(* a handler.  For the requests the runner waits for, Quiet does: an       *)
(* assumption about its phases, which arm and clear when the turn before   *)
(* is over, and no translation of a guard of the server's.                 *)
(***************************************************************************)
Quiet == \A r \in Request : kind[r].awaited => pc[r] \in {"idle", "done"}

PrepareToolCall(p) ==
  /\ arms < MaxArms
  /\ Quiet
  /\ toolName' = p.name
  /\ toolCallPath' = p.path
  /\ toolCallMode' = TRUE
  /\ toolCallServed' = FALSE
  /\ arms' = arms + 1
  /\ UNCHANGED <<log, answers, requestVars, clears, epoch, grant>>

\* ClearLog empties the log and nothing else: the prepared call stays.
ClearLog ==
  /\ clears < MaxClears
  /\ Quiet
  /\ log' = <<>>
  /\ clears' = clears + 1
  /\ UNCHANGED <<toolCallMode, toolCallServed, toolName, toolCallPath, answers,
                 requestVars, arms, epoch, grant>>

-----------------------------------------------------------------------------
(***************************************************************************)
(* The critical sections of a handler.                                     *)
(***************************************************************************)
\* (bug) the index of the entry before
NewIndexOffByOne == Len(log)

NewIndex == Len(log) + 1

\* parseRequest and record: the entry is appended and its index kept.
Record(r) ==
  /\ At(r, "idle")
  /\ log' = Append(log, [req |-> r, streamed |-> FALSE])
  /\ idx' = [idx EXCEPT ![r] = NewIndex]
  /\ epoch' = [epoch EXCEPT ![r] = clears]
  \* A handler that never asks bodyOffersTool passes hasTools on as it is.
  /\ offered' = [offered EXCEPT ![r] = ~Shape(kind[r]).offer /\ HasTools(kind[r])]
  /\ Goto(r, AfterRecord(kind[r]))
  /\ UNCHANGED <<toolCallMode, toolCallServed, toolName, toolCallPath, answers,
                 kind, reply, called, arms, clears, grant>>

MarkFirst(r) ==
  /\ At(r, "mark")
  /\ MarkStreamed(r)
  /\ Goto(r, AfterMark(kind[r]))
  /\ UNCHANGED <<toolCallMode, toolCallServed, toolName, toolCallPath, answers,
                 kind, idx, offered, reply, called, historyVars>>

\* A request for one specific function other than the prepared tool is answered
\* with that function and touches neither the prepared call nor the count.
SideCall(r) ==
  /\ At(r, "side")
  /\ IF kind[r].tools # {CurrentTool}
     THEN /\ Goto(r, "done")
          /\ reply' = [reply EXCEPT ![r] = "side"]
          /\ \E t \in kind[r].tools : called' = [called EXCEPT ![r] = t]
     ELSE /\ Goto(r, "offer")
          /\ UNCHANGED <<reply, called>>
  /\ UNCHANGED <<serverVars, kind, idx, offered, historyVars>>

BodyOffersTool(r) ==
  /\ At(r, "offer")
  /\ offered' = [offered EXCEPT ![r] = OffersTool(kind[r])]
  /\ Goto(r, "decide")
  /\ UNCHANGED <<serverVars, kind, idx, reply, called, historyVars>>

\* (bug) a call is granted again after it was served
GrantsAgain(hasTools, path) ==
  hasTools /\ arms > 0 /\ (toolCallPath = AnyPath \/ path = toolCallPath)

\* shouldToolCall(hasTools, path) says yes, and in the same critical section
\* takes the call away from everyone else.
Grants(hasTools, path) ==
  hasTools /\ toolCallMode /\ (toolCallPath = AnyPath \/ path = toolCallPath)

\* (bug) the call stays armed after it was granted
TakeToolCallLeftArmed(r) ==
  /\ toolCallMode' = toolCallMode
  /\ toolCallServed' = TRUE
  /\ grant' = [grant EXCEPT ![r] = arms]

TakeToolCall(r) ==
  /\ toolCallMode' = FALSE
  /\ toolCallServed' = TRUE
  /\ grant' = [grant EXCEPT ![r] = arms]

ShouldToolCall(r) ==
  /\ At(r, "decide")
  /\ \/ /\ Grants(offered[r], kind[r].path)
        /\ TakeToolCall(r)
        /\ Goto(r, IF Shape(kind[r]).marksCall THEN "callmark" ELSE "call")
     \/ /\ ~Grants(offered[r], kind[r].path)
        /\ Goto(r, "text")
        /\ UNCHANGED <<toolCallMode, toolCallServed, grant>>
  /\ UNCHANGED <<log, toolName, toolCallPath, answers, kind, idx, offered, reply,
                 called, arms, clears, epoch>>

MarkCall(r) ==
  /\ At(r, "callmark")
  /\ MarkStreamed(r)
  /\ Goto(r, "call")
  /\ UNCHANGED <<toolCallMode, toolCallServed, toolName, toolCallPath, answers,
                 kind, idx, offered, reply, called, historyVars>>

\* The call is built from the tool name as it is now, not as it was granted.
AnswerCall(r) ==
  /\ At(r, "call")
  /\ called' = [called EXCEPT ![r] = CurrentTool]
  /\ reply' = [reply EXCEPT ![r] = "call"]
  /\ Goto(r, "done")
  /\ UNCHANGED <<serverVars, kind, idx, offered, historyVars>>

\* (bug) an answer replaced by JSON is not counted
CountAnswerUnlessJSON(r) ==
  answers' = IF kind[r].json THEN answers ELSE answers + 1

CountAnswer(r) == answers' = answers + 1

\* getResponse counts every answer it hands to a handler.  Gemini then replaces
\* the canned text when the request wants JSON.
AnswerText(r) ==
  /\ At(r, "text")
  /\ CountAnswer(r)
  /\ reply' = [reply EXCEPT ![r] = IF kind[r].proto = "gemini" /\ kind[r].json
                                  THEN "json" ELSE "text"]
  /\ Goto(r, IF Shape(kind[r]).marksText THEN "textmark" ELSE "done")
  /\ UNCHANGED <<log, toolCallMode, toolCallServed, toolName, toolCallPath, kind,
                 idx, offered, called, historyVars>>

MarkText(r) ==
  /\ At(r, "textmark")
  /\ MarkStreamed(r)
  /\ Goto(r, "done")
  /\ UNCHANGED <<toolCallMode, toolCallServed, toolName, toolCallPath, answers,
                 kind, idx, offered, reply, called, historyVars>>

-----------------------------------------------------------------------------
Handle(r) ==
  \/ Record(r)
  \/ MarkFirst(r)
  \/ SideCall(r)
  \/ BodyOffersTool(r)
  \/ ShouldToolCall(r)
  \/ MarkCall(r)
  \/ AnswerCall(r)
  \/ AnswerText(r)
  \/ MarkText(r)

Runner ==
  \/ \E p \in Prepared : PrepareToolCall(p)
  \/ ClearLog

Next == Runner \/ \E r \in Request : Handle(r)

Spec == Init /\ [][Next]_vars

-----------------------------------------------------------------------------
(***************************************************************************)
(* Properties                                                              *)
(***************************************************************************)
Entry == [req : Request, streamed : BOOLEAN]

\* Every variable of the server and of its handlers keeps to its domain, and a
\* function call always names a function (getToolCall falls back to a default).
TypeOK ==
  /\ log \in Seq(Entry)
  /\ toolCallMode \in BOOLEAN
  /\ toolCallServed \in BOOLEAN
  /\ toolName \in Tool \cup {NoTool}
  /\ toolCallPath \in Path \cup {AnyPath}
  /\ answers \in Nat
  /\ pc \in [Request -> PC]
  /\ kind \in [Request -> Kind]
  /\ idx \in [Request -> Nat]
  /\ offered \in [Request -> BOOLEAN]
  /\ reply \in [Request -> {"none", "side", "call", "text", "json"}]
  /\ called \in [Request -> Tool \cup {NoTool}]
  /\ \A r \in Request : reply[r] \in {"call", "side"} => called[r] \in Tool
  /\ arms \in Nat
  /\ clears \in Nat
  /\ epoch \in [Request -> Nat]
  /\ grant \in [Request -> Nat]

\* A prepared call reaches at most one request, however the handlers of
\* concurrent requests interleave (shouldToolCall takes the call under the lock
\* it was read under).
OneCallPerArm ==
  \A r, s \in Request : grant[r] # 0 /\ grant[r] = grant[s] => r = s

\* ToolCallServed "reports whether the prepared tool call was handed to the agent
\* since the last ClearLog": where it says yes, a request recorded since the log
\* was cleared was given the call, of those the runner waits for.  reportEvent
\* turns a missing tool hook into a skip or a failure by it.
ServedSinceClear ==
  toolCallServed =>
    \E r \in Request : grant[r] = arms /\ (kind[r].awaited => epoch[r] = clears)

\* Until the log is cleared, the index a handler keeps is the index of its own
\* entry, whatever else was recorded meanwhile: a mark can only land on another
\* request's entry across a ClearLog.
IndexIsOwn ==
  \A r \in Request :
    pc[r] # "idle" /\ epoch[r] = clears =>
      idx[r] \in DOMAIN log /\ log[idx[r]].req = r

\* AnswersServed moves once for each request the mock answered for the model,
\* and never for a tool call, a side call or a stub: the runner takes one step
\* of it for the end of a turn.
AnswersCountReplies ==
  answers = Cardinality({r \in Request : reply[r] \in {"text", "json"}})

\* A tool call the mock wrote names a tool the request declared (the comment on
\* bodyOffersTool: "the prepared call must go to a request that actually offers
\* it").  The offer is looked up, the call granted and the name read again in
\* three critical sections.
CallWasOffered ==
  \A r \in Request : reply[r] = "call" => called[r] \in kind[r].tools

\* The same of a request the runner waits for and whose handler asks
\* bodyOffersTool: whatever other handlers take, mark or answer in between, the
\* tool it was found to declare is the tool it is told to call.
AwaitedCallWasOffered ==
  \A r \in Request :
    /\ kind[r].awaited /\ Shape(kind[r]).offer
    /\ reply[r] = "call"
    => called[r] \in kind[r].tools

AnsweredWithStream(r) ==
  \/ reply[r] = "side"
  \/ reply[r] = "call" /\ Shape(kind[r]).streamsCall
  \/ reply[r] \in {"text", "json"} /\ Shape(kind[r]).streamsText

\* LogEntry.Streamed "records that the mock answered this request with a stream":
\* once a request is answered, its entry says so exactly if it was.
StreamedIsTrue ==
  \A i \in DOMAIN log :
    At(log[i].req, "done") => (log[i].streamed <=> AnsweredWithStream(log[i].req))

\* Gemini's tool call, and a response that was not asked for as a stream, are
\* streamed unmarked.
Marked(k) == k.proto # "gemini" /\ (k.proto = "responses" => k.stream)

\* The same where the runner waits for every request, of the handlers that mark
\* what they stream: no mark is missing, set by or set on another request's entry,
\* however many handlers keep an index while others append to the log.
AwaitedStreamIsTrue ==
  (\A r \in Request : kind[r].awaited) =>
    \A i \in DOMAIN log :
      Marked(kind[log[i].req]) /\ At(log[i].req, "done") =>
        (log[i].streamed <=> AnsweredWithStream(log[i].req))

\* The handlers, the log and the counts together do no more to a prepared call
\* than ToolOffer allows.
Offer == INSTANCE ToolOffer WITH
  offer <- IF toolCallMode THEN "armed"
           ELSE IF toolCallServed THEN "served" ELSE "none",
  round <- arms,
  taker <- grant

OfferSpec == Offer!OfferSpec

-----------------------------------------------------------------------------
(***************************************************************************)
(* The inductive strengthenings MockServer_proofs rests on.                *)
(***************************************************************************)
Undecided == {"idle", "mark", "side", "offer", "decide"}

\* What the flags say is of the call armed last, whatever was cleared meanwhile
\* (ClearLog does not touch them): served exactly if some request was given that
\* call, and until then there to take.
ServedIsOfLastArm ==
  /\ toolCallServed <=> arms > 0 /\ \E r \in Request : grant[r] = arms
  /\ arms > 0 => (toolCallMode <=> ~toolCallServed)

\* OneCallPerArm with what it needs of the past: the flags are of the call armed
\* last, grants name past arms, a call still armed was granted to nobody, and a
\* handler that has not decided yet holds no grant.
GrantLedger ==
  /\ OneCallPerArm
  /\ ServedIsOfLastArm
  /\ toolCallMode => arms > 0
  /\ \A r \in Request : grant[r] <= arms
  /\ \A r \in Request : pc[r] \in Undecided => grant[r] = 0

\* IndexIsOwn needs that no request is of an epoch still to come.
IndexLedger ==
  /\ IndexIsOwn
  /\ \A r \in Request : epoch[r] <= clears

\* AwaitedCallWasOffered needs the offer a handler saw to hold until it has
\* answered.
OfferHolds ==
  /\ AwaitedCallWasOffered
  /\ \A r \in Request :
       /\ kind[r].awaited /\ Shape(kind[r]).offer
       /\ \/ pc[r] = "decide" /\ offered[r]
          \/ pc[r] \in {"callmark", "call"}
       => OffersTool(kind[r])

\* AnswersCountReplies needs that a handler answers once.
AnswersLedger ==
  /\ AnswersCountReplies
  /\ \A r \in Request : pc[r] \notin {"textmark", "done"} => reply[r] = "none"
=============================================================================
