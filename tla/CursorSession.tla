--------------------------- MODULE CursorSession ---------------------------
(***************************************************************************)
(* One run of the Cursor backend (server/cursor.go): the client opens the  *)
(* server stream (RunSSE), starts the run and answers what it is asked     *)
(* through BidiAppend, and goroutines of the mock drive the turn.          *)
(*                                                                         *)
(* The turn is driven by whoever settles the current ask: the handler of   *)
(* the reply or the fallback timer of the stage.  Each is a thread here,   *)
(* and its program is the list of steps it still has to take.  Stage and   *)
(* pending are written without the lock, one step each.                    *)
(*                                                                         *)
(* Time: a timer of seconds (4s fallback, 10s send, 120s stream) runs out  *)
(* only while no goroutine has a step to take; the client may be slower    *)
(* than any of them.                                                       *)
(***************************************************************************)
EXTENDS Naturals, Sequences, FiniteSets

CONSTANTS
  Cap,         (* capacity of the frames channel, 16 in the code              *)
  History,     (* blobs of earlier turns that run_request may name            *)
  Blobs,       (* blobs stored for one checkpoint                             *)
  Slots,       (* reply handlers at a time                                    *)
  Plans        (* the turns: what the runner sets up and how the client       *)
               (* behaves, see Plan                                           *)

Hook == {"PROMPT", "PRE_COMPACT", "STOP"}

ASSUME CapAssumption == Cap \in Nat \ {0}
ASSUME HistoryAssumption == History \subseteq Nat
ASSUME BlobsAssumption == Blobs \in Nat \ {0}

\* The call the runner arms and the hooks it requests; how many replies at a
\* time, replies sent twice or too late to be heard, and RunSSE calls the client
\* makes at most, and whether it keeps one stream open from before the run until
\* it ends.  The mock does not depend on any of the client's part.
Plan == [tool : {"none", "read", "shell"}, hooks : SUBSET Hook,
         slots : 1 .. Slots, strays : Nat, streams : Nat, steady : BOOLEAN]

ASSUME SlotsAssumption == Slots \in Nat \ {0}
ASSUME PlansAssumption == Plans \subseteq Plan

VARIABLES
  stage, execID, pending,   (* cursorSession's fields of these names          *)
  toolOut,     (* the session holds the tool's result                         *)
  frames,      (* the frames channel                                          *)
  closed,      (* the closed channel is closed                                *)
  tool,        (* the call armed for the turn, "none" once taken              *)
  answers,     (* canned answers counted by getResponse                       *)
  todo,        (* the steps each thread still has to take                     *)
  timers,      (* the fallbacks started, as [stage, waitingOn, at]            *)
  sse,         (* the server stream as the mock sees it                       *)
  (* chosen once *)
  plan,        (* the Plan; its hooks are requestedHooks                      *)
  history,     (* how many blobs run_request names                            *)
  (* the client *)
  begun,       (* it has sent run_request                                     *)
  got,         (* the frames it received                                      *)
  replied,     (* the ask it answered in time last                            *)
  strays,      (* its other replies                                           *)
  streams,     (* its RunSSE calls                                            *)
  (* history variables, read only by properties *)
  asked,       (* the stages at which an ask was opened                       *)
  called,      (* the tool the turn called, "none" before                     *)
  returned,    (* a reply with the tool's result settled its ask              *)
  lost         (* a frame was dropped or written to nobody                    *)

sessionVars == <<stage, execID, pending, toolOut, tool, answers>>
streamVars == <<frames, closed, sse>>
choiceVars == <<plan, history>>
clientVars == <<begun, got, replied, strays, streams>>
historyVars == <<asked, called, returned, lost>>
vars == <<sessionVars, streamVars, todo, timers, choiceVars, clientVars, historyVars>>

Stage == {"", "hook:prompt", "context", "tool", "hook:compact", "hook:stop", "done"}

\* A turn asks at five stages at most.
Exec == 1 .. 5

Thread == {[by |-> "run", no |-> 1]}
          \cup [by : {"reply"}, no : 1 .. Slots]
          \cup [by : {"timer"}, no : Exec]

Run == [by |-> "run", no |-> 1]
Timer(i) == [by |-> "timer", no |-> i]
Handler(i) == [by |-> "reply", no |-> i]

-----------------------------------------------------------------------------
(***************************************************************************)
(* Frames and programs.                                                    *)
(***************************************************************************)
GetBlob(i)  == [kind |-> "getblob", no |-> i]
Blob(c, i)  == [kind |-> "blob", of |-> c, no |-> i]
Checkpoint(c, result) == [kind |-> "checkpoint", of |-> c, result |-> result]
AskFor(id, s) == [kind |-> "exec", id |-> id, stage |-> s]
Answer      == [kind |-> "answer"]
Ended       == [kind |-> "ended"]

Send(f) == <<[do |-> "send", frame |-> f]>>
Do(what) == <<[do |-> what]>>
Enter(s) == <<[do |-> "enter", stage |-> s]>>

Each(n, f(_)) == [i \in 1 .. n |-> [do |-> "send", frame |-> f(i)]]

\* cursorFetchHistory asks for every blob the client named.
FetchHistory == Each(history, GetBlob)

\* (bug) the checkpoint overtakes the blobs it names
SaveNamedFirst(c, result) ==
  Send(Checkpoint(c, result)) \o Each(Blobs, LAMBDA i : Blob(c, i))

\* cursorSendCheckpoint: the blobs, then the checkpoint that names them.  The
\* pause in between is for the client and changes nothing here.
Save(c, result) ==
  Each(Blobs, LAMBDA i : Blob(c, i)) \o Send(Checkpoint(c, result))

\* The exchange of a stage: it is entered, an id is put on the ask, whatever has
\* to precede the ask is sent, then the ask, and a fallback is started.
Exchange(s, first) ==
  Enter(s) \o Do("await") \o first
  \o <<[do |-> "ask", stage |-> s]>>

\* A hook the runner requested is asked for; otherwise its stage is passed.
HookOrPass(tag, s) ==
  IF tag \in plan.hooks THEN Exchange(s, <<>>) ELSE Enter(s) \o Do("advance")

Finish == HookOrPass("PRE_COMPACT", "hook:compact")

\* (bug) the stop hook runs before the answer
AdvanceStopsEarly ==
  CASE stage = "hook:prompt"  -> Exchange("context", <<>>)
    [] stage = "context"      -> Do("decide")
    [] stage = "tool"         -> Finish
    [] stage = "hook:compact" -> HookOrPass("STOP", "hook:stop") \o Do("answer")
    [] stage = "hook:stop"    -> Enter("done") \o Do("save") \o Send(Ended) \o Do("close")
    [] OTHER                  -> <<>>

\* (bug) the answer is given before the compaction hook as well
AdvanceAnswersTwice ==
  CASE stage = "hook:prompt"  -> Exchange("context", <<>>)
    [] stage = "context"      -> Do("decide")
    [] stage = "tool"         -> Do("answer") \o Finish
    [] stage = "hook:compact" -> Do("answer") \o HookOrPass("STOP", "hook:stop")
    [] stage = "hook:stop"    -> Enter("done") \o Do("save") \o Send(Ended) \o Do("close")
    [] OTHER                  -> <<>>

\* cursorAdvance, from the stage it reads to the next ask or to the end.
Advance ==
  CASE stage = "hook:prompt"  -> Exchange("context", <<>>)
    [] stage = "context"      -> Do("decide")
    [] stage = "tool"         -> Finish
    [] stage = "hook:compact" -> Do("answer") \o HookOrPass("STOP", "hook:stop")
    [] stage = "hook:stop"    -> Enter("done") \o Do("save") \o Send(Ended) \o Do("close")
    [] OTHER                  -> <<>>

-----------------------------------------------------------------------------
Init ==
  /\ stage = "" /\ execID = 0 /\ pending = 0
  /\ toolOut = FALSE
  /\ frames = <<>> /\ closed = FALSE
  /\ answers = 0
  /\ todo = [t \in Thread |-> <<>>]
  /\ timers = <<>>
  /\ sse = "none"
  /\ plan \in Plans /\ tool = plan.tool
  /\ history \in History
  /\ begun = FALSE /\ got = <<>>
  /\ replied = 0 /\ strays = 0
  /\ streams = 0
  /\ asked = {} /\ called = "none" /\ returned = FALSE /\ lost = FALSE

-----------------------------------------------------------------------------
(***************************************************************************)
(* Steps of a thread.                                                      *)
(***************************************************************************)
Next1(t) == Head(todo[t])
Does(t, what) == todo[t] # <<>> /\ Next1(t).do = what
Then(t, program) == todo' = [todo EXCEPT ![t] = program \o Tail(@)]

EnterStage(t) ==
  /\ Does(t, "enter")
  /\ stage' = Next1(t).stage
  /\ Then(t, <<>>)
  /\ UNCHANGED <<execID, pending, toolOut, tool, answers, streamVars, timers,
                 choiceVars, clientVars, historyVars>>

Await(t) ==
  /\ Does(t, "await")
  /\ execID + 1 \in Exec
  /\ execID' = execID + 1
  /\ pending' = execID + 1
  /\ asked' = asked \cup {stage}
  /\ Then(t, <<>>)
  /\ UNCHANGED <<stage, toolOut, tool, answers, streamVars, timers, choiceVars,
                 clientVars, called, returned, lost>>

\* The frame a thread is about to send; an ask carries the id as it is now.
Outgoing(t) ==
  IF Does(t, "ask") THEN AskFor(execID, Next1(t).stage) ELSE Next1(t).frame

Sending(t) == Does(t, "send") \/ Does(t, "ask")

\* go cursorFallback(stage), as soon as the ask is out of the sender's hands.
Watched(t) ==
  timers' = IF Does(t, "ask")
            THEN Append(timers, [stage |-> Next1(t).stage, waitingOn |-> 0, at |-> "start"])
            ELSE timers

\* send: the frame is queued if there is room, or dropped if the turn is over.
SendFrame(t) ==
  /\ Sending(t)
  /\ frames' \in (IF Len(frames) < Cap THEN {Append(frames, Outgoing(t))} ELSE {})
                \cup (IF closed THEN {frames} ELSE {})
  /\ lost' = (lost \/ frames' = frames)
  /\ Watched(t)
  /\ Then(t, <<>>)
  /\ UNCHANGED <<sessionVars, closed, sse, choiceVars, clientVars, asked, called,
                 returned>>

AdvanceTurn(t) ==
  /\ Does(t, "advance")
  /\ Then(t, Advance)
  /\ UNCHANGED <<sessionVars, streamVars, timers, choiceVars, clientVars, historyVars>>

\* shouldToolCall for the stream's path: a tool call armed for the turn is taken.
\* The checkpoint with the call pending precedes the ask for it.
Decide(t) ==
  /\ Does(t, "decide")
  /\ \/ /\ tool # "none"
        /\ tool' = "none"
        /\ called' = tool
        /\ Then(t, Exchange("tool", Save("pending", FALSE)))
     \/ /\ tool = "none"
        /\ Then(t, Finish)
        /\ UNCHANGED <<tool, called>>
  /\ UNCHANGED <<stage, execID, pending, toolOut, answers, streamVars, timers,
                 choiceVars, clientVars, asked, returned, lost>>

\* The text delta is a canned answer, and counted.
GiveAnswer(t) ==
  /\ Does(t, "answer")
  /\ answers' = answers + 1
  /\ Then(t, Send(Answer))
  /\ UNCHANGED <<stage, execID, pending, toolOut, tool, streamVars, timers,
                 choiceVars, clientVars, historyVars>>

\* cursorCheckpoint: the messages are built from what the session holds now, and
\* the canned answer is counted twice more.
SaveTurn(t) ==
  /\ Does(t, "save")
  /\ answers' = answers + 2
  /\ Then(t, Save("final", toolOut))
  /\ UNCHANGED <<stage, execID, pending, toolOut, tool, streamVars, timers,
                 choiceVars, clientVars, historyVars>>

CloseTurn(t) ==
  /\ Does(t, "close")
  /\ closed' = TRUE
  /\ Then(t, <<>>)
  /\ UNCHANGED <<sessionVars, frames, sse, timers, choiceVars, clientVars, historyVars>>

\* Only a read's result is kept (field 7); a shell's (field 2) is only logged.
Store(t) ==
  /\ Does(t, "store")
  /\ toolOut' = (toolOut \/ called = "read")
  /\ Then(t, <<>>)
  /\ UNCHANGED <<stage, execID, pending, tool, answers, streamVars, timers,
                 choiceVars, clientVars, historyVars>>

\* (bug) any reply advances the turn, whichever ask it answers
CurrentWhicheverAsk(id) == TRUE

Current(id) == pending # 0 /\ id = pending

\* The reply advances the turn if its ask is the one pending.
Claim(t) ==
  /\ Does(t, "claim")
  /\ \/ /\ Current(Next1(t).id)
        /\ pending' = 0
        /\ returned' = (returned \/ Next1(t).result)
        /\ Then(t, Do("advance"))
     \/ /\ ~Current(Next1(t).id)
        /\ Then(t, <<>>)
        /\ UNCHANGED <<pending, returned>>
  /\ UNCHANGED <<stage, execID, toolOut, tool, answers, streamVars, timers,
                 choiceVars, clientVars, asked, called, lost>>

\* cursorFallback notes what it waits on before it sleeps.
StartTimer(i) ==
  /\ timers[i].at = "start"
  /\ timers' = [timers EXCEPT ![i].at = "asleep", ![i].waitingOn = pending]
  /\ UNCHANGED <<sessionVars, streamVars, todo, choiceVars, clientVars, historyVars>>

-----------------------------------------------------------------------------
(***************************************************************************)
(* RunSSE.                                                                 *)
(***************************************************************************)
\* A frame is written to the client, or to nobody if it has hung up.
Relay ==
  /\ sse \in {"open", "broken"}
  /\ frames # <<>>
  /\ frames' = Tail(frames)
  /\ IF sse = "open"
     THEN got' = Append(got, Head(frames)) /\ UNCHANGED lost
     ELSE lost' = TRUE /\ UNCHANGED got
  /\ UNCHANGED <<sessionVars, closed, sse, todo, timers, choiceVars, begun,
                 replied, strays, streams, asked, called, returned>>

\* The close is seen once what was queued before it is written.
EndStream ==
  /\ sse \in {"open", "broken"}
  /\ closed
  /\ frames = <<>>
  /\ sse' = "ended"
  /\ UNCHANGED <<sessionVars, frames, closed, todo, timers, choiceVars, clientVars,
                 historyVars>>

\* r.Context() is done: the mock notices that the client is gone.
NoticeHangUp ==
  /\ sse = "broken"
  /\ sse' = "gone"
  /\ UNCHANGED <<sessionVars, frames, closed, todo, timers, choiceVars, clientVars,
                 historyVars>>

-----------------------------------------------------------------------------
(***************************************************************************)
(* Timers.  Nothing that is ready to run is still waiting when one runs out. *)
(***************************************************************************)
Ready(t) == todo[t] # <<>> /\ (Sending(t) => Len(frames) < Cap \/ closed)

Still ==
  /\ \A t \in Thread : ~Ready(t)
  /\ \A i \in DOMAIN timers : timers[i].at # "start"
  /\ sse = "open" => frames = <<>> /\ ~closed
  /\ sse # "broken"

\* (bug) an ask still open is taken for one that was answered
StaleIfOpen(i) == stage # timers[i].stage \/ pending # 0

\* The stage moved on, or the reply was handled, while the fallback slept.  All
\* fallbacks sleep equally long, so they run out in the order they started.
Stale(i) == stage # timers[i].stage \/ pending # timers[i].waitingOn

RunOut(i) ==
  /\ timers[i].at = "asleep"
  /\ \A j \in 1 .. i - 1 : timers[j].at = "over"
  /\ Still
  /\ timers' = [timers EXCEPT ![i].at = "over"]
  /\ \/ /\ Stale(i)
        /\ UNCHANGED <<pending, todo>>
     \/ /\ ~Stale(i)
        /\ pending' = 0
        /\ todo' = [todo EXCEPT ![Timer(i)] = Do("advance")]
  /\ UNCHANGED <<stage, execID, toolOut, tool, answers, streamVars, choiceVars,
                 clientVars, historyVars>>

\* send gives up on a full channel and goes on as if the frame were sent.
GiveUp(t) ==
  /\ Sending(t)
  /\ Still
  /\ lost' = TRUE
  /\ Watched(t)
  /\ Then(t, <<>>)
  /\ UNCHANGED <<sessionVars, streamVars, choiceVars, clientVars, asked, called,
                 returned>>

\* The stream's own 120s are over.
StreamTimeout ==
  /\ sse = "open"
  /\ ~plan.steady
  /\ Still
  /\ sse' = "gone"
  /\ UNCHANGED <<sessionVars, frames, closed, todo, timers, choiceVars, clientVars,
                 historyVars>>

-----------------------------------------------------------------------------
(***************************************************************************)
(* The client.                                                             *)
(***************************************************************************)
OpenStream ==
  /\ sse \in {"none", "gone"}
  /\ streams < plan.streams
  /\ sse' = "open"
  /\ streams' = streams + 1
  /\ UNCHANGED <<sessionVars, frames, closed, todo, timers, choiceVars, begun, got,
                 replied, strays, historyVars>>

HangUp ==
  /\ sse = "open"
  /\ ~plan.steady
  /\ sse' = "broken"
  /\ UNCHANGED <<sessionVars, frames, closed, todo, timers, choiceVars, clientVars,
                 historyVars>>

\* run_request: the history is fetched, then the prompt hook is run or passed.
RunRequest ==
  /\ ~begun
  /\ plan.steady => sse = "open"
  /\ begun' = TRUE
  /\ todo' = [todo EXCEPT ![Run] = FetchHistory \o HookOrPass("PROMPT", "hook:prompt")]
  /\ UNCHANGED <<sessionVars, streamVars, timers, choiceVars, got, replied, strays,
                 streams, historyVars>>

\* (bug) the result is kept only once the turn has moved on
HandleReplyLateStore(id, result) ==
  <<[do |-> "claim", id |-> id, result |-> result]>>
  \o (IF result THEN Do("store") ELSE <<>>)

\* BidiAppend keeps the result before it looks whether the ask is current.
HandleReply(id, result) ==
  (IF result THEN Do("store") ELSE <<>>)
  \o <<[do |-> "claim", id |-> id, result |-> result]>>

\* An exec result for an ask the client received, now or long after, with the
\* tool's result or with an error.  The client may repeat itself.
Reply(i, f, result) ==
  /\ todo[Handler(i)] = <<>> /\ \A k \in 1 .. i - 1 : todo[Handler(k)] # <<>>
  /\ f.kind = "exec"
  /\ result => f.stage = "tool"
  /\ IF f.id = pending /\ f.id # replied
     THEN replied' = f.id /\ UNCHANGED strays
     ELSE strays < plan.strays /\ strays' = strays + 1 /\ UNCHANGED replied
  /\ todo' = [todo EXCEPT ![Handler(i)] = HandleReply(f.id, result)]
  /\ UNCHANGED <<sessionVars, streamVars, timers, choiceVars, begun, got, streams,
                 historyVars>>

-----------------------------------------------------------------------------
Step(t) ==
  \/ EnterStage(t) \/ Await(t) \/ SendFrame(t) \/ AdvanceTurn(t)
  \/ Decide(t) \/ GiveAnswer(t) \/ SaveTurn(t) \/ CloseTurn(t)
  \/ Store(t) \/ Claim(t) \/ GiveUp(t)

Server ==
  \/ \E t \in Thread : Step(t)
  \/ \E i \in DOMAIN timers : StartTimer(i) \/ RunOut(i)
  \/ Relay \/ EndStream \/ NoticeHangUp

Client ==
  \/ OpenStream \/ HangUp \/ RunRequest
  \/ \E i \in 1 .. plan.slots, j \in DOMAIN got, result \in BOOLEAN : Reply(i, got[j], result)

Next == Server \/ StreamTimeout \/ Client

Spec == Init /\ [][Next]_vars

\* Goroutines run and timers run out; the client owes nothing.
FairSpec == Spec /\ WF_vars(Server)

-----------------------------------------------------------------------------
(***************************************************************************)
(* Properties                                                              *)
(***************************************************************************)
\* Every variable keeps to its domain; no thread has a step left that asks at a
\* stage twice (there are ids for five asks).
TypeOK ==
  /\ stage \in Stage
  /\ execID \in Exec \cup {0} /\ pending \in Exec \cup {0}
  /\ toolOut \in BOOLEAN
  /\ Len(frames) <= Cap
  /\ closed \in BOOLEAN
  /\ tool \in {"none", "read", "shell"}
  /\ answers \in 0 .. 3
  /\ DOMAIN todo = Thread
  /\ Len(timers) \in Exec \cup {0}
  /\ \A i \in DOMAIN timers : /\ timers[i].stage \in Stage
                              /\ timers[i].waitingOn \in Exec \cup {0}
                              /\ timers[i].at \in {"start", "asleep", "over"}
  /\ sse \in {"none", "open", "broken", "gone", "ended"}
  /\ begun \in BOOLEAN
  /\ replied \in Exec \cup {0} /\ strays \in 0 .. plan.strays
  /\ streams \in 0 .. plan.streams
  /\ asked \subseteq Stage
  /\ returned \in BOOLEAN /\ lost \in BOOLEAN

\* Whatever replies come late, twice or never, and whichever timer runs out, the
\* turn walks its stages in order, asks at most once at each and never moves on
\* while an ask is open ("a reply that arrives after the fallback must not
\* advance the next stage").
Turn == INSTANCE CursorTurn WITH open <- pending # 0

TurnSpec == Turn!TurnSpec

\* What reaches the client, and what is queued for it, in order.
Stream == got \o frames

Rank(f) ==
  CASE f.kind = "getblob" -> 0
    [] f.kind = "exec" -> (CASE f.stage = "hook:prompt" -> 1
                             [] f.stage = "context" -> 2
                             [] f.stage = "tool" -> 5
                             [] f.stage = "hook:compact" -> 6
                             [] f.stage = "hook:stop" -> 8)
    [] f.kind = "blob" -> (IF f.of = "pending" THEN 3 ELSE 9)
    [] f.kind = "checkpoint" -> (IF f.of = "pending" THEN 4 ELSE 10)
    [] f.kind = "answer" -> 7
    [] f.kind = "ended" -> 11

\* The client sees the turn in the order the backend gives it, each frame once:
\* history, prompt hook, context, the pending call saved before it is asked for,
\* compaction, answer, stop hook, the turn saved, and last of all its end.
StreamInOrder ==
  \A i, j \in DOMAIN Stream :
    i < j => /\ Rank(Stream[i]) <= Rank(Stream[j])
             /\ Stream[i] # Stream[j]

\* A checkpoint the client receives names only blobs it has received, unless
\* frames were lost on the way ("the blobs go first").
StoredBeforeNamed ==
  ~lost =>
    \A i \in DOMAIN got : got[i].kind = "checkpoint" =>
      {Blob(got[i].of, k) : k \in 1 .. Blobs} \subseteq {got[j] : j \in 1 .. i - 1}

\* If the tool's ask was settled by the result the client returned for it, the
\* turn is saved with that result (toolOut is "what the client returned for it").
ResultSaved ==
  \A i \in DOMAIN Stream :
    returned /\ Stream[i].kind = "checkpoint" /\ Stream[i].of = "final"
      => Stream[i].result

\* A run that was started ends, even if the client answers nothing and nobody
\* reads the stream.
TurnEnds == begun ~> closed
=============================================================================
