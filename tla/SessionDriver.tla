--------------------------- MODULE SessionDriver ---------------------------
(***************************************************************************)
(* A session the runner drives (runner/session.go): the read loop takes    *)
(* the backend's events one by one and wakes waiters through one-slot      *)
(* channels; the runner sends a prompt, waits in a select, reads flags.    *)
(*                                                                         *)
(* The backend and the agent behind it are external (agentprotocol): they  *)
(* are what the driver may be handed.  An event names the turn or the      *)
(* approval it is about, and when it was emitted: by the load, before      *)
(* Open returned; in the gap between that and Start's count of the queue;  *)
(* or from then on.  Text and tool output are left out.                    *)
(***************************************************************************)
EXTENDS Integers, Sequences, FiniteSets

CONSTANTS
  MaxTurns,     (* bound on SendPrompt calls of one session                   *)
  MaxAsks,      (* bound on approvals the agent asks for                      *)
  MaxDeltas,    (* bound on text events                                       *)
  MaxServed,    (* bound on answers of the mock                               *)
  EventCap,     (* capacity of the backend's event channel                    *)
  Loads,        (* what a resumed session may emit before Open returns        *)
  Deadlines,    (* whether a wait may last until its deadline                 *)
  Policies,     (* the driver's settings, as [park, cancelDuringLoad, resume] *)
  Afters        (* how callers choose `after`: the count read before the      *)
                (* prompt, or one less than the count read after it           *)

Kind == {"delta", "ask", "resolved", "turn", "error"}
Event == [kind : Kind, no : Nat, from : {"load", "gap", "run"}]

ASSUME TurnsAssumption == MaxTurns \in Nat /\ MaxDeltas \in Nat /\ MaxServed \in Nat
ASSUME AsksAssumption == MaxAsks \in Nat
ASSUME DeadlinesAssumption == Deadlines \in BOOLEAN
ASSUME EventCapAssumption == EventCap \in Nat \ {0}
ASSUME LoadsAssumption ==     \* the approvals of a load are numbered from 1, too
  \A l \in Loads :
    /\ l \in Seq([kind : {"delta", "ask"}, no : 0 .. MaxAsks, from : {"load"}])
    /\ \E n \in 0 .. MaxAsks :
         {l[i].no : i \in {j \in DOMAIN l : l[j].kind = "ask"}} = 1 .. n
    /\ \A i, j \in DOMAIN l : l[i].kind = "ask" /\ l[j].kind = "ask" /\ l[i].no = l[j].no => i = j
ASSUME PoliciesAssumption ==
  Policies \subseteq [park : BOOLEAN, cancelDuringLoad : BOOLEAN, resume : BOOLEAN]
ASSUME AftersAssumption == Afters \subseteq {"before", "one less"}

VARIABLES
  (* SessionDriver *)
  policy,        (* ParkPermission, CancelDuringLoad and a ResumeSessionID    *)
  turnEnded,
  notes,         (* the events noted, with their replay mark                  *)
  permissions,   (* the approvals recorded, with the answer given             *)
  updates, turnOver, parked,   (* the one-slot channels: a token or none      *)
  done,          (* the done channel is closed                                *)
  (* the read loop *)
  reader,        (* where onEvent is                                          *)
  event,         (* the event it is about                                     *)
  seen, during,  (* events taken; how many of them count as the rebuild       *)
  resolving,     (* Resolve calls under way, off the read loop                *)
  (* the runner *)
  runner,        (* where the runner is                                       *)
  after,         (* what WaitAnswered was called with                         *)
  why,           (* how the last wait ended                                   *)
  turn,          (* prompts sent                                              *)
  (* external: the backend, the agent and the mock *)
  queue,         (* the event channel                                         *)
  live,          (* the backend still emits                                   *)
  running,       (* the turn under way, 0 for none                            *)
  asking,        (* approvals the agent waits on                              *)
  asks, deltas,  (* emitted so far                                            *)
  served,        (* answers the mock has counted                              *)
  (* history variables, read only by properties *)
  ended,         (* the turns whose end the backend emitted                   *)
  verdicts       (* the approvals resolved, as [no, answer]                   *)

driverVars == <<policy, turnEnded, notes, permissions, updates, turnOver, parked, done>>
readerVars == <<reader, event, seen, during, resolving>>
runnerVars == <<runner, after, why, turn>>
backendVars == <<queue, live, running, asking, asks, deltas, served>>
historyVars == <<ended, verdicts>>
vars == <<driverVars, readerVars, runnerVars, backendVars, historyVars>>

NoEvent == [kind |-> "delta", no |-> 0, from |-> "run"]

\* Open has returned: what a load emitted is queued, and nobody reads it yet.
Init ==
  /\ policy \in Policies
  /\ queue \in IF policy.resume THEN Loads ELSE {<<>>}
  /\ asking = {queue[i].no : i \in {j \in DOMAIN queue : queue[j].kind = "ask"}}
  /\ asks = Cardinality(asking)
  /\ turnEnded = FALSE
  /\ notes = <<>> /\ permissions = <<>>
  /\ updates = FALSE /\ turnOver = FALSE /\ parked = FALSE /\ done = FALSE
  /\ reader = "unstarted" /\ event = NoEvent /\ seen = 0 /\ during = 0 /\ resolving = {}
  /\ runner = "start" /\ after = 0 /\ why = "none" /\ turn = 0
  /\ live = TRUE /\ running = 0 /\ deltas = 0 /\ served = 0
  /\ ended = {} /\ verdicts = {}

\* Start counts what is queued by now, whoever emitted it, and the read loop begins.
Start ==
  /\ runner = "start" /\ reader = "unstarted"
  /\ during' = IF policy.resume THEN Len(queue) ELSE 0
  /\ reader' = "take"
  /\ runner' = "idle"
  /\ UNCHANGED <<driverVars, event, seen, resolving, after, why, turn, backendVars,
                 historyVars>>

-----------------------------------------------------------------------------
(***************************************************************************)
(* The read loop.                                                          *)
(***************************************************************************)
\* (bug) the first event after the rebuild counts as part of it
InRebuildOffByOne == seen <= during

InRebuild == seen < during

\* approval.resolved, run.started and turn.started are not noted.
Noted(e) == e.kind # "resolved"

\* (bug) the read loop resolves approvals itself, and takes no event meanwhile
ReadyToTakeInline == reader = "take" /\ queue # <<>> /\ resolving = {}

ReadyToTake == reader = "take" /\ queue # <<>>

TakeEvent ==
  /\ ReadyToTake
  /\ event' = Head(queue)
  /\ queue' = Tail(queue)
  /\ notes' = IF Noted(Head(queue))
              THEN Append(notes, [of |-> Head(queue), replay |-> InRebuild])
              ELSE notes
  /\ reader' = "handle"
  /\ UNCHANGED <<policy, turnEnded, permissions, updates, turnOver, parked, done, seen,
                 during, resolving, runnerVars, live, running, asking, asks, deltas,
                 served, historyVars>>

\* onApproval's policy: park, deny what was raised during the load, or allow.
AnswerTo(replay) ==
  IF policy.park THEN "parked"
  ELSE IF replay /\ policy.cancelDuringLoad THEN "cancelled" ELSE "approved"

\* (bug) a parked approval is resolved as well
StartResolveParked(answer) ==
  resolving' = resolving \cup {[no |-> event.no, answer |-> answer]}

\* (bug) whatever was recorded, the agent is told yes
StartResolveYes(answer) ==
  resolving' = IF answer = "parked" THEN resolving
               ELSE resolving \cup {[no |-> event.no, answer |-> "approved"]}

StartResolve(answer) ==
  resolving' = IF answer = "parked" THEN resolving
               ELSE resolving \cup {[no |-> event.no, answer |-> answer]}

OnApproval ==
  /\ event.kind = "ask"
  /\ permissions' = Append(permissions, [no |-> event.no, duringLoad |-> InRebuild,
                                         answer |-> AnswerTo(InRebuild)])
  /\ StartResolve(AnswerTo(InRebuild))
  /\ UNCHANGED turnEnded

OnTurnEnd ==
  /\ event.kind \in {"turn", "error"}
  /\ turnEnded' = TRUE
  /\ UNCHANGED <<permissions, resolving>>

OnOther ==
  /\ event.kind \in {"delta", "resolved"}
  /\ UNCHANGED <<permissions, resolving, turnEnded>>

HandleEvent ==
  /\ reader = "handle"
  /\ OnApproval \/ OnTurnEnd \/ OnOther
  /\ reader' = "signal"
  /\ UNCHANGED <<policy, notes, updates, turnOver, parked, done, event, seen, during,
                 runnerVars, backendVars, historyVars>>

\* wake(turnOver) or wake(parked), outside the lock; a token already there stays.
Signal ==
  /\ reader = "signal"
  /\ turnOver' = (turnOver \/ event.kind \in {"turn", "error"})
  /\ parked' = (parked \/ (event.kind = "ask" /\ policy.park))
  /\ reader' = "wake"
  /\ UNCHANGED <<policy, turnEnded, notes, permissions, updates, done, event, seen,
                 during, resolving, runnerVars, backendVars, historyVars>>

WakeUpdates ==
  /\ reader = "wake"
  /\ updates' = TRUE
  /\ seen' = seen + 1
  /\ reader' = "take"
  /\ UNCHANGED <<policy, turnEnded, notes, permissions, turnOver, parked, done, event,
                 during, resolving, runnerVars, backendVars, historyVars>>

\* The event channel is closed and drained: read returns and closes done.
EndRead ==
  /\ reader = "take"
  /\ queue = <<>> /\ ~live
  /\ reader' = "over"
  /\ done' = TRUE
  /\ UNCHANGED <<policy, turnEnded, notes, permissions, updates, turnOver, parked,
                 event, seen, during, resolving, runnerVars, backendVars, historyVars>>

\* Resolve may emit while it runs, so it may have to wait for the read loop.
Resolve(r) ==
  /\ r \in resolving
  /\ \/ live /\ Len(queue) < EventCap
        /\ queue' = Append(queue, [kind |-> "resolved", no |-> r.no, from |-> "run"])
        /\ asking' = asking \ {r.no}
        /\ verdicts' = verdicts \cup {r}
     \/ ~live /\ UNCHANGED <<queue, asking, verdicts>>
  /\ resolving' = resolving \ {r}
  /\ UNCHANGED <<driverVars, reader, event, seen, during, runnerVars, live, running,
                 asks, deltas, served, ended>>

-----------------------------------------------------------------------------
(***************************************************************************)
(* The runner.  A session is prompted and waited on in turn, or parked and *)
(* killed; it may be closed whenever no wait is under way.                 *)
(***************************************************************************)
\* SendPrompt marks the new turn before the prompt is handed over.  A caller
\* that compares with the count before its prompt has read it by now.
BeginPrompt ==
  /\ runner = "idle" /\ turn < MaxTurns /\ live
  /\ turnEnded' = FALSE
  /\ after' = served
  /\ runner' = "prompt"
  /\ UNCHANGED <<policy, notes, permissions, updates, turnOver, parked, done, readerVars,
                 why, turn, backendVars, historyVars>>

HandOver ==
  /\ runner = "prompt"
  /\ turn' = turn + 1
  /\ running' = IF live /\ running = 0 THEN turn + 1 ELSE running
  /\ runner' = "sent"
  /\ UNCHANGED <<driverVars, readerVars, after, why, queue, live, asking, asks, deltas,
                 served, historyVars>>

WaitAnswered ==
  /\ runner = "sent" /\ ~policy.park
  /\ \E a \in Afters : after' = IF a = "before" THEN after ELSE served - 1
  /\ runner' = "check"
  /\ UNCHANGED <<driverVars, readerVars, why, turn, backendVars, historyVars>>

WaitParked ==
  /\ runner = "sent" /\ policy.park
  /\ runner' = "parkwait"
  /\ UNCHANGED <<driverVars, readerVars, after, why, turn, backendVars, historyVars>>

Return(reason) == runner' = "idle" /\ why' = reason

\* (bug) only the wakeups are waited for
AnsweredFromWakeups == FALSE

\* What WaitAnswered looks at each time round, tokens aside.
Answered == served > after /\ turnEnded

CheckAnswered ==
  /\ runner = "check"
  /\ \/ Answered /\ Return("answered")
     \/ ~Answered /\ runner' = "select" /\ UNCHANGED why
  /\ UNCHANGED <<driverVars, readerVars, after, turn, backendVars, historyVars>>

\* A token of updates, or 200ms.
Look ==
  /\ runner = "select"
  /\ updates' \in {updates, FALSE}
  /\ runner' = "check"
  /\ UNCHANGED <<policy, turnEnded, notes, permissions, turnOver, parked, done,
                 readerVars, after, why, turn, backendVars, historyVars>>

\* (bug) the end of a turn is enough, answered or not
EnoughAtTurnOver == TRUE

\* The token says a turn ended, whichever it was; the flag is not looked at.
Enough == served > after

TakeTurnOver ==
  /\ runner = "select"
  /\ turnOver
  /\ turnOver' = FALSE
  /\ \/ Enough /\ Return("answered")
     \/ ~Enough /\ runner' = "check" /\ UNCHANGED why
  /\ UNCHANGED <<policy, turnEnded, notes, permissions, updates, parked, done,
                 readerVars, after, turn, backendVars, historyVars>>

\* The deadline passes: no error if the mock answered, whatever the turn does.
Deadline ==
  /\ Deadlines
  /\ runner \in {"select", "parkwait"}
  /\ Return("deadline")
  /\ UNCHANGED <<driverVars, readerVars, after, turn, backendVars, historyVars>>

SeeDone ==
  /\ runner \in {"select", "parkwait"}
  /\ done
  /\ Return("done")
  /\ UNCHANGED <<driverVars, readerVars, after, turn, backendVars, historyVars>>

TakeParked ==
  /\ runner = "parkwait"
  /\ parked
  /\ parked' = FALSE
  /\ Return("parked")
  /\ UNCHANGED <<policy, turnEnded, notes, permissions, updates, turnOver, done,
                 readerVars, after, turn, backendVars, historyVars>>

\* Close or Kill: the backend stops and cancels what the agent still waits on.
EndSession ==
  /\ runner = "idle" /\ live
  /\ live' = FALSE
  /\ running' = 0
  /\ asking' = {}
  /\ runner' = "closed"
  /\ UNCHANGED <<driverVars, readerVars, after, why, turn, queue, asks, deltas, served,
                 historyVars>>

-----------------------------------------------------------------------------
(***************************************************************************)
(* External: the backend, the agent and the mock.                          *)
(***************************************************************************)
Emit(kind, no) ==
  /\ live /\ Len(queue) < EventCap
  /\ queue' = Append(queue, [kind |-> kind, no |-> no,
                             from |-> IF reader = "unstarted" THEN "gap" ELSE "run"])

\* Text, or an update that belongs to no turn.
EmitDelta ==
  /\ deltas < MaxDeltas
  /\ Emit("delta", running)
  /\ deltas' = deltas + 1
  /\ UNCHANGED <<driverVars, readerVars, runnerVars, live, running, asking, asks, served,
                 historyVars>>

\* In a turn; a resumed agent may raise one again before its first turn.
Ask ==
  /\ running # 0 \/ (policy.resume /\ turn = 0)
  /\ asks < MaxAsks
  /\ Emit("ask", asks + 1)
  /\ asks' = asks + 1
  /\ asking' = asking \cup {asks + 1}
  /\ UNCHANGED <<driverVars, readerVars, runnerVars, live, running, deltas, served,
                 historyVars>>

\* A turn ends once, completed or failed, and not while an approval is out.
EndTurn ==
  /\ running # 0 /\ asking = {}
  /\ \E kind \in {"turn", "error"} : Emit(kind, running)
  /\ ended' = ended \cup {running}
  /\ running' = 0
  /\ UNCHANGED <<driverVars, readerVars, runnerVars, live, asking, asks, deltas, served,
                 verdicts>>

\* The mock answers a request of the agent's, inside a turn or beside it.
Serve ==
  /\ turn > 0 /\ served < MaxServed
  /\ served' = served + 1
  /\ UNCHANGED <<driverVars, readerVars, runnerVars, queue, live, running, asking, asks,
                 deltas, historyVars>>

\* The agent's process ends on its own.
Exit ==
  /\ live
  /\ live' = FALSE
  /\ running' = 0
  /\ asking' = {}
  /\ UNCHANGED <<driverVars, readerVars, runnerVars, queue, asks, deltas, served,
                 historyVars>>

-----------------------------------------------------------------------------
Reader ==
  \/ TakeEvent \/ HandleEvent \/ Signal \/ WakeUpdates \/ EndRead
  \/ \E r \in resolving : Resolve(r)

\* What a wait does by itself, its deadline aside.
Waiting == CheckAnswered \/ Look \/ TakeTurnOver \/ SeeDone \/ TakeParked

Runner ==
  \/ Start \/ BeginPrompt \/ HandOver \/ WaitAnswered \/ WaitParked \/ Waiting
  \/ Deadline \/ EndSession

Backend == EmitDelta \/ Ask \/ EndTurn \/ Serve \/ Exit

Next == Reader \/ Runner \/ Backend

Spec == Init /\ [][Next]_vars

\* The read loop, the Resolve calls and a wait run; the agent owes nothing, and
\* no wait has to reach its deadline.
FairSpec ==
  /\ Spec
  /\ WF_vars(TakeEvent \/ HandleEvent \/ Signal \/ WakeUpdates \/ EndRead)
  /\ WF_vars(\E r \in resolving : Resolve(r))
  /\ WF_vars(Waiting)

-----------------------------------------------------------------------------
(***************************************************************************)
(* Properties                                                              *)
(***************************************************************************)
Answer == {"approved", "cancelled", "parked"}

\* Every variable keeps to its domain.
TypeOK ==
  /\ turnEnded \in BOOLEAN
  /\ notes \in Seq([of : Event, replay : BOOLEAN])
  /\ permissions \in Seq([no : Nat, duringLoad : BOOLEAN, answer : Answer])
  /\ updates \in BOOLEAN /\ turnOver \in BOOLEAN /\ parked \in BOOLEAN
  /\ done \in BOOLEAN
  /\ reader \in {"unstarted", "take", "handle", "signal", "wake", "over"}
  /\ event \in Event
  /\ seen \in Nat /\ during \in Nat
  /\ resolving \subseteq [no : Nat, answer : Answer \ {"parked"}]
  /\ runner \in {"start", "idle", "prompt", "sent", "check", "select", "parkwait", "closed"}
  /\ after \in Nat \cup {-1}
  /\ why \in {"none", "answered", "parked", "deadline", "done"}
  /\ turn \in Nat
  /\ queue \in Seq(Event)
  /\ live \in BOOLEAN
  /\ running \in Nat /\ asking \subseteq Nat
  /\ asks \in Nat /\ deltas \in Nat /\ served \in Nat
  /\ ended \subseteq Nat /\ verdicts \subseteq [no : Nat, answer : Answer]

\* A wait that was neither cut short by its deadline nor by the end of the
\* session has waited for the turn just prompted ("waits for the agent's turn to
\* end, having been answered by the mock at least once beyond `after`").
WaitedForTurn ==
  why = "answered" /\ runner = "idle" => turn \in ended /\ served > after

\* The driver answers an approval as it recorded it and at most once, records
\* each of them once, and never answers one it parked: what Permissions()
\* reports is what the agent was told.
PermissionsAreTrue ==
  /\ \A i, j \in DOMAIN permissions : permissions[i].no = permissions[j].no => i = j
  /\ \A v \in resolving \cup verdicts :
       \E i \in DOMAIN permissions :
         permissions[i].no = v.no /\ permissions[i].answer = v.answer

\* An approval the agent still waits on after WaitParked saw it is held: a Kill
\* then finds the agent with a call in flight.
ParkedIsHeld ==
  why = "parked" /\ runner = "idle" /\ live => asking # {}

\* What Start counts as the rebuild: of a resumed session, what was emitted before
\* it counted.
Rebuilt(e) == policy.resume /\ e.from # "run"

\* An event is marked as replayed, and an approval as raised during the load,
\* exactly if the session was resumed and had queued it when Start counted,
\* whenever the read loop takes it and whatever is emitted meanwhile: no event of
\* the load is unmarked, and none emitted since the count is marked.
ReplayIsMarked ==
  /\ \A i \in DOMAIN notes : notes[i].replay <=> Rebuilt(notes[i].of)
  /\ \A i \in DOMAIN permissions :
       permissions[i].duringLoad <=>
         \E j \in DOMAIN notes : /\ notes[j].of.kind = "ask" /\ Rebuilt(notes[j].of)
                                 /\ notes[j].of.no = permissions[i].no

\* What is marked as replayed was emitted before Open returned ("whatever the
\* session emitted before Open returned is marked as replay", "what is queued now is
\* the rebuild").
ReplayIsOfLoad == \A i \in DOMAIN notes : notes[i].replay => notes[i].of.from = "load"

\* A turn that ended answered is noticed, in whatever order its end, its answer
\* and their wakeups come and whichever were dropped: no wait has to run into
\* its deadline ("a dropped wakeup costs nothing").
EndIsNoticed ==
  runner \in {"check", "select"} /\ turn \in ended /\ served > after
    ~> runner \notin {"check", "select"}

\* Every approval that is not parked is resolved in the end, even by a backend
\* that has to emit while it resolves.
AskIsResolved == resolving # {} ~> resolving = {}
=============================================================================
