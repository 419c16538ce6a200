# Models of harness-test

harness-test runs coding agents (Claude Code, Codex, Cursor, Gemini, Kiro, …)
against a mock model server and checks that their hooks, instructions, sessions
and permissions work. Most of what it measures is concurrent: agents send
requests whenever they like, a mock backend drives a client through callbacks
and timers, and the runner waits on counters, flags and one-slot channels. What it
then says about an agent must be about that agent, in that step, that night.
The modules here model that part, check it with TLC and prove the part that
matters most with TLAPS. Every definition follows the Go source (and, for the
night, the shell script); `PROJECT.json` maps it to its lines.

## Inventory

| Component | State | Operations | Hard behaviour | What makes it correct |
|---|---|---|---|---|
| Mock server (`server/server.go`) | request log, prepared tool call (armed, served, name, path), answer count, requested hooks, behind one mutex | `PrepareToolCall`, `ClearLog`, `record`, `markStreamed`, `bodyOffersTool`, `shouldToolCall`, `getToolCall`, `getResponse` | a handler takes the lock once per step, so concurrent requests and the runner interleave between steps | the call goes to one request, which declares it; the count and the streamed marks are true |
| Protocol handlers (`chat`, `anthropic`, `responses`, `gemini`, `bedrock`, Kiro) | none of their own | record, mark, offer, decide, answer, in an order that differs per protocol | the order, and which steps a protocol leaves out | each one marks what it streams and asks before it calls |
| Cursor backend (`server/cursor.go`) | per run: stage, pending ask, tool result, a frame channel of 16, a closed channel | `RunSSE`, `BidiAppend`, `cursorAdvance`, `cursorHook`, `cursorFallback`, `cursorCheckpoint`, `send` | replies race fallback timers; frames are dropped after 10 s; the client may hang up or never read | stages in order, one settlement per ask, blobs before the checkpoint that names them, every run ends |
| Session driver (`runner/session.go`) | notes, permissions, `turnEnded`, one-slot channels `updates`, `turnOver`, `parked`, `done` | read loop, `onApproval`, `SendPrompt`, `WaitAnswered`, `WaitParked`, `Close`, `Kill` | lost and stale wakeups, approvals resolved off the read loop, events replayed during a load | a wait returns for its own turn; the agent is told what is recorded; what was queued when `Start` counted, and only that, is marked as replay |
| Test runner (`runner/testrunner.go`) | phase, cleanups, environment, results | `resetPhase`, `runHeadless`, `runInteractive`, `runACP`, `waitTurnSettled`, `finish` | state that outlives a phase, quiet windows and deadlines | a phase measures its own turn only; cleanups always run |
| Session probes (`runner/testrunner.go`, `probes.go`) | the processes started, the mark in the log, the mock's answer, what the driver heard | `probeResume`, `probeCompact`, `probeToolCallInFlight`, `attemptResume`, `holdBack` | loads retried against a store still being written; a process that dies in a wait; requests of a turn before | a result says what the agent did; no process is left or shares the store |
| Hidden-command probe (`runner/hidden.go`) | a result per candidate, the mock's log | help runs, bare runs, matching of requests, clearing | runs in parallel with one log between them; turns begun by a help run | an answer is reported, a turn is seen, nothing is left, nothing harmful is run |
| Deferred tools, transcripts (`deferred.go`, `transcripts.go`) | the request log, files | one prompt; reading files | as stages of a run | the verdict is on the stage's own call |
| Report and expectation (`runner/report.go`, `expect.go`, `tests/nightly.sh`) | check ids, reports in a directory, expected runs | `record`, `compareRun`, `updateExpectations`, the script's loop | repeated ids, missing checks, a run killed half-way, an update after it | no difference is missed or invented |
| PTY session (`runner/pty.go`) | output buffer | `WaitForAny` | a target split over two reads | found once it is there |
| Proxy, event-stream framing, tool declarations, seeds, pinning, CLI | little or none | I/O and pure text or JSON functions | none a model checker reaches | tests |

The runner arms and clears the mock and polls its count; agents reach the mock
over HTTP, or, for Cursor, through a stream and callbacks; the session driver
hears from the agent through a backend of the `agentprotocol` library (not under
`src/`, modelled as external actions). The probes use the driver and the mock; what
they say goes through `record` into a report, and the night compares reports.

## Modules

* `ToolOffer` — what the server promises of a prepared call: armed, taken by at
  most one request, readable afterwards.
* `MockServer` — the mock and its handlers. A request has a program counter
  and every lock section of its handler is one action; a protocol is a *shape*,
  the order of sections it has. `PrepareToolCall` and `ClearLog` are the runner's:
  they come at any moment, since nothing in the server prevents that, but for the
  requests a runner waits for (`awaited`, part of a request's kind): `Quiet` assumes that
  none of those is between two sections. `OfferSpec` is the refinement of `ToolOffer`. `arms`, `clears`,
  `epoch` and `grant` are history variables.
* `CursorTurn` — a turn of the Cursor backend as its stages, the asks made at
  them and whether one is open.
* `CursorSession` — one run of the backend. Goroutines are threads with a list
  of steps left (`todo`): the run handler, the reply handlers and the fallback
  timers. `cursorAdvance` and the functions it calls become such lists;
  `stage` and `pending` are written in steps of their own, without the lock, as in
  the code. `TurnSpec` is the refinement of `CursorTurn`.
* `SessionDriver` — the read loop (take, handle, signal, wake), the goroutines
  that resolve approvals, and the runner's calls on the driver, with the backend,
  the agent and the mock's count as external actions. `Init` is the moment `Open`
  returned, with what a load emitted in the queue; `Start` is a step of its own that counts
  the queue and begins the read loop. The backend may emit in between, and every event
  says when it was emitted (`from`: the load, the gap or the run).
* `TurnSettle` — `runInteractive`: two prompts and a compaction typed into a
  terminal, each followed by `waitTurnSettled`, with `waitScreenQuiet` before the
  first and the last. A wait is a loop of polls; its variables are the polls left
  and those since the last news. The agent is external and acts between any two
  polls: it may start late, be answered, fire its stop hook before or long after it
  is done, or do none of it.
* `RunnerPhases` — `main`'s loop and `TestRunner.Run` as a list of stages, each
  with what it clears (`resetPhase`), arms (`prepareToolCall` and the probes' own)
  and reads. The mock's log is the set of stages its entries come from, the armed call the
  number of the stage that armed it, a hook log the set of tags in it.
* `ResumeProbe` — the resume, compaction and in-flight probes, step by step: the
  first process and its end, the loads at growing delays, the follow-up, the mark and the
  look at the log. An entry of the log is the process that sent it, what it says and
  whether it holds the earlier turns. What the agent is like (how long it takes to
  write its session, what it does with `/compact`, whether it raises an approval again)
  is chosen with the plan; what it does, and when, is up to it.
* `HiddenProbe` — every candidate's help run behind a semaphore, then the bare runs of
  those that may be run, then the matching of requests to candidates. What a run
  prints is one of the kinds of output the code tells apart, and any run may start a
  turn while its process lives. A request is what the three clauses of the matching look
  at: the marker, the words in its user text, and whose words its body holds as a whole
  JSON string, its own run's or anybody's (a declared tool named like a candidate).
* `ReportGate` — `record`'s numbering of ids, the report, `compareRun`, the update of
  an expected file and `nightly.sh`, night after night.
* `MCMockServer`, `MCCursorSession`, `MCSessionDriver`, `MCTurnSettle`,
  `MCRunnerPhases`, `MCReportGate`, `MCProbes` — the small instances. `MCProbes` holds those
  of both `ResumeProbe` and `HiddenProbe`: the runner runs one probe at a time. `MCSuite`
  has `RunnerPhases`, `ReportGate` and the probes in one run. They share no state, so a
  behaviour of it is a behaviour of one of them, the others in a fixed initial state.
* `MockServer_proofs`, `TurnSettle_proofs`, `ReportGate_proofs`, `HiddenProbe_proofs`,
  `ResumeProbe_proofs`, `CursorSession_proofs`, `SessionDriver_proofs`,
  `RunnerPhases_proofs` — the theorems below.

Operators marked `(bug)` are mutated forms of the definition that follows them;
nothing uses them, and `PROJECT.json` says which property each one breaks.

## Runs

| Run | Instance | Shows |
|---|---|---|
| `server` | 3 requests, 2 tools, 2 calls armed, 1 clear; nobody waited for and 5 kinds (one per order of sections); all waited for, of handlers that ask and mark; one waited for beside two that are not | type correctness, `OneCallPerArm`, `IndexIsOwn`, `AnswersCountReplies`, `AwaitedCallWasOffered`, `AwaitedStreamIsTrue`, refinement of `ToolOffer` |
| `server_served` | 2 requests the runner waits for, 2 calls armed, 1 clear | **violated**: after `ClearLog` the flag of `ToolCallServed` still speaks of a call handed out before |
| `server_streamed` | 2 requests, Gemini and chat | **violated**: Gemini streams a tool call without marking it |
| `server_offer_race` | 2 chat requests nobody waits for | **violated**: a call armed between the offer and the grant goes to a request that does not declare it |
| `cursor_turn` | channel of 2, 2 reply handlers, 1 stray reply, a steady stream: all three hooks without a tool, a read with and without compaction; a client that hangs up, reconnects or never reads; a history blob to fetch | type correctness, `StreamInOrder`, `ResultSaved`, `StoredBeforeNamed`, refinement of `CursorTurn`, `TurnEnds` |
| `cursor_shell` | a shell call | **violated**: the shell's result is not in the saved turn |
| `session_turn` | 1 prompt, 2 approvals, 1 text event, 1 answer, channel of 2, deadlines; a new session that approves or parks, a resumed one that parks or denies what the load raised, with nothing or an approval emitted in the load | `WaitedForTurn`, `PermissionsAreTrue`, `ParkedIsHeld`, `ReplayIsMarked`, `EndIsNoticed`, `AskIsResolved` |
| `session_stale` | 2 prompts | **violated**: the second wait returns on the first turn's token |
| `session_replay` | 1 approval, 1 text event, resumed sessions | **violated**: an event queued after `Open` returned and before `Start` counts is marked as replay |
| `turn_settle` | a quiet window of 2 polls, a deadline of 3, 1 and 2 for the screen, 1 answer that belongs to no turn | `LinesAreTaken`, `SummaryIsForCompaction`, `ShortSummaryIsExcused`, `GivesUpUnanswered`, `QuietMeansNoStop`, `PhaseEnds` |
| `phases_belt` | 1 agent, a headless and an interactive phase, belt's hooks | **violated**: the second phase passes a hook that fired only in the first |
| `suite` | phases: 2 agents with any registry entry, every kind of phase and probe, the suite's own hooks; belt's hooks and agents that print in invocations with one checked stage | `PassIsOwn`, `ToolVerdictIsTrue`, `LogIsOwn` |
| | nights: 1 run of 2 checks asked up to twice in all, 2 outcomes, 2 outcome lists somebody may write, 2 nights | `VerdictIsTrue`, `ExpectedIsAccepted` |
| | probes: 3 delays, 1 filler, 2 side requests; 93 pairs of a probe and an agent, several per verdict | `ContextIsTrue`, `NotResumedIsTrue`, `CompactionIsTrue`, `ApprovalIsTrue`, `OneProcess` |
| | hidden commands: 3 candidates (a subcommand, a flag whose words and marker hold those of the first, a mined name), 3 help pages, 5 outputs, 2 permits, 2 requests that hold a marker, words or another's words as a JSON string | `AnswerIsReported`, `TurnsAreSeen`, `NothingLeft`, `OnlyAskableRun` |

The type invariants of `SessionDriver`, `TurnSettle`, `RunnerPhases`, `ReportGate`,
`HiddenProbe` and `ResumeProbe` are proved instead of checked.

Bounds. Three requests are enough for two to race while a third has already
taken or is about to lose the call; two armed calls for one to replace another;
one clear for indices before and after it. A channel of two makes a full channel
as reachable as sixteen does for the eleven to fourteen frames of a turn. Two
reply handlers and one stray reply give every pair of a reply, its repeat and a
timer. One approval more than the events that fit the channel makes Resolve wait
for the read loop; a single answer suffices because waits only compare the count
with a number taken before. A load of one approval leaves room in that channel for an
event in the gap before the count. A quiet window of two polls has a first and a second
look; the deadline of three lets each wait end in all four ways. Two agents make what
one leaves behind visible to the other; within an agent the list of stages is the
program's own, whole. Two askings of one check give a `#2`, two nights a report or an
expected file of the night before. Three delays of 0, 2 and 4 against a session
written after 0, 3 or 6 give a load that succeeds at once, one that is retried and one that
never succeeds. Two permits and three candidates make a help run wait for another.

Fairness and time. `CursorSession`: goroutines run, so the server's steps are
weakly fair; the client is not, it owes nothing. A timer of seconds (4 s fallback, 10 s
send, 120 s stream) runs out only while no goroutine has a step to take: a step
of the mock takes microseconds. The client may be slower than any timer.
`SessionDriver`: the read loop, the resolves and the select of a wait are weakly
fair; prompts, approvals, answers and the ends of turns are not, and no wait is
assumed to reach its deadline, so `EndIsNoticed` shows that it does not need to.
`TurnSettle`: only the runner is fair, and `PhaseEnds` holds whatever the agent does.
The other modules state no fairness.

What the models assume of the world:

* `MockServer`: a phase clears the log and arms its call when the requests it waits for
  are over (`Quiet`). `resetPhase` and `prepareToolCall` do not look; that a phase's agent
  has exited or was killed by then is what the phases are built on.
* `TurnSettle`: an agent at work redraws its screen at least once per look of
  `waitScreenQuiet` (the comment in `runInteractive`: a TUI still working redraws its
  spinner), and the log the fingerprint watches is the one the hooks write to (the
  suite's own hooks).
* `RunnerPhases`: an agent writes nothing after its stage: it has exited or was killed.
* `SessionDriver`: the backend numbers the approvals of a load from 1 and gives each a
  number of its own (`LoadsAssumption`).
* `ResumeProbe`: time moves in the waits for the first turns and where the probe sleeps;
  the steps in between take none. Two processes on one session are what `OneProcess`
  excludes, so the store has one writer.
* `HiddenProbe`: a request is logged while the process that sent it lives, and the hook
  log is the one file the probe clears.
* `ReportGate`: `$OUT` is a new directory every night, the script's default
  (`FreshOut`). Where one is used again, last night's report of a run that was killed is
  compared as tonight's, and `VerdictIsTrue` fails.

## What the checks found

The seven violated runs are disagreements between the code and its own comments;
`PROJECT.json` quotes both sides under "findings". In short: Gemini's tool call
is not marked as streamed; the offer, the grant and the name of a tool call are read
under three locks; the result of a Cursor shell call is never saved; a turn-end
token left by one wait ends the next, which matters where the caller's `after` is
one less than the current count (`testrunner.go:1670`); `ClearLog` leaves the flag that
`ToolCallServed` is said to report since the last `ClearLog`; what a resumed session emits
after `Open` returned and before `Start` counts its queue is marked as replay, and an
approval among it denied where the load's are; and belt's hook log, which
no phase clears, so that a hook that stopped firing after the headless phase passes in
the interactive one.

Some of what the probes say is coarser than its words, and their properties are stated
accordingly:

* The marker of candidate 1 stands in those of candidates 10 to 19, the words of one
  candidate in those of another (`Inside`), and the words of a candidate may stand as a
  whole JSON string anywhere in the body of any run's request (`quotes`), as the name of a
  declared tool does. Such a request is then also taken for a turn of that candidate.
  `TurnsAreSeen` says that no turn is missed, and that one taken for a turn has a bare
  run's request that carries its marker or words.
* "ran-tool" (in-flight) is said of any request of the resumed process, a title's too.
* "waited" is also said of an ACP agent that exited, whose exit nobody looks at.
* "not-gated" is also said of an agent that exited before it asked.
* "not-compacted" is also said of an agent that compacted and was gone before it reported
  it: a wait that ends with the process returns nothing.
* A load that comes too early and is answered with an empty session is an accepted load:
  the conversation is reported lost and no delay is tried.

## Proofs

A proof is for every value of the constants, under the named assumptions of the module
alone. Each theorem is an invariant, or an action property, of the specification: an
inductive `IInv` holds initially and is kept by every action, one lemma or step per
action and one step per conjunct it can disturb; PTL combines the two.

`MockServer_proofs`:

* `TypeCorrect` — the type invariant.
* `AtMostOneCall` — from `GrantLedger`, which adds what `OneCallPerArm` needs of the past:
  the flags are of the call armed last (`ServedIsOfLastArm`), grants name past arms, an
  armed call was granted to nobody, an undecided handler holds no grant. Without these
  the step that grants a call could repeat a number granted before.
* `ImplementsToolOffer` — every step is a step of `ToolOffer` or a stutter, from
  the same invariant.
* `IndicesAreOwn` — from `IndexLedger`: no request is of an epoch to come.
* `AnswersAreReplies` — from `AnswersLedger`: a handler answers once, so the
  set of requests answered grows by one with the count (cardinalities by the
  library's theorems on finite sets).
* `AwaitedCallsAreOffered` — from `OfferHolds`: the offer a handler saw holds until it has
  answered, if the runner waits for its request. `server_offer_race` shows that the
  premise is needed.
* `StreamedMarksAreTrue` — from `StreamLedger`: a handler is only where its protocol takes
  it (`Placed`), an entry and the handler that has its index belong together
  (`EntryIsOwn`, because no clear comes between a record and its marks), and an entry is
  marked exactly if its handler has a mark behind it.

`TurnSettle_proofs`, all of `turn_settle` but the liveness of `PhaseEnds`:

* `Types` — the domains; the bounds on counts need `Counts`, which ties them to
  what the agent did.
* `ScreenIsQuiet` — a look that counts as quiet found the agent at rest, and only a
  line sent to it ends that rest. Behind `LinesTaken`.
* `SummaryIsHeld` — the answer is replaced exactly from the typing of `/compact`
  to the end of its wait, and by `ScreenIsQuiet` the agent holds no other line then.
  Behind `SummaryKept`.
* `LinesInOrder`, `MarkIsOwn` — what the agent works on, answered or stopped at was
  sent to it; a mark is taken before its line is sent; so an answer or a stop hook of
  the line counts beyond it. Behind `GivesUpOnlyUnanswered` and
  `QuietOnlyWithoutStop`.
* `CompactionIsAwaited` — behind `ShortSummaryExcused`.
* `PhaseIsBounded` — the safety half of `PhaseEnds`: `StepsLeft` counts the steps the runner
  can still take, from where it is, the polls left and the lines to come. Each of its
  steps lowers it, no step of the agent changes it.

`CursorSession_proofs`. A thread's list of steps could be any list, so the invariant has
to say which ones there are. `InPlace` names the places the goroutine that drives the turn
can be at, each with its list and with the stage, the open ask and the asks made there;
a reply that has yet to be compared with the open ask has one of two lists (`Claiming`).
`Control` is that (`Programs`) with: one thread at most drives (`OneDriver`), a turn in the
middle of its stages is driven or its ask is open (`Led`), ids and timers do not outrun the
stages (`Counted`), the ask that is open was the last frame sent (`Issued`), and a stage
a reply settled while its timer runs has nothing under way to the client (`Heard`).
`Issued` and `Heard` are what stops two goroutines from moving one turn: a reply or a
timer that comes late names an ask that is not open any more.

* `ImplementsCursorTurn` — from `Control`: taking an instruction off the list leads from one
  place to the next, and the two that write `stage` and `pending` are `CursorTurn`'s steps.
* `TypeCorrect` — with `Tally`, which ties the answers counted to the stage.
* `TurnInOrder`, `BlobsBeforeTheirCheckpoint` — from `Streaming`: what was sent precedes
  whatever the place the driver is at has still to send, and the blobs before the next
  frame of a checkpoint are in the stream.
* `ReadResultSaved` — from `Called` and `Saved`: a read's result is stored before its reply is
  compared with the open ask, and the checkpoint is built after that. A shell's result is
  only logged, so the premise is needed (`cursor_shell`).
* `NeverLeftAlone` — from `Moving`: the safety half of `TurnEnds`. An ask is open only with a
  driver still to send it, or with its own timer started and not over. That this
  something is also done is fairness, and checked by TLC.

`SessionDriver_proofs`:

* `PermissionsTrue` — from `AsksAreNew`: an approval on its way (in the channel, or taken
  and not yet handled) was asked once and is not recorded yet; so recording it makes no
  second record.
* `ReplayMarked` — from `RebuildIsFirst` (before the count every queued event is of the
  load or the gap; from then on those of a resumed session are the first `during` of all
  events, wherever the read loop is between taking one and counting it) and
  `AsksAreNoted` (an approval noted is recorded or about to be). It says which events are
  marked, not that those are the load's: that is false (`session_replay`).
* `ParkedHeld` — from `Parking`: with that policy nothing is ever resolved, so what was
  asked is waited on for as long as the agent lives.
* `TypeCorrect` — with the above; an approval's number is in range because it was asked.
* `FirstWaitIsForItsTurn` — from `EndsAreTrue` (an event that ends a turn, the flag and the
  token are there only if a turn ended) and `WaitsAreTrue` (a wait that returned as
  answered saw one of them, and the count beyond its mark). With one prompt the turn that
  ended is the one waited for; with two it may be the one before (`session_stale`).
* `EndIsNeverLost` — the safety half of `EndIsNoticed`, from `EndKept`: between two prompts the end
  of the last turn is recorded, or in the channel or the read loop's hands. `SendPrompt`
  clears the flag before there is a turn of that number, so it clears no end of it.

`RunnerPhases_proofs`:

* The lemma `OrderlyStages` is about the list of stages for any command line and
  registry entry: a stage that reads the logs without clearing them follows one that
  clears them and runs no agent, and a stage that judges a tool call arms one. It is
  built up along the concatenations that make the list.
* `LogsAreOwn`, `ToolVerdictTrue` — from `LogsAreClear` (such a stage finds the logs
  empty), `LogLedger` and `CallLedger` (a judging stage has armed the call that is handed
  out while it runs).
* `PassOwn` — from `HookLedger`: with the suite's hooks and silent agents, what is seen
  of a hook is what this stage's agent fired. `phases_belt` shows the premise is needed.
* `TypeCorrect` — from `Domains`, the domains of the variables one by one.

`ResumeProbe_proofs`:

* `OneProcessAtATime` — from `OneDriver`: a driver is open only for the process started
  last, none where a session is about to be started, and the mock's answer is replaced
  exactly while the compaction runs.
* `NotResumedTrue` — from `RefusalLedger`: a refused load came before the session was on
  disk, and every delay tried before a load is accepted has a refusal at least that late,
  whatever the loads took (`LaterIsLater`).
* `ResumeTypeCorrect` — from `Typed`, with what a log entry and a verdict can be.
* `ApprovalTrue` — from `RaisedAgain`: no turn is put to the second process of an
  in-flight probe, so what it raises was raised again and what is logged from the mark on
  is its own.
* `CompactionTrue` — `Filled`: where no wait was cut off, the log before the command shows
  a request of two turns; `Bounded`: none there is wider than the session by more than
  the turn to come; `Compacting`: what the agent sends and reports from the command on
  goes with what became of its session. So the comparison of widths decides as the agent
  does, a straggling request included. Needs at least one filler.
* `ContextTrue` — from `Resuming`: the one prompt of the second process is the follow-up,
  and its request carries what the session held when it was sent.

`HiddenProbe_proofs`:

* `RunsInPart` (no help run is under way in the second part, no run in the third),
  `MarkParts` (the mark parts the help runs' requests from those of the bare ones) and
  `AnswerIsHeld` (only a bare run that is over has said anything, and that is what is
  held of it) carry `AnswersReported`, `TurnsSeen`, `NothingIsLeft`, and, for the
  action property `OnlyAskable`, that a bare run starts only where help runs are over.

`ReportGate_proofs`, where `$OUT` is new every night:

* The records of a run and what it was asked match position by position (`Matches`), and
  a later asking of a check has a larger number (`NthGrows`, by cardinalities). So an id
  names one position (`IdsAreUnique`) and the report keyed by id says of each what was
  asked.
* `VerdictTrue`, `ExpectedAccepted`, `TypeCorrect` — the comparison with an expected file
  that says what was accepted compares what was asked with what was accepted
  (`ReportsAreTonights`: a whole report is of a run that ended tonight).

Model-checked only: all liveness (`TurnEnds`, `PhaseEnds`, `EndIsNoticed`, `AskIsResolved`),
which TLAPS does not reach. Of the first three the safety half is proved, as above; what
is left to TLC is that the fair steps are enabled and taken. `WaitedForTurn` is proved for
the first prompt and false from the second on.

## Not modelled

Wire formats (JSON, protobuf, event-stream framing), the wording of answers, TLS
and the proxy, installers, version and help-text parsing, sample transcripts and their
codecs: data without control, or I/O. `HARNESS_DEBUG` output. A second `run_request`
on the same Cursor run. `WaitIdle`, which only measures silence. The onboarding dialogs
(one step of `TurnSettle`) and the scan for them in the terminal's output (`pty.go`).
What `strippedOutput` removes (`RunnerPhases` has whether its copy is still the
output's). Of the probes: the shape of a replayed conversation, which the library
reports; the transcript and seed probes, which read and write files; what a help page
looks like. `PreserveHome`, the setup of homes and configuration, the intercept and the
cleanups. The surface snapshot and `--list`.

## Plan

1. A composition of `CursorSession`'s three counted answers with the waits of
   `TurnSettle`, and a second `run_request` on one run (`cursor.go:485`, `735`).
2. `PTYScan`: `WaitForAny` and the scan for onboarding dialogs against "is in the
   output since" (`pty.go:80`, `testrunner.go:1003`).
3. The setup of a phase and its cleanups (`testrunner.go:382`), and what a phase that
   returns early leaves in `lastOutput`.
4. Proofs: the ids, timers and lists of `CursorSession` with a second `run_request`, once
   it is modelled; `Heard` is the part that has to change.
