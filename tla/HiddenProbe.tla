---------------------------- MODULE HiddenProbe ----------------------------
(***************************************************************************)
(* The hidden-command probe (runner/hidden.go).  Every candidate entry     *)
(* point is asked for its help, a few at a time; when all are back, the    *)
(* fixed ones that were not rejected are run bare, all at once, with an    *)
(* initialize line on stdin; when those are back, the requests the mock    *)
(* recorded meanwhile are matched to the candidates by what they carry.    *)
(*                                                                         *)
(* A candidate is its index in the list.  The CLI is external: what a run  *)
(* prints is one of a few kinds of output, and any run may start a turn at *)
(* the mock while its process lives: a request is logged before the        *)
(* process that sent it is over.                                           *)
(***************************************************************************)
EXTENDS Naturals, FiniteSets, Sequences

CONSTANTS
  Candidate,    (* indices into the list of candidates                        *)
  Mined,        (* those read out of the package                              *)
  Flag,         (* those that are flags                                       *)
  Inside,       (* <<c, d>>: the words of c stand as words in those of d      *)
  Used,         (* those the registry's own entry runs                        *)
  Listed,       (* those --help may list                                      *)
  Pages,        (* what --help may print for a candidate, see Page            *)
  Outputs,      (* what a bare run may print, see Output                      *)
  Bodies,       (* what a model request may hold, see Body                    *)
  Permits,      (* help runs at a time, 16 in the code                        *)
  MaxRequests   (* bound on the requests at the mock                          *)

(* A help page: whether it holds an unknown-command error, whose lines it  *)
(* has, and whether it reads like a help page that names the candidate.    *)
Page == [refuses : BOOLEAN, lines : {"none", "root", "own"}, helps : BOOLEAN]

(* A bare run's 15 seconds: what the first line that answers the           *)
(* initialize holds, if one does; whether a line before it was JSON; and   *)
(* whether its first text or its stderr holds an unknown-command error.    *)
Output == [answers : {"none", "acp", "jsonrpc"}, json : BOOLEAN, refuses : BOOLEAN]

(* A model request: its user text is the line the run read on stdin, the   *)
(* words on its command line, or something of the agent's own, or is not   *)
(* parsed; whether the run's own words stand in the body as a whole JSON   *)
(* string; and of which other candidates they do, a tool's name say.       *)
Body == [carries : {"marker", "words", "other"}, own : BOOLEAN, named : SUBSET Candidate]

How == {"unasked", "listed", "rejected", "root-help", "help", "acp", "jsonrpc", "json",
        "prompt", "nothing"}

ASSUME CandidateAssumption ==
  /\ Candidate \subseteq Nat
  /\ Mined \subseteq Candidate /\ Flag \subseteq Candidate
  /\ Used \subseteq Candidate /\ Listed \subseteq Candidate
  /\ Inside \subseteq Candidate \X Candidate
ASSUME PagesAssumption == Pages \subseteq Page
ASSUME OutputsAssumption == Outputs \subseteq Output
ASSUME BodiesAssumption == Bodies \subseteq Body
ASSUME PermitsAssumption == Permits \in Nat \ {0} /\ MaxRequests \in Nat

VARIABLES
  hpc,         (* where probeHidden is                                        *)
  how,         (* hiddenResult.how of each candidate                          *)
  run,         (* the run of a candidate under way                            *)
  requests,    (* the mock's log, as [of, run, carries, quotes]               *)
  hookEvents,  (* the hook log holds events of the candidates' turns          *)
  mark,        (* the log's length before the bare runs                       *)
  reported,    (* the checks recorded, as [of, how, unused]                   *)
  (* history variable, read only by properties *)
  said         (* what a candidate's bare run was taken for                   *)

hiddenVars == <<hpc, how, run, requests, hookEvents, mark, reported, said>>

HiddenRequest == [of : Candidate, run : {"help", "bare"},
                  carries : {"marker", "words", "other"}, quotes : SUBSET Candidate]

---------------------------------------------------------------------------
(***************************************************************************)
(* What a run is taken for.                                                *)
(***************************************************************************)
\* classifyHelp: a flag has no page of its own.
ClassifyHelp(page, c) ==
  IF page.refuses THEN "rejected"
  ELSE IF page.lines = "none" THEN "nothing"
  ELSE IF page.lines = "root" THEN "root-help"
  ELSE IF c \in Flag \/ ~page.helps THEN "nothing" ELSE "help"

\* runHiddenInitialize: an answer decides, then any JSON, then an error.
RunHow(out) ==
  IF out.answers # "none" THEN out.answers
  ELSE IF out.json THEN "json"
  ELSE IF out.refuses THEN "rejected" ELSE "nothing"

\* (bug) a subcommand that prints anything but an answer loses its help page
MergeDropsAnswers(old, new) == IF new = "nothing" \/ old = "help" THEN old ELSE new

\* An answer to the initialize line counts whatever the help said; otherwise the
\* candidate's own help page stands, and so does what a silent run adds nothing to.
Merge(old, new) ==
  IF new \in {"acp", "jsonrpc"} THEN new
  ELSE IF new = "nothing" \/ old = "help" THEN old ELSE new

\* The marker is "hidden-probe-" and the index, looked for with strings.Contains:
\* that of candidate 1 is found in that of 10 to 19.
MarkerIn(c, d) == c = d \/ (c > 0 /\ d \div 10 = c)

\* The marker anywhere in the body, the words in its user text, or the words as a
\* whole JSON string anywhere in it, whoever's they are.
Carries(e, c) ==
  \/ e.carries = "marker" /\ MarkerIn(c, e.of)
  \/ e.carries = "words" /\ (c = e.of \/ <<c, e.of>> \in Inside)
  \/ c \in e.quotes

---------------------------------------------------------------------------
HiddenInit ==
  /\ hpc = "start"
  /\ how = [c \in Candidate |-> "unasked"]
  /\ run = [c \in Candidate |-> "none"]
  /\ requests = << >> /\ hookEvents = FALSE /\ mark = 0
  /\ reported = {}
  /\ said = [c \in Candidate |-> "nothing"]

\* What the top-level help lists is not asked; a goroutine is started for each
\* of the others.
LaunchHelp ==
  /\ hpc = "start"
  /\ \E listed \in SUBSET Listed :
       /\ how' = [c \in Candidate |-> IF c \in listed THEN "listed" ELSE "unasked"]
       /\ run' = [c \in Candidate |-> IF c \in listed THEN "none" ELSE "queued"]
  /\ hpc' = "help"
  /\ UNCHANGED <<requests, hookEvents, mark, reported, said>>

Running(what) == {c \in Candidate : run[c] = what}

\* A permit of the semaphore is taken before the process starts ...
HelpStarts(c) ==
  /\ run[c] = "queued"
  /\ Cardinality(Running("help")) < Permits
  /\ run' = [run EXCEPT ![c] = "help"]
  /\ UNCHANGED <<hpc, how, requests, hookEvents, mark, reported, said>>

\* ... and given back when it is over: it exited, or was killed after 20s.
HelpEnds(c) ==
  /\ run[c] = "help"
  /\ \E page \in Pages : how' = [how EXCEPT ![c] = ClassifyHelp(page, c)]
  /\ run' = [run EXCEPT ![c] = "none"]
  /\ UNCHANGED <<hpc, requests, hookEvents, mark, reported, said>>

\* (bug) a name the help did not recognise is tried all the same
AskableIfRejected(c) == c \notin Mined /\ how[c] # "listed"

Askable(c) == c \notin Mined /\ how[c] \notin {"listed", "rejected"}

\* (bug) the log is looked at as if it had been empty
LaunchBareFromStart ==
  /\ hpc = "help"
  /\ Running("queued") \cup Running("help") = {}
  /\ mark' = 0
  /\ run' = [c \in Candidate |-> IF Askable(c) THEN "bare" ELSE "none"]
  /\ hpc' = "bare"
  /\ UNCHANGED <<how, requests, hookEvents, reported, said>>

\* wg.Wait, then every fixed candidate the help did not reject at once.
LaunchBare ==
  /\ hpc = "help"
  /\ Running("queued") \cup Running("help") = {}
  /\ mark' = Len(requests)
  /\ run' = [c \in Candidate |-> IF Askable(c) THEN "bare" ELSE "none"]
  /\ hpc' = "bare"
  /\ UNCHANGED <<how, requests, hookEvents, reported, said>>

\* The run answered, exited or was killed after 15s.
BareEnds(c) ==
  /\ run[c] = "bare"
  /\ \E out \in Outputs :
       /\ said' = [said EXCEPT ![c] = RunHow(out)]
       /\ how' = [how EXCEPT ![c] = Merge(how[c], RunHow(out))]
  /\ run' = [run EXCEPT ![c] = "over"]
  /\ UNCHANGED <<hpc, requests, hookEvents, mark, reported>>

\* (external) A run starts a turn.  Only a bare run has a marker to read.
StartTurn(c, body) ==
  /\ run[c] \in {"help", "bare"}
  /\ run[c] = "help" => body.carries # "marker"
  /\ Len(requests) < MaxRequests
  /\ requests' = Append(requests,
       [of |-> c, run |-> run[c], carries |-> body.carries,
        quotes |-> body.named \cup (IF body.own THEN {c} ELSE {})])
  /\ hookEvents' = TRUE
  /\ UNCHANGED <<hpc, how, run, mark, reported, said>>

\* (bug) the bare runs are not waited for
MatchAtOnce ==
  /\ hpc = "bare"
  /\ how' = [c \in Candidate |->
       IF /\ run[c] = "over" /\ how[c] \notin {"acp", "jsonrpc", "json"}
          /\ \E i \in mark + 1 .. Len(requests) : Carries(requests[i], c)
       THEN "prompt" ELSE how[c]]
  /\ hpc' = "matched"
  /\ UNCHANGED <<run, requests, hookEvents, mark, reported, said>>

\* wg.Wait again, then the requests since.  A candidate that answered, or printed
\* JSON, is not looked for.
Match ==
  /\ hpc = "bare"
  /\ Running("bare") = {}
  /\ how' = [c \in Candidate |->
       IF /\ run[c] = "over" /\ how[c] \notin {"acp", "jsonrpc", "json"}
          /\ \E i \in mark + 1 .. Len(requests) : Carries(requests[i], c)
       THEN "prompt" ELSE how[c]]
  /\ hpc' = "matched"
  /\ UNCHANGED <<run, requests, hookEvents, mark, reported, said>>

Clear ==
  /\ hpc = "matched"
  /\ requests' = << >> /\ hookEvents' = FALSE
  /\ hpc' = "cleared"
  /\ UNCHANGED <<how, run, mark, reported, said>>

Accepted(c) == how[c] \in {"help", "acp", "jsonrpc", "json"}

\* What the CLI accepts and --help leaves out; a protocol entry the registry does
\* not run is a finding of its own.
Report ==
  /\ hpc = "cleared"
  /\ reported' = {[of |-> c, how |-> how[c],
                   unused |-> how[c] \in {"acp", "jsonrpc"} /\ c \notin Used] :
                  c \in {d \in Candidate : Accepted(d)}}
  /\ hpc' = "done"
  /\ UNCHANGED <<how, run, requests, hookEvents, mark, said>>

HiddenNext ==
  \/ LaunchHelp \/ LaunchBare \/ Match \/ Clear \/ Report
  \/ \E c \in Candidate :
       \/ HelpStarts(c) \/ HelpEnds(c) \/ BareEnds(c)
       \/ \E body \in Bodies : StartTurn(c, body)

HiddenSpec == HiddenInit /\ [][HiddenNext]_hiddenVars

---------------------------------------------------------------------------
(***************************************************************************)
(* Properties                                                              *)
(***************************************************************************)
HiddenTypeOK ==
  /\ hpc \in {"start", "help", "bare", "matched", "cleared", "done"}
  /\ how \in [Candidate -> How]
  /\ run \in [Candidate -> {"none", "queued", "help", "bare", "over"}]
  /\ requests \in Seq(HiddenRequest) /\ mark \in 0 .. MaxRequests
  /\ hookEvents \in BOOLEAN
  /\ reported \subseteq [of : Candidate, how : How, unused : BOOLEAN]
  /\ said \in [Candidate -> How]

\* A candidate whose bare run answered the initialize line is recorded as that,
\* whatever its help page said, whatever else it printed and whoever's request at
\* the mock holds its words; nothing is recorded that a run did not show.
AnswerIsReported ==
  hpc = "done" =>
    \A c \in Candidate :
      /\ said[c] \in {"acp", "jsonrpc"} =>
           \E r \in reported : r.of = c /\ r.how = said[c] /\ (r.unused <=> c \notin Used)
      /\ \A r \in reported : r.of = c /\ r.how # "help" => r.how = said[c]

\* A bare run that started a turn with its line or its words, parsed or only quoted,
\* and answered nothing is taken for one that read its prompt; a request of a help
\* run, recorded before the bare runs began, is held against nobody.  Another
\* candidate may be taken for one with it: whoever's words the body holds.
TurnsAreSeen ==
  hpc = "matched" =>
    /\ \A i \in DOMAIN requests :
         /\ requests[i].run = "bare"
         /\ requests[i].carries # "other" \/ requests[i].of \in requests[i].quotes
         => how[requests[i].of] \in {"prompt", "acp", "jsonrpc", "json"}
    /\ \A c \in Candidate : how[c] = "prompt" =>
         \E i \in DOMAIN requests : requests[i].run = "bare" /\ Carries(requests[i], c)

\* No request and no hook event of a candidate is left for the phase after the
\* probe, and no candidate's process is left to make one.
NothingLeft ==
  hpc \in {"cleared", "done"} =>
    requests = << >> /\ ~hookEvents /\ \A c \in Candidate : run[c] \in {"none", "over"}

\* A name that was mined, listed or rejected is never run bare ("it could be
\* uninstall"), not even after its help run was killed.
OnlyAskableRun ==
  [][\A c \in Candidate : run'[c] = "bare" /\ run[c] # "bare" =>
       c \notin Mined /\ how[c] \notin {"unasked", "listed", "rejected"}]_hiddenVars
===========================================================================
