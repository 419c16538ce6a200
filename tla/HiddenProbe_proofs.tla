-------------------------- MODULE HiddenProbe_proofs --------------------------
(***************************************************************************)
(* Theorems about HiddenProbe: for every list of candidates, whatever the  *)
(* runs print, in whatever order they end and whenever they start a turn.  *)
(***************************************************************************)
EXTENDS HiddenProbe, TLAPS

(* The domains, and a log no longer than its bound: mark is its length.    *)
Types == HiddenTypeOK /\ Len(requests) <= MaxRequests

(* Which runs there are in which part of the probe.                        *)
RunsInPart ==
  /\ hpc = "start" => \A c \in Candidate : run[c] = "none"
  /\ hpc = "help" => \A c \in Candidate :
       run[c] \in {"none", "queued", "help"} /\ (run[c] = "none" => how[c] # "unasked")
  /\ hpc = "bare" => \A c \in Candidate : run[c] \in {"none", "bare", "over"}
  /\ hpc \in {"matched", "cleared", "done"} =>
       \A c \in Candidate : run[c] \in {"none", "over"}

(* Only a bare run that is over has said anything, and what it answered    *)
(* is what is held of the candidate.                                       *)
AnswerIsHeld == \A c \in Candidate :
  /\ run[c] # "over" => said[c] = "nothing" /\ how[c] \notin {"acp", "jsonrpc", "json"}
  /\ said[c] \in {"acp", "jsonrpc"} => how[c] = said[c]
  /\ how[c] \in {"acp", "jsonrpc", "json"} => how[c] = said[c]
  /\ hpc \in {"start", "help", "bare"} => how[c] # "prompt"

(* The mark parts the requests of the help runs from those of the bare ones. *)
MarkParts ==
  /\ hpc \in {"start", "help"} => \A i \in DOMAIN requests : requests[i].run = "help"
  /\ hpc = "bare" => mark <= Len(requests)
  /\ hpc = "bare" => \A i \in DOMAIN requests :
       /\ requests[i].run = "bare" <=> i > mark
       /\ requests[i].run = "bare" => run[requests[i].of] \in {"bare", "over"}

IInv == /\ Types /\ RunsInPart /\ AnswerIsHeld /\ MarkParts
        /\ NothingLeft /\ TurnsAreSeen /\ AnswerIsReported

---------------------------------------------------------------------------
(* What a run can be taken for.                                            *)
LEMMA HelpKinds ==
  ASSUME NEW page \in Page, NEW c \in Candidate
  PROVE  ClassifyHelp(page, c) \in {"rejected", "nothing", "root-help", "help"}
  BY DEF ClassifyHelp

LEMMA RunKinds ==
  ASSUME NEW out \in Output
  PROVE  RunHow(out) \in {"acp", "jsonrpc", "json", "rejected", "nothing"}
  BY DEF RunHow, Output

LEMMA Appended ==
  ASSUME NEW S, NEW s \in Seq(S), NEW e \in S
  PROVE  /\ Append(s, e) \in Seq(S) /\ Len(Append(s, e)) = Len(s) + 1
         /\ DOMAIN Append(s, e) = DOMAIN s \cup {Len(s) + 1}
         /\ \A i \in DOMAIN s : Append(s, e)[i] = s[i]
         /\ Append(s, e)[Len(s) + 1] = e
  OBVIOUS

LEMMA InitInv == HiddenInit => IInv
<1> SUFFICES ASSUME HiddenInit PROVE IInv
  OBVIOUS
<1>1. requests \in Seq(HiddenRequest) /\ Len(requests) = 0 /\ DOMAIN requests = {}
  BY DEF HiddenInit
<1>2. how \in [Candidate -> How] /\ said \in [Candidate -> How]
  BY DEF HiddenInit, How
<1>3. Types
  <2>1. 0 \in 0 .. MaxRequests /\ 0 <= MaxRequests
    BY PermitsAssumption
  <2>2. run \in [Candidate -> {"none", "queued", "help", "bare", "over"}]
    BY DEF HiddenInit
  <2>3. reported \subseteq [of : Candidate, how : How, unused : BOOLEAN]
    BY DEF HiddenInit
  <2>4. hpc = "start" /\ hookEvents = FALSE /\ mark = 0
    BY DEF HiddenInit
  <2> QED BY <1>1, <1>2, <2>1, <2>2, <2>3, <2>4 DEF Types, HiddenTypeOK
<1>4. RunsInPart /\ AnswerIsHeld
  BY DEF HiddenInit, RunsInPart, AnswerIsHeld
<1>5. MarkParts /\ NothingLeft /\ TurnsAreSeen /\ AnswerIsReported
  BY <1>1 DEF HiddenInit, MarkParts, NothingLeft, TurnsAreSeen, AnswerIsReported
<1> QED BY <1>3, <1>4, <1>5 DEF IInv

---------------------------------------------------------------------------
(* One lemma per action.                                                   *)
LEMMA LaunchHelpStep == IInv /\ LaunchHelp => IInv'
  BY DEF LaunchHelp, IInv, Types, HiddenTypeOK, RunsInPart, AnswerIsHeld, MarkParts, NothingLeft,
     TurnsAreSeen, AnswerIsReported, How

LEMMA HelpStartsStep ==
  ASSUME IInv, NEW c \in Candidate, HelpStarts(c)
  PROVE  IInv'
<1>1. hpc = "help"
  BY DEF HelpStarts, IInv, Types, HiddenTypeOK, RunsInPart
<1>2. (Types /\ RunsInPart /\ AnswerIsHeld)'
  BY <1>1 DEF HelpStarts, IInv, Types, HiddenTypeOK, RunsInPart, AnswerIsHeld
<1>3. (MarkParts /\ NothingLeft /\ TurnsAreSeen /\ AnswerIsReported)'
  BY <1>1 DEF HelpStarts, IInv, MarkParts, NothingLeft, TurnsAreSeen, AnswerIsReported
<1> QED BY <1>2, <1>3 DEF IInv

LEMMA HelpEndsStep ==
  ASSUME IInv, NEW c \in Candidate, HelpEnds(c)
  PROVE  IInv'
<1>1. hpc = "help"
  BY DEF HelpEnds, IInv, Types, HiddenTypeOK, RunsInPart
<1>2. PICK page \in Pages : how' = [how EXCEPT ![c] = ClassifyHelp(page, c)]
  BY DEF HelpEnds
<1>3. ClassifyHelp(page, c) \in {"rejected", "nothing", "root-help", "help"}
  BY HelpKinds, PagesAssumption
<1>4. (Types /\ RunsInPart /\ AnswerIsHeld)'
  BY <1>1, <1>2, <1>3 DEF HelpEnds, IInv, Types, HiddenTypeOK, RunsInPart, AnswerIsHeld, How
<1>5. (MarkParts /\ NothingLeft /\ TurnsAreSeen /\ AnswerIsReported)'
  BY <1>1 DEF HelpEnds, IInv, MarkParts, NothingLeft, TurnsAreSeen, AnswerIsReported
<1> QED BY <1>4, <1>5 DEF IInv

LEMMA LaunchBareStep == IInv /\ LaunchBare => IInv'
<1> SUFFICES ASSUME IInv, LaunchBare PROVE IInv'
  OBVIOUS
<1>1. \A c \in Candidate : run[c] = "none"
  BY DEF LaunchBare, Running, IInv, RunsInPart
<1>2. Len(requests) \in 0 .. MaxRequests
  BY PermitsAssumption DEF IInv, Types, HiddenTypeOK
<1>3. (Types /\ RunsInPart /\ AnswerIsHeld)'
  BY <1>1, <1>2 DEF LaunchBare, IInv, Types, HiddenTypeOK, RunsInPart, AnswerIsHeld
<1>4. MarkParts'
  <2>1. \A i \in DOMAIN requests : i \in Nat /\ ~(i > mark') /\ requests[i].run = "help"
    BY DEF LaunchBare, IInv, MarkParts, Types, HiddenTypeOK
  <2> QED BY <2>1 DEF LaunchBare, MarkParts
<1>5. (NothingLeft /\ TurnsAreSeen /\ AnswerIsReported)'
  BY DEF LaunchBare, NothingLeft, TurnsAreSeen, AnswerIsReported
<1> QED BY <1>3, <1>4, <1>5 DEF IInv

LEMMA BareEndsStep ==
  ASSUME IInv, NEW c \in Candidate, BareEnds(c)
  PROVE  IInv'
<1>1. hpc = "bare"
  BY DEF BareEnds, IInv, Types, HiddenTypeOK, RunsInPart
<1>2. PICK out \in Outputs : /\ said' = [said EXCEPT ![c] = RunHow(out)]
                             /\ how' = [how EXCEPT ![c] = Merge(how[c], RunHow(out))]
  BY DEF BareEnds
<1>3. RunHow(out) \in {"acp", "jsonrpc", "json", "rejected", "nothing"}
  BY RunKinds, OutputsAssumption
<1>4. how[c] \in How \ {"acp", "jsonrpc", "json", "prompt"}
  BY <1>1 DEF BareEnds, IInv, AnswerIsHeld, Types, HiddenTypeOK
<1>5. /\ Merge(how[c], RunHow(out)) \in How \ {"prompt"}
      /\ RunHow(out) \in {"acp", "jsonrpc"} => Merge(how[c], RunHow(out)) = RunHow(out)
      /\ Merge(how[c], RunHow(out)) \in {"acp", "jsonrpc", "json"}
           => Merge(how[c], RunHow(out)) = RunHow(out)
  BY <1>3, <1>4 DEF Merge, How
<1>6. (Types /\ RunsInPart)'
  BY <1>1, <1>2, <1>3, <1>5 DEF BareEnds, IInv, Types, HiddenTypeOK, RunsInPart, How
<1>7. AnswerIsHeld'
  BY <1>1, <1>2, <1>5 DEF BareEnds, IInv, AnswerIsHeld, Types, HiddenTypeOK
<1>8. MarkParts'
  BY <1>1 DEF BareEnds, IInv, MarkParts, Types, HiddenTypeOK, HiddenRequest
<1>9. (NothingLeft /\ TurnsAreSeen /\ AnswerIsReported)'
  BY <1>1 DEF BareEnds, NothingLeft, TurnsAreSeen, AnswerIsReported
<1> QED BY <1>6, <1>7, <1>8, <1>9 DEF IInv

LEMMA StartTurnStep ==
  ASSUME IInv, NEW c \in Candidate, NEW body \in Bodies, StartTurn(c, body)
  PROVE  IInv'
<1> DEFINE e == [of |-> c, run |-> run[c], carries |-> body.carries,
                 quotes |-> body.named \cup (IF body.own THEN {c} ELSE {})]
<1>1. \/ hpc = "help" /\ run[c] = "help"
      \/ hpc = "bare" /\ run[c] = "bare"
  BY DEF StartTurn, IInv, Types, HiddenTypeOK, RunsInPart
<1>2. requests \in Seq(HiddenRequest) /\ e \in HiddenRequest /\ requests' = Append(requests, e)
  <2>1. /\ body.carries \in {"marker", "words", "other"}
        /\ body.named \cup (IF body.own THEN {c} ELSE {}) \subseteq Candidate
    BY BodiesAssumption DEF Body
  <2> QED BY <1>1, <2>1 DEF StartTurn, IInv, Types, HiddenTypeOK, HiddenRequest
<1> HIDE DEF e
<1>3. /\ requests' \in Seq(HiddenRequest) /\ Len(requests') = Len(requests) + 1
      /\ DOMAIN requests' = DOMAIN requests \cup {Len(requests) + 1}
      /\ \A i \in DOMAIN requests : requests'[i] = requests[i]
      /\ requests'[Len(requests) + 1] = e
  BY <1>2, Appended
<1>4. (Types /\ RunsInPart /\ AnswerIsHeld)'
  BY <1>2, <1>3, PermitsAssumption
  DEF StartTurn, IInv, Types, HiddenTypeOK, RunsInPart, AnswerIsHeld
<1>5. MarkParts'
  <2>1. CASE hpc = "help"
    BY <2>1, <1>1, <1>3 DEF StartTurn, IInv, MarkParts, e
  <2>2. CASE hpc = "bare"
    <3>1. mark \in Nat /\ Len(requests) \in Nat /\ mark <= Len(requests)
      BY <2>2, <1>2 DEF IInv, MarkParts, Types, HiddenTypeOK
    <3>2. e.run = "bare" /\ run[e.of] = "bare"
      BY <2>2, <1>1 DEF e
    <3>3. mark' = mark /\ run' = run /\ hpc' = hpc
      BY DEF StartTurn
    <3>4. \A i \in DOMAIN requests :
             /\ requests[i].run = "bare" <=> i > mark
             /\ requests[i].run = "bare" => run[requests[i].of] \in {"bare", "over"}
      BY <2>2 DEF IInv, MarkParts
    <3> QED BY <2>2, <1>3, <3>1, <3>2, <3>3, <3>4 DEF MarkParts
  <2> QED BY <1>1, <2>1, <2>2
<1>6. (NothingLeft /\ TurnsAreSeen /\ AnswerIsReported)'
  BY <1>1 DEF StartTurn, NothingLeft, TurnsAreSeen, AnswerIsReported
<1> QED BY <1>4, <1>5, <1>6 DEF IInv

(***************************************************************************)
(* The match: every run is over, so a request beyond the mark is of a      *)
(* candidate that is looked at, and one before it of nobody's bare run.    *)
(***************************************************************************)
LEMMA MatchStep == IInv /\ Match => IInv'
<1> SUFFICES ASSUME IInv, Match PROVE IInv'
  OBVIOUS
<1>1. \A c \in Candidate : run[c] \in {"none", "over"}
  BY DEF Match, Running, IInv, RunsInPart
<1>2. (Types /\ RunsInPart /\ AnswerIsHeld)'
  BY <1>1 DEF Match, IInv, Types, HiddenTypeOK, RunsInPart, AnswerIsHeld, How
<1>3. TurnsAreSeen'
  <2>1. ASSUME NEW i \in DOMAIN requests,
               requests[i].run = "bare",
               requests[i].carries # "other" \/ requests[i].of \in requests[i].quotes
        PROVE  how'[requests[i].of] \in {"prompt", "acp", "jsonrpc", "json"}
    <3>1. /\ requests[i] \in HiddenRequest /\ i \in Nat /\ mark \in Nat /\ Len(requests) \in Nat
          /\ i <= Len(requests)
      BY DEF IInv, Types, HiddenTypeOK
    <3>2. i > mark /\ run[requests[i].of] \in {"bare", "over"}
      BY <2>1 DEF Match, IInv, MarkParts
    <3>3. i \in mark + 1 .. Len(requests)
      BY <3>1, <3>2
    <3>4. /\ requests[i].of \in Candidate
          /\ \/ requests[i].carries \in {"marker", "words"}
             \/ requests[i].of \in requests[i].quotes
      BY <3>1, <2>1 DEF HiddenRequest
    <3>5. Carries(requests[i], requests[i].of)
      BY <3>4 DEF Carries, MarkerIn
    <3>6. run[requests[i].of] = "over"
      BY <3>2, <3>4, <1>1
    <3> QED BY <3>3, <3>4, <3>5, <3>6 DEF Match
  <2>2. ASSUME NEW c \in Candidate, how'[c] = "prompt"
        PROVE  \E i \in DOMAIN requests : requests[i].run = "bare" /\ Carries(requests[i], c)
    <3>1. how[c] # "prompt"
      BY DEF Match, IInv, AnswerIsHeld
    <3>2. PICK i \in mark + 1 .. Len(requests) : Carries(requests[i], c)
      BY <3>1, <2>2 DEF Match
    <3>3. mark \in Nat /\ Len(requests) \in Nat /\ DOMAIN requests = 1 .. Len(requests)
      BY DEF IInv, Types, HiddenTypeOK
    <3>4. i \in DOMAIN requests /\ i > mark
      BY <3>3
    <3> QED BY <3>2, <3>4 DEF Match, IInv, MarkParts
  <2>3. requests' = requests
    BY DEF Match
  <2> QED BY <2>1, <2>2, <2>3 DEF TurnsAreSeen
<1>4. (MarkParts /\ NothingLeft /\ AnswerIsReported)'
  BY DEF Match, MarkParts, NothingLeft, AnswerIsReported
<1> QED BY <1>2, <1>3, <1>4 DEF IInv

LEMMA ClearStep == IInv /\ Clear => IInv'
<1> SUFFICES ASSUME IInv, Clear PROVE IInv'
  OBVIOUS
<1>1. requests' \in Seq(HiddenRequest) /\ Len(requests') = 0
  BY DEF Clear
<1>2. Types'
  <2>1. Len(requests') <= MaxRequests
    BY <1>1, PermitsAssumption
  <2>2. hpc' = "cleared" /\ hookEvents' = FALSE
    BY DEF Clear
  <2>3. how' = how /\ run' = run /\ mark' = mark /\ reported' = reported /\ said' = said
    BY DEF Clear
  <2> QED BY <1>1, <2>1, <2>2, <2>3 DEF IInv, Types, HiddenTypeOK
<1>3. (RunsInPart /\ AnswerIsHeld)'
  BY DEF Clear, IInv, RunsInPart, AnswerIsHeld
<1>4. (MarkParts /\ NothingLeft /\ TurnsAreSeen /\ AnswerIsReported)'
  BY DEF Clear, IInv, RunsInPart, MarkParts, NothingLeft, TurnsAreSeen, AnswerIsReported
<1> QED BY <1>2, <1>3, <1>4 DEF IInv

LEMMA ReportStep == IInv /\ Report => IInv'
<1> SUFFICES ASSUME IInv, Report PROVE IInv'
  OBVIOUS
<1> DEFINE entry(c) == [of |-> c, how |-> how[c],
                        unused |-> how[c] \in {"acp", "jsonrpc"} /\ c \notin Used]
<1>1. reported' = {entry(c) : c \in {d \in Candidate : Accepted(d)}}
  BY DEF Report
<1>2. /\ hpc = "cleared" /\ hpc' = "done"
      /\ how' = how /\ run' = run /\ requests' = requests /\ hookEvents' = hookEvents
      /\ mark' = mark /\ said' = said
  BY DEF Report
<1>3. \A c \in Candidate : how[c] \in How
  BY DEF IInv, Types, HiddenTypeOK
<1>4. reported' \subseteq [of : Candidate, how : How, unused : BOOLEAN]
  <2>1. \A c \in Candidate : entry(c) \in [of : Candidate, how : How, unused : BOOLEAN]
    BY <1>3
  <2> HIDE DEF entry
  <2> QED BY <1>1, <2>1
<1>5. Types'
  BY <1>2, <1>4 DEF IInv, Types, HiddenTypeOK
<1>6. (RunsInPart /\ AnswerIsHeld /\ MarkParts /\ NothingLeft /\ TurnsAreSeen)'
  BY <1>2 DEF IInv, RunsInPart, AnswerIsHeld, MarkParts, NothingLeft, TurnsAreSeen
<1>7. ASSUME NEW c \in Candidate, said[c] \in {"acp", "jsonrpc"}
      PROVE  \E r \in reported' : /\ r.of = c /\ r.how = said[c]
                                  /\ r.unused <=> c \notin Used
  <2>1. how[c] = said[c] /\ Accepted(c)
    BY <1>7 DEF IInv, AnswerIsHeld, Accepted
  <2>2. entry(c) \in reported'
    BY <1>1, <2>1
  <2>3. entry(c).of = c /\ entry(c).how = said[c] /\ (entry(c).unused <=> c \notin Used)
    BY <1>7, <2>1
  <2> QED BY <2>2, <2>3
<1>8. ASSUME NEW r \in reported', r.how # "help"
      PROVE  r.how = said[r.of]
  <2>1. PICK c \in Candidate : Accepted(c) /\ r = entry(c)
    BY <1>1
  <2>2. r.of = c /\ r.how = how[c]
    BY <2>1
  <2> QED BY <1>8, <2>1, <2>2 DEF Accepted, IInv, AnswerIsHeld
<1>9. AnswerIsReported'
  BY <1>2, <1>7, <1>8 DEF AnswerIsReported
<1> QED BY <1>5, <1>6, <1>9 DEF IInv

LEMMA StepInv == IInv /\ [HiddenNext]_hiddenVars => IInv'
<1> SUFFICES ASSUME IInv, [HiddenNext]_hiddenVars PROVE IInv'
  OBVIOUS
<1>1. CASE UNCHANGED hiddenVars
  BY <1>1 DEF hiddenVars, IInv, Types, HiddenTypeOK, RunsInPart, AnswerIsHeld, MarkParts,
     NothingLeft, TurnsAreSeen, AnswerIsReported
<1>2. CASE HiddenNext
  BY <1>2, LaunchHelpStep, LaunchBareStep, MatchStep, ClearStep, ReportStep, HelpStartsStep,
     HelpEndsStep, BareEndsStep, StartTurnStep DEF HiddenNext
<1> QED BY <1>1, <1>2

THEOREM Invariance == HiddenSpec => []IInv
  BY InitInv, StepInv, PTL DEF HiddenSpec

---------------------------------------------------------------------------
(* Every variable of the probe keeps to its domain.                        *)
THEOREM TypeCorrect == HiddenSpec => []HiddenTypeOK
<1>1. IInv => HiddenTypeOK
  BY DEF IInv, Types
<1> QED BY <1>1, Invariance, PTL

(* What a run answered is recorded, as what it was, and nothing else is:   *)
(* the merge of the two runs in probeHidden and its report loop.           *)
THEOREM AnswersReported == HiddenSpec => []AnswerIsReported
<1>1. IInv => AnswerIsReported
  BY DEF IInv
<1> QED BY <1>1, Invariance, PTL

(* A turn a bare run started is held for its candidate, and one of a help  *)
(* run for nobody: the mark and the match by what a request carries.       *)
THEOREM TurnsSeen == HiddenSpec => []TurnsAreSeen
<1>1. IInv => TurnsAreSeen
  BY DEF IInv
<1> QED BY <1>1, Invariance, PTL

(* The probe leaves no request, no hook event and no process to the phase  *)
(* that comes after it.                                                    *)
THEOREM NothingIsLeft == HiddenSpec => []NothingLeft
<1>1. IInv => NothingLeft
  BY DEF IInv
<1> QED BY <1>1, Invariance, PTL

(* A name that was mined, listed or rejected is never run bare: the help   *)
(* runs are all over, and their answers read, before the first bare run.   *)
THEOREM OnlyAskable == HiddenSpec => OnlyAskableRun
<1> DEFINE Harmless == \A c \in Candidate : run'[c] = "bare" /\ run[c] # "bare" =>
                         c \notin Mined /\ how[c] \notin {"unasked", "listed", "rejected"}
<1>1. ASSUME IInv, [HiddenNext]_hiddenVars PROVE [Harmless]_hiddenVars
  <2>1. CASE LaunchBare
    <3>1. ASSUME NEW c \in Candidate, run'[c] = "bare"
          PROVE  c \notin Mined /\ how[c] \notin {"unasked", "listed", "rejected"}
      <4>1. run[c] = "none" /\ how[c] # "unasked"
        BY <1>1, <2>1 DEF LaunchBare, Running, IInv, RunsInPart
      <4>2. Askable(c)
        BY <2>1, <3>1 DEF LaunchBare
      <4> QED BY <4>1, <4>2 DEF Askable
    <3> QED BY <3>1
  <2>2. ASSUME NEW c \in Candidate,
               \/ HelpStarts(c) \/ HelpEnds(c) \/ BareEnds(c)
               \/ \E body \in Bodies : StartTurn(c, body)
        PROVE  Harmless
    BY <1>1, <2>2 DEF HelpStarts, HelpEnds, BareEnds, StartTurn, IInv, Types, HiddenTypeOK
  <2>3. CASE LaunchHelp \/ Match \/ Clear \/ Report
    BY <1>1, <2>3 DEF LaunchHelp, Match, Clear, Report, IInv, Types, HiddenTypeOK
  <2>4. CASE UNCHANGED hiddenVars
    BY <2>4
  <2> QED BY <1>1, <2>1, <2>2, <2>3, <2>4 DEF HiddenNext
<1> QED BY <1>1, Invariance, PTL DEF HiddenSpec, OnlyAskableRun
===============================================================================
