----------------------------- MODULE ReportGate -----------------------------
(***************************************************************************)
(* From a check to the nightly's exit code: the numbering of checks        *)
(* (runner/report.go), the report a run writes and the gate that compares  *)
(* reports with the expected file (expect.go), driven for one agent, night *)
(* after night, as tests/nightly.sh does it.                               *)
(*                                                                         *)
(* A check's section and id are one value of Check; an outcome with its    *)
(* answer is one value of Key; messages are left out, as they are never    *)
(* compared.  What a run asks, and what each question comes to, is up to   *)
(* the agent: any sequence of questions.                                   *)
(***************************************************************************)
EXTENDS Naturals, Sequences, FiniteSets

CONSTANTS
  Run,          (* the runs of the expected file                              *)
  Check,        (* the check ids at the call sites, with their section        *)
  Key,          (* "<outcome>[:<answer>]"                                     *)
  Absent,       (* the outcome "absent" of a nondeterministic check           *)
  OutcomeLists, (* outcome lists someone may write for one                    *)
  FreshOut,     (* $OUT is a new directory every night, as by default         *)
  MaxAsks,      (* bound on the checks of one run                             *)
  MaxNights     (* bound on the nights                                        *)

ASSUME GateAssumption ==
  /\ Absent \notin Key
  /\ OutcomeLists \subseteq SUBSET (Key \cup {Absent})
  /\ FreshOut \in BOOLEAN
  /\ MaxAsks \in Nat /\ MaxNights \in Nat

(* "<section>/<check>", with "#n" from the second time it is asked on.     *)
ID == [check : Check, n : 1 .. MaxAsks]

Record == [id : ID, key : Key]
Records == {recs \in Seq(Record) : Len(recs) <= MaxAsks}

(* <dir>/<run>.json: whole, or cut off in the middle or not there at all,  *)
(* which come to the same.                                                 *)
RunReport == [whole : BOOLEAN, checks : Records]
Whole(recs) == [whole |-> TRUE, checks |-> recs]
NoReport == [whole |-> FALSE, checks |-> << >>]

(* ExpectedRun.  A map is a function whose domain is the ids it has.       *)
Map(S) == UNION {[ids -> S] : ids \in SUBSET ID}
ExpectedRun == [checks : Map(Key), nondeterministic : Map(OutcomeLists)]
Empty == [id \in {} |-> Absent]

VARIABLES
  night,       (* nights begun                                                *)
  phase,       (* what nightly.sh is doing: "idle", "runs", "compare"         *)
  toStart,     (* runs of runs.txt not yet started                            *)
  current,     (* {the run whose container is up} or {}                       *)
  recorded,    (* TestRunner.result.Checks of that run                        *)
  dir,         (* the reports in $OUT                                         *)
  expected,    (* tests/expected/<agent>.json                                 *)
  comparison,  (* what the last comparison came to, for this expected file    *)
  (* history variables, read only by properties *)
  asked,       (* [Run -> what was asked tonight, as [check, key], in order]  *)
  finished,    (* runs that ran to their end tonight                          *)
  accepted     (* [Run -> what was asked when the run was last accepted]      *)

gateVars == <<night, phase, toStart, current, recorded, dir, expected, comparison, asked,
              finished, accepted>>

Ask == [check : Check, key : Key]
Asks == {seq \in Seq(Ask) : Len(seq) <= MaxAsks}

---------------------------------------------------------------------------
(***************************************************************************)
(* record and the keyed report                                             *)
(***************************************************************************)
Earlier(c) == {i \in DOMAIN recorded : recorded[i].id.check = c}

\* TestRunner.seen: how often the check was asked, this time included.
Number(c, k) == Cardinality(Earlier(c)) + 1

\* readRunReport: out[c.ID] = c, in the order of the report.
Keyed(recs) ==
  [id \in {recs[i].id : i \in DOMAIN recs} |->
     recs[CHOOSE i \in DOMAIN recs :
            recs[i].id = id /\ \A j \in DOMAIN recs : recs[j].id = id => j <= i].key]

---------------------------------------------------------------------------
(***************************************************************************)
(* compareRun: the ids that differ                                         *)
(***************************************************************************)
\* (bug) only the checks that were reported are looked at
DiffersIfReported(run, got, id) ==
  /\ id \in DOMAIN got
  /\ IF id \in DOMAIN run.nondeterministic
     THEN got[id] \notin run.nondeterministic[id]
     ELSE id \notin DOMAIN run.checks \/ got[id] # run.checks[id]

\* A check somebody listed must come out as one of its outcomes, and may only be
\* missing if "absent" is one of them; any other must be there as it was.
Differs(run, got, id) ==
  IF id \in DOMAIN run.nondeterministic
  THEN IF id \in DOMAIN got THEN got[id] \notin run.nondeterministic[id]
       ELSE Absent \notin run.nondeterministic[id]
  ELSE IF id \in DOMAIN got THEN id \notin DOMAIN run.checks \/ run.checks[id] # got[id]
       ELSE TRUE

CompareRun(run, got) ==
  {id \in DOMAIN run.checks \cup DOMAIN run.nondeterministic \cup DOMAIN got :
     Differs(run, got, id)}

---------------------------------------------------------------------------
GateInit ==
  /\ night = 0 /\ phase = "idle"
  /\ toStart = {} /\ current = {} /\ recorded = << >>
  /\ dir = [r \in Run |-> NoReport]
  /\ expected = [r \in Run |-> [checks |-> Empty, nondeterministic |-> Empty]]
  /\ comparison = "none"
  /\ asked = [r \in Run |-> << >>] /\ finished = {}
  /\ accepted = [r \in Run |-> << >>]

\* nightly.sh probes: $OUT, runs.txt.
BeginNight ==
  /\ phase = "idle" /\ night < MaxNights
  /\ night' = night + 1
  /\ phase' = "runs" /\ toStart' = Run
  /\ dir' = IF FreshOut THEN [r \in Run |-> NoReport] ELSE dir
  /\ asked' = [r \in Run |-> << >>] /\ finished' = {}
  /\ comparison' = "none"
  /\ UNCHANGED <<current, recorded, expected, accepted>>

\* run(): a container of its own, and a TestRunner with nothing recorded.
StartRun(r) ==
  /\ phase = "runs" /\ current = {} /\ r \in toStart
  /\ current' = {r} /\ toStart' = toStart \ {r}
  /\ recorded' = << >>
  /\ UNCHANGED <<night, phase, dir, expected, comparison, asked, finished, accepted>>

\* TestRunner.record
RecordCheck(r, c, k) ==
  /\ r \in current /\ Len(asked[r]) < MaxAsks
  /\ recorded' = Append(recorded, [id |-> [check |-> c, n |-> Number(c, k)], key |-> k])
  /\ asked' = [asked EXCEPT ![r] = Append(@, [check |-> c, key |-> k])]
  /\ UNCHANGED <<night, phase, toStart, current, dir, expected, comparison, finished, accepted>>

\* writeReport, at the end of main.
WriteReport(r) ==
  /\ r \in current
  /\ dir' = [dir EXCEPT ![r] = Whole(recorded)]
  /\ finished' = finished \cup {r}
  /\ current' = {}
  /\ UNCHANGED <<night, phase, toStart, recorded, expected, comparison, asked, accepted>>

\* The timeout: before the report is written, or while it is.
Killed(r) ==
  /\ r \in current
  /\ dir' \in {dir, [dir EXCEPT ![r] = NoReport]}
  /\ current' = {}
  /\ UNCHANGED <<night, phase, toStart, recorded, expected, comparison, asked, finished,
                 accepted>>

RunsDone ==
  /\ phase = "runs" /\ current = {} /\ toStart = {}
  /\ phase' = "compare"
  /\ UNCHANGED <<night, toStart, current, recorded, dir, expected, comparison, asked,
                 finished, accepted>>

\* A report that is not there, or does not parse, is a difference of its own.
RunDiffers(r) == ~dir[r].whole \/ CompareRun(expected[r], Keyed(dir[r].checks)) # {}

\* compareExpected without --update-expected.
Compare ==
  /\ phase = "compare"
  /\ comparison' = IF \E r \in Run : RunDiffers(r) THEN "differs" ELSE "same"
  /\ phase' = "idle"
  /\ UNCHANGED <<night, toStart, current, recorded, dir, expected, asked, finished, accepted>>

\* (bug) a run without a report is written as one that asks nothing
UpdatedWithoutReport(r) ==
  [expected[r] EXCEPT !.checks =
     [id \in DOMAIN Keyed(dir[r].checks) \ DOMAIN expected[r].nondeterministic |->
        Keyed(dir[r].checks)[id]]]

\* What --update-expected writes of a run: what its report says of the checks
\* nobody listed; a run without a report is kept as it is.
Updated(r) ==
  IF dir[r].whole
  THEN [expected[r] EXCEPT !.checks =
          [id \in DOMAIN Keyed(dir[r].checks) \ DOMAIN expected[r].nondeterministic |->
             Keyed(dir[r].checks)[id]]]
  ELSE expected[r]

\* compareExpected with --update-expected; main exits 0 whatever differed.
Update ==
  /\ phase = "compare"
  /\ expected' = [r \in Run |-> Updated(r)]
  /\ comparison' = "updated"
  /\ accepted' = [r \in Run |-> IF dir[r].whole THEN asked[r] ELSE accepted[r]]
  /\ phase' = "idle"
  /\ UNCHANGED <<night, toStart, current, recorded, dir, asked, finished>>

\* (external) Somebody lists a check that was measured to vary.
ListCheck(r, id, outcomes) ==
  /\ phase = "idle"
  /\ id \notin DOMAIN expected[r].nondeterministic
  /\ expected' = [expected EXCEPT ![r].nondeterministic =
                    [i \in DOMAIN @ \cup {id} |-> IF i = id THEN outcomes ELSE @[i]]]
  /\ comparison' = "none"
  /\ UNCHANGED <<night, phase, toStart, current, recorded, dir, asked, finished, accepted>>

GateNext ==
  \/ BeginNight \/ RunsDone \/ Compare \/ Update
  \/ \E r \in Run :
       \/ StartRun(r) \/ WriteReport(r) \/ Killed(r)
       \/ \E c \in Check, k \in Key : RecordCheck(r, c, k)
       \/ \E id \in ID, outcomes \in OutcomeLists : ListCheck(r, id, outcomes)

GateSpec == GateInit /\ [][GateNext]_gateVars

---------------------------------------------------------------------------
(***************************************************************************)
(* Properties                                                              *)
(***************************************************************************)
GateTypeOK ==
  /\ night \in 0 .. MaxNights
  /\ phase \in {"idle", "runs", "compare"}
  /\ toStart \subseteq Run /\ current \subseteq Run /\ finished \subseteq Run
  /\ recorded \in Records
  /\ dir \in [Run -> RunReport]
  /\ expected \in [Run -> ExpectedRun]
  /\ comparison \in {"none", "same", "differs", "updated"}
  /\ asked \in [Run -> Asks] /\ accepted \in [Run -> Asks]

\* How often the check of position i had been asked when it was asked there.
Nth(seq, i) == Cardinality({j \in 1 .. i : seq[j].check = seq[i].check})

\* What the n-th asking of a check came to: {its key}, or {} if it was not asked.
Said(seq, id) ==
  {seq[i].key : i \in {j \in DOMAIN seq : seq[j].check = id.check /\ Nth(seq, j) = id.n}}

\* What a run came to is what is expected of it: every question nobody listed was
\* asked as often as when the run was accepted, and came out the same; a listed one
\* came out as one of its outcomes, of which being absent is one.
AsAccepted(r) ==
  \A id \in ID :
    IF id \in DOMAIN expected[r].nondeterministic
    THEN \/ Said(asked[r], id) = {} /\ Absent \in expected[r].nondeterministic[id]
         \/ Said(asked[r], id) # {} /\ Said(asked[r], id) \subseteq expected[r].nondeterministic[id]
    ELSE Said(asked[r], id) = Said(accepted[r], id)

\* The night is green exactly when every run ran to its end and is what was accepted:
\* no check is lost by its id or by a report that is not tonight's, none that is
\* missing, new or changed is passed over, and nothing else is called a difference
\* ("Any difference counts").
VerdictIsTrue ==
  /\ comparison = "same" => \A r \in Run : r \in finished /\ AsAccepted(r)
  /\ comparison = "differs" => \E r \in Run : r \notin finished \/ ~AsAccepted(r)

\* The expected file says of every check nobody listed what its run said when it was
\* last accepted, also after an update on a night when that run did not finish.
ExpectedIsAccepted ==
  \A r \in Run : \A id \in ID \ DOMAIN expected[r].nondeterministic :
    Said(accepted[r], id) =
      IF id \in DOMAIN expected[r].checks THEN {expected[r].checks[id]} ELSE {}
============================================================================
