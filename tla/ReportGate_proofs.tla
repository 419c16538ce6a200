-------------------------- MODULE ReportGate_proofs --------------------------
(***************************************************************************)
(* Theorems about ReportGate, for any runs, checks, keys and bounds.       *)
(*                                                                         *)
(* The argument: a run's records and what it was asked match position by   *)
(* position, and the number in an id is the number of times the check was  *)
(* asked so far (Matches).  Then no two records have the same id, so the   *)
(* report keyed by id says of every id what was asked (KeyedIsSaid), and   *)
(* comparing it with an expected file that says what was accepted compares *)
(* what was asked with what was accepted.                                  *)
(***************************************************************************)
EXTENDS ReportGate, FiniteSetTheorems, TLAPS

\* A record per question, in order, numbered by how often the check was asked.
Matches(recs, seq) ==
  /\ Len(recs) = Len(seq)
  /\ \A i \in 1 .. Len(seq) :
       /\ recs[i].id.check = seq[i].check /\ recs[i].id.n = Nth(seq, i)
       /\ recs[i].key = seq[i].key

\* The positions Nth counts.
Askings(seq, i) == {j \in 1 .. i : seq[j].check = seq[i].check}

(* Counting the askings up to a position gives a number from 1 to the      *)
(* position: what "#n" may be.                                             *)
LEMMA NthRange ==
  ASSUME NEW seq \in Asks, NEW i \in 1 .. Len(seq)
  PROVE  Nth(seq, i) \in 1 .. MaxAsks
<1>1. IsFiniteSet(1 .. i) /\ Cardinality(1 .. i) = i
  BY FS_Interval DEF Asks
<1>2. Askings(seq, i) \subseteq 1 .. i /\ i \in Askings(seq, i)
  BY DEF Askings, Asks
<1>3. IsFiniteSet(Askings(seq, i)) /\ Cardinality(Askings(seq, i)) <= i
  BY <1>1, <1>2, FS_Subset
<1>4. Cardinality(Askings(seq, i)) # 0 /\ Cardinality(Askings(seq, i)) \in Nat
  BY <1>2, <1>3, FS_EmptySet, FS_CardinalityType
<1> QED
  BY <1>3, <1>4, GateAssumption DEF Nth, Askings, Asks

(* A later asking of the same check has a larger number: record never      *)
(* files two checks of a run under one id.                                 *)
LEMMA NthGrows ==
  ASSUME NEW seq \in Asks, NEW i \in 1 .. Len(seq), NEW j \in 1 .. Len(seq),
         i < j, seq[i].check = seq[j].check
  PROVE  Nth(seq, i) < Nth(seq, j)
<1>1. IsFiniteSet(1 .. i) /\ IsFiniteSet(1 .. j)
  BY FS_Interval DEF Asks
<1>2. IsFiniteSet(Askings(seq, i)) /\ IsFiniteSet(Askings(seq, j))
  BY <1>1, FS_Subset DEF Askings
<1>3. Askings(seq, i) \subseteq Askings(seq, j) /\ Askings(seq, i) # Askings(seq, j)
  <2>1. j \in Askings(seq, j) /\ j \notin Askings(seq, i)
    BY DEF Askings, Asks
  <2> QED
    BY <2>1 DEF Askings, Asks
<1>4. Cardinality(Askings(seq, i)) < Cardinality(Askings(seq, j))
  BY <1>2, <1>3, FS_Subset, FS_CardinalityType
<1> QED
  BY <1>4 DEF Nth, Askings

(* ... so an id names one position at most.                                *)
LEMMA IdsAreUnique ==
  ASSUME NEW seq \in Asks, NEW i \in 1 .. Len(seq), NEW j \in 1 .. Len(seq),
         seq[i].check = seq[j].check, Nth(seq, i) = Nth(seq, j)
  PROVE  i = j
<1>1. CASE i < j
  BY <1>1, NthGrows, NthRange
<1>2. CASE j < i
  BY <1>2, NthGrows, NthRange
<1> QED
  BY <1>1, <1>2 DEF Asks

(* What a sequence of records, or of questions, has at its positions.      *)
LEMMA RecordsType ==
  ASSUME NEW recs \in Records
  PROVE  /\ Len(recs) \in Nat /\ DOMAIN recs = 1 .. Len(recs)
         /\ \A i \in DOMAIN recs : recs[i].id \in ID /\ recs[i].key \in Key
<1>1. recs \in Seq(Record)
  BY DEF Records
<1>2. \A i \in DOMAIN recs : recs[i] \in Record
  BY <1>1
<1> QED
  BY <1>1, <1>2 DEF Record

LEMMA AsksType ==
  ASSUME NEW seq \in Asks
  PROVE  /\ Len(seq) \in Nat /\ Len(seq) <= MaxAsks /\ DOMAIN seq = 1 .. Len(seq)
         /\ \A i \in DOMAIN seq : seq[i].check \in Check /\ seq[i].key \in Key
<1>1. seq \in Seq(Ask) /\ Len(seq) <= MaxAsks
  BY DEF Asks
<1>2. \A i \in DOMAIN seq : seq[i] \in Ask
  BY <1>1
<1> QED
  BY <1>1, <1>2 DEF Ask

(* Two ids are one if they have the same check and the same number.        *)
LEMMA SameID ==
  ASSUME NEW a \in ID, NEW b \in ID
  PROVE  a = b <=> a.check = b.check /\ a.n = b.n
BY DEF ID

(* The report keyed by id says of every id what the run came to: nothing   *)
(* that was asked is lost, and nothing else is said.                       *)
LEMMA KeyedIsSaid ==
  ASSUME NEW seq \in Asks, NEW recs \in Records, Matches(recs, seq), NEW id \in ID
  PROVE  Said(seq, id) = IF id \in DOMAIN Keyed(recs) THEN {Keyed(recs)[id]} ELSE {}
<1> DEFINE At == {j \in DOMAIN seq : seq[j].check = id.check /\ Nth(seq, j) = id.n}
<1>1. DOMAIN seq = 1 .. Len(seq) /\ DOMAIN recs = 1 .. Len(seq)
  BY AsksType, RecordsType DEF Matches
<1>2. \A i \in 1 .. Len(seq) : recs[i].id = id <=> i \in At
  <2> SUFFICES ASSUME NEW i \in 1 .. Len(seq)
               PROVE  recs[i].id = id <=> i \in At
    OBVIOUS
  <2>1. recs[i].id.check = seq[i].check /\ recs[i].id.n = Nth(seq, i)
    BY DEF Matches
  <2>2. recs[i].id \in ID
    BY <1>1, RecordsType
  <2>3. recs[i].id = id <=> recs[i].id.check = id.check /\ recs[i].id.n = id.n
    BY <2>2, SameID
  <2> QED
    BY <1>1, <2>1, <2>3
<1>3. \A i, j \in At : i = j
  BY <1>1, IdsAreUnique
<1>4. DOMAIN Keyed(recs) = {recs[i].id : i \in DOMAIN recs}
  BY DEF Keyed
<1>5. CASE At = {}
  <2>1. id \notin DOMAIN Keyed(recs)
    BY <1>1, <1>2, <1>4, <1>5
  <2> QED
    BY <2>1, <1>5 DEF Said
<1>6. CASE At # {}
  <2>1. PICK i \in At : At = {i}
    BY <1>3, <1>6
  <2>2. id \in DOMAIN Keyed(recs) /\ i \in DOMAIN recs /\ recs[i].id = id
    BY <1>1, <1>2, <1>4, <2>1
  <2> DEFINE Last(k) == recs[k].id = id /\ \A j \in DOMAIN recs : recs[j].id = id => j <= k
  <2>3. \A k \in DOMAIN recs : Last(k) <=> k = i
    BY <1>1, <1>2, <2>1, <2>2 DEF Asks
  <2>4. (CHOOSE k \in DOMAIN recs : Last(k)) = i
    BY <2>2, <2>3
  <2>5. Keyed(recs)[id] = recs[CHOOSE k \in DOMAIN recs : Last(k)].key
    BY <2>2, <1>4 DEF Keyed
  <2>6. recs[i].key = seq[i].key
    BY <1>1, <2>2 DEF Matches
  <2>7. Said(seq, id) = {seq[i].key}
    BY <2>1 DEF Said
  <2> QED
    BY <2>2, <2>4, <2>5, <2>6, <2>7
<1> QED
  BY <1>5, <1>6

(* What the keyed report has are ids, and what it says are keys.           *)
LEMMA KeyedType ==
  ASSUME NEW seq \in Asks, NEW recs \in Records, Matches(recs, seq)
  PROVE  Keyed(recs) \in [DOMAIN Keyed(recs) -> Key] /\ DOMAIN Keyed(recs) \in SUBSET ID
<1>1. \A i \in DOMAIN recs : recs[i].id \in ID
  BY RecordsType
<1>2. DOMAIN Keyed(recs) = {recs[i].id : i \in DOMAIN recs}
  BY DEF Keyed
<1>3. DOMAIN Keyed(recs) \in SUBSET ID
  BY <1>1, <1>2
<1>4. ASSUME NEW id \in DOMAIN Keyed(recs)
      PROVE  Keyed(recs)[id] \in Key
  <2>1. Keyed(recs)[id] \in Said(seq, id)
    BY <1>3, KeyedIsSaid
  <2>2. \A i \in DOMAIN seq : seq[i].key \in Key
    BY AsksType
  <2>3. Said(seq, id) \subseteq Key
    BY <2>2 DEF Said
  <2> QED
    BY <2>1, <2>3
<1>5. Keyed(recs) = [id \in DOMAIN Keyed(recs) |-> Keyed(recs)[id]]
  BY DEF Keyed
<1> QED
  BY <1>3, <1>4, <1>5

---------------------------------------------------------------------------
(* record numbers a check as Nth does: one more than the records it has.   *)
LEMMA RecordMatches ==
  ASSUME NEW seq \in Asks, recorded \in Records, Matches(recorded, seq), Len(seq) < MaxAsks,
         NEW c \in Check, NEW k \in Key
  PROVE  LET seq2 == Append(seq, [check |-> c, key |-> k])
             recs2 == Append(recorded, [id |-> [check |-> c, n |-> Number(c, k)], key |-> k])
         IN seq2 \in Asks /\ recs2 \in Records /\ Matches(recs2, seq2)
<1> DEFINE seq2 == Append(seq, [check |-> c, key |-> k])
           last == Len(seq) + 1
<1>1. seq2 \in Asks /\ Len(seq2) = last /\ Len(seq) \in Nat /\ seq2[last] = [check |-> c, key |-> k]
  BY GateAssumption DEF Asks, Ask
<1>2. \A i \in 1 .. Len(seq) : seq2[i] = seq[i]
  BY DEF Asks
<1>3. \A i \in 1 .. Len(seq) : Nth(seq2, i) = Nth(seq, i)
  <2>1. ASSUME NEW i \in 1 .. Len(seq)
        PROVE  Askings(seq2, i) = Askings(seq, i)
    BY <1>1, <1>2 DEF Askings
  <2> QED
    BY <2>1 DEF Nth, Askings
<1>4. Earlier(c) = {j \in 1 .. Len(seq) : seq[j].check = c}
  BY RecordsType DEF Earlier, Matches
<1>5. IsFiniteSet(Earlier(c)) /\ last \notin Earlier(c)
  <2>1. IsFiniteSet(1 .. Len(seq))
    BY <1>1, FS_Interval
  <2> QED
    BY <1>1, <1>4, <2>1, FS_Subset
<1>6. Askings(seq2, last) = Earlier(c) \cup {last}
  BY <1>1, <1>2, <1>4 DEF Askings
<1>7. Nth(seq2, last) = Number(c, k)
  <2>1. Cardinality(Earlier(c) \cup {last}) = Cardinality(Earlier(c)) + 1
    BY <1>5, FS_AddElement
  <2> QED
    BY <1>6, <2>1 DEF Nth, Number, Askings
<1> DEFINE rec == [id |-> [check |-> c, n |-> Number(c, k)], key |-> k]
           recs2 == Append(recorded, rec)
<1>8. rec \in Record
  <2>1. last \in 1 .. Len(seq2)
    BY <1>1
  <2>2. Nth(seq2, last) \in 1 .. MaxAsks
    BY <1>1, <2>1, NthRange
  <2>3. Number(c, k) \in 1 .. MaxAsks
    BY <1>7, <2>2
  <2> QED
    BY <2>3 DEF Record, ID
<1>9. recs2 \in Records
  BY <1>8, GateAssumption DEF Records, Matches
<1>10. Matches(recs2, seq2)
  <2>1. Len(recs2) = last /\ recs2[last] = rec /\ \A i \in 1 .. Len(seq) : recs2[i] = recorded[i]
    BY <1>1, <1>8 DEF Matches, Records
  <2>2. ASSUME NEW i \in 1 .. last
        PROVE  /\ recs2[i].id.check = seq2[i].check /\ recs2[i].id.n = Nth(seq2, i)
               /\ recs2[i].key = seq2[i].key
    <3>1. CASE i = last
      BY <1>1, <1>7, <2>1, <3>1
    <3>2. CASE i # last
      <4>1. i \in 1 .. Len(seq)
        BY <1>1, <3>2
      <4> QED
        BY <1>2, <1>3, <2>1, <4>1 DEF Matches
    <3> QED
      BY <3>1, <3>2
  <2> QED
    BY <1>1, <2>1, <2>2 DEF Matches
<1> QED
  BY <1>1, <1>9, <1>10

(* If the expected file says what was accepted, the comparison of a report *)
(* finds nothing exactly when the run came to what was accepted.           *)
LEMMA CompareIsAccepted ==
  ASSUME GateTypeOK, ExpectedIsAccepted, NEW r \in Run, dir[r].whole,
         Matches(dir[r].checks, asked[r])
  PROVE  CompareRun(expected[r], Keyed(dir[r].checks)) = {} <=> AsAccepted(r)
<1> DEFINE got == Keyed(dir[r].checks)
           run == expected[r]
<1>1. asked[r] \in Asks /\ dir[r].checks \in Records /\ run \in ExpectedRun
  BY DEF GateTypeOK, RunReport
<1>2. \A id \in ID : Said(asked[r], id) = IF id \in DOMAIN got THEN {got[id]} ELSE {}
  BY <1>1, KeyedIsSaid
<1>3. DOMAIN got \subseteq ID
  BY <1>1, KeyedType
<1>4. DOMAIN run.checks \subseteq ID /\ DOMAIN run.nondeterministic \subseteq ID
  BY <1>1 DEF ExpectedRun, Map
<1>5. \A id \in ID \ DOMAIN run.nondeterministic :
        Said(accepted[r], id) = IF id \in DOMAIN run.checks THEN {run.checks[id]} ELSE {}
  BY DEF ExpectedIsAccepted
<1> DEFINE All == DOMAIN run.checks \cup DOMAIN run.nondeterministic \cup DOMAIN got
           Same(id) == IF id \in DOMAIN run.nondeterministic
                       THEN \/ Said(asked[r], id) = {} /\ Absent \in run.nondeterministic[id]
                            \/ /\ Said(asked[r], id) # {}
                               /\ Said(asked[r], id) \subseteq run.nondeterministic[id]
                       ELSE Said(asked[r], id) = Said(accepted[r], id)
<1>6. \A id \in ID : id \in All => (Same(id) <=> ~Differs(run, got, id))
  <2> SUFFICES ASSUME NEW id \in ID, id \in All
               PROVE  Same(id) <=> ~Differs(run, got, id)
    OBVIOUS
  <2>1. CASE id \in DOMAIN run.nondeterministic
    BY <1>2, <2>1 DEF Differs
  <2>2. CASE id \notin DOMAIN run.nondeterministic /\ id \in DOMAIN got
    BY <1>2, <1>5, <2>2 DEF Differs
  <2>3. CASE id \notin DOMAIN run.nondeterministic /\ id \notin DOMAIN got
    BY <1>2, <1>5, <2>3 DEF Differs
  <2> QED
    BY <2>1, <2>2, <2>3
<1>7. \A id \in ID : id \notin All => Same(id)
  BY <1>2, <1>5
<1>8. All \subseteq ID
  BY <1>3, <1>4
<1>9. AsAccepted(r) <=> \A id \in ID : Same(id)
  BY DEF AsAccepted
<1>10. CompareRun(run, got) = {id \in All : Differs(run, got, id)}
  BY DEF CompareRun
<1> HIDE DEF Same, All
<1> QED
  BY <1>6, <1>7, <1>8, <1>9, <1>10

---------------------------------------------------------------------------
(***************************************************************************)
(* The invariant.  A report in $OUT is tonight's and matches what its run  *)
(* was asked; the records of the run under way match what it was asked so  *)
(* far; a run that was not started was asked nothing.                      *)
(***************************************************************************)
Scheduled ==
  /\ phase # "runs" => current = {}
  /\ comparison # "none" => phase = "idle"
  /\ toStart \cap finished = {}
  /\ \A r \in current : current = {r} /\ r \notin toStart /\ r \notin finished

RecordsMatch ==
  /\ \A r \in toStart : asked[r] = << >>
  /\ \A r \in current : Matches(recorded, asked[r])
  /\ \A r \in finished : dir[r].whole /\ Matches(dir[r].checks, asked[r])

ReportsAreTonights == \A r \in Run : dir[r].whole => r \in finished

IInv == GateTypeOK /\ Scheduled /\ RecordsMatch /\ ReportsAreTonights /\ ExpectedIsAccepted /\ VerdictIsTrue

(* A function on ids is one of the maps an expected file may hold.         *)
LEMMA MapIntro ==
  ASSUME NEW S, NEW D \in SUBSET ID, NEW f \in [D -> S]
  PROVE  f \in Map(S)
BY DEF Map

LEMMA InitInv == GateInit => IInv
<1> SUFFICES ASSUME GateInit
             PROVE  IInv
  OBVIOUS
<1>1. << >> \in Records /\ << >> \in Asks
  BY GateAssumption DEF Records, Asks
<1>2. \A S : Empty \in Map(S)
  <2>1. \A S : Empty \in [{} -> S]
    BY DEF Empty
  <2> QED
    BY <2>1, MapIntro
<1>3. GateTypeOK
  BY <1>1, <1>2, GateAssumption DEF GateInit, GateTypeOK, RunReport, NoReport, ExpectedRun
<1>4. ExpectedIsAccepted
  <2>1. \A id \in ID : Said(<< >>, id) = {}
    BY DEF Said
  <2> QED
    BY <2>1 DEF GateInit, ExpectedIsAccepted, Empty
<1> QED
  BY <1>3, <1>4 DEF GateInit, IInv, Scheduled, RecordsMatch, ReportsAreTonights, VerdictIsTrue, NoReport

(* An update keeps the expected file an expected file, and makes it say    *)
(* what the runs that finished came to.                                    *)
LEMMA UpdateAccepts ==
  ASSUME IInv, Update
  PROVE  expected' \in [Run -> ExpectedRun] /\ ExpectedIsAccepted'
<1>1. ASSUME NEW r \in Run, dir[r].whole
      PROVE  /\ asked[r] \in Asks /\ dir[r].checks \in Records
             /\ Matches(dir[r].checks, asked[r])
  BY <1>1 DEF IInv, GateTypeOK, ReportsAreTonights, RecordsMatch, RunReport
<1>2. ASSUME NEW r \in Run
      PROVE  Updated(r) \in ExpectedRun
  <2>1. expected[r] \in ExpectedRun
    BY DEF IInv, GateTypeOK
  <2>2. CASE ~dir[r].whole
    BY <2>1, <2>2 DEF Updated
  <2>3. CASE dir[r].whole
    <3> DEFINE D == DOMAIN Keyed(dir[r].checks) \ DOMAIN expected[r].nondeterministic
               f == [id \in D |-> Keyed(dir[r].checks)[id]]
    <3>1. D \in SUBSET ID /\ f \in [D -> Key]
      BY <1>1, <2>3, KeyedType
    <3>2. f \in Map(Key)
      BY <3>1, MapIntro
    <3> HIDE DEF f
    <3>3. [expected[r] EXCEPT !.checks = f] \in ExpectedRun
      BY <2>1, <3>2 DEF ExpectedRun
    <3> QED
      BY <2>3, <3>3 DEF Updated, f
  <2> QED
    BY <2>2, <2>3
<1>3. expected' \in [Run -> ExpectedRun]
  BY <1>2 DEF Update
<1>4. ASSUME NEW r \in Run, NEW id \in ID \ DOMAIN Updated(r).nondeterministic
      PROVE  Said(accepted'[r], id) =
               IF id \in DOMAIN Updated(r).checks THEN {Updated(r).checks[id]} ELSE {}
  <2>1. CASE ~dir[r].whole
    BY <1>4, <2>1 DEF Updated, Update, IInv, ExpectedIsAccepted
  <2>2. CASE dir[r].whole
    <3>1. accepted'[r] = asked[r]
      BY <2>2 DEF Update
    <3>2. Said(asked[r], id) =
            IF id \in DOMAIN Keyed(dir[r].checks) THEN {Keyed(dir[r].checks)[id]} ELSE {}
      BY <1>1, <2>2, KeyedIsSaid
    <3>3. expected[r] \in ExpectedRun
      BY DEF IInv, GateTypeOK
    <3>4. Updated(r).nondeterministic = expected[r].nondeterministic
      BY <2>2, <3>3 DEF Updated, ExpectedRun
    <3>5. Updated(r).checks =
            [i \in DOMAIN Keyed(dir[r].checks) \ DOMAIN expected[r].nondeterministic |->
               Keyed(dir[r].checks)[i]]
      BY <2>2, <3>3 DEF Updated, ExpectedRun
    <3> QED
      BY <1>4, <3>1, <3>2, <3>4, <3>5
  <2> QED
    BY <2>1, <2>2
<1>5. \A r \in Run : expected'[r] = Updated(r)
  BY DEF Update
<1>6. ExpectedIsAccepted'
  BY <1>4, <1>5 DEF ExpectedIsAccepted
<1> QED
  BY <1>3, <1>6

(* The comparison's verdict is true, as every report is tonight's.         *)
LEMMA CompareIsTrue ==
  ASSUME IInv, Compare
  PROVE  VerdictIsTrue'
<1>1. ASSUME NEW r \in Run
      PROVE  RunDiffers(r) <=> r \notin finished \/ ~AsAccepted(r)
  <2>1. CASE r \notin finished
    BY <2>1 DEF RunDiffers, IInv, ReportsAreTonights
  <2>2. CASE r \in finished
    <3>1. dir[r].whole /\ Matches(dir[r].checks, asked[r])
      BY <2>2 DEF IInv, RecordsMatch
    <3>2. CompareRun(expected[r], Keyed(dir[r].checks)) = {} <=> AsAccepted(r)
      BY <3>1, CompareIsAccepted DEF IInv
    <3> QED
      BY <2>2, <3>1, <3>2 DEF RunDiffers
  <2> QED
    BY <2>1, <2>2
<1>2. \A r \in Run : AsAccepted(r)' <=> AsAccepted(r)
  BY DEF Compare, AsAccepted
<1>3. finished' = finished
  BY DEF Compare
<1>4. comparison' = IF \E r \in Run : RunDiffers(r) THEN "differs" ELSE "same"
  BY DEF Compare
<1> QED
  BY <1>1, <1>2, <1>3, <1>4 DEF VerdictIsTrue

(* What ExpectedIsAccepted is about changes only with an update or a       *)
(* listed check.                                                           *)
LEMMA ExpectedKept ==
  ASSUME ExpectedIsAccepted, UNCHANGED <<expected, accepted>>
  PROVE  ExpectedIsAccepted'
BY DEF ExpectedIsAccepted

LEMMA StepInv ==
  ASSUME FreshOut, IInv, [GateNext]_gateVars
  PROVE  IInv'
<1> USE DEF IInv
<1>1. CASE BeginNight
  <2>1. dir' = [r \in Run |-> NoReport] /\ << >> \in Records /\ << >> \in Asks
    BY <1>1, GateAssumption DEF BeginNight, Records, Asks
  <2>2. GateTypeOK'
    BY <1>1, <2>1, GateAssumption DEF BeginNight, GateTypeOK, RunReport, NoReport
  <2>3. ExpectedIsAccepted'
    BY <1>1, ExpectedKept DEF BeginNight
  <2>4. Scheduled' /\ VerdictIsTrue'
    BY <1>1 DEF BeginNight, Scheduled, VerdictIsTrue
  <2>5. RecordsMatch' /\ ReportsAreTonights'
    BY <1>1, <2>1 DEF BeginNight, Scheduled, RecordsMatch, ReportsAreTonights, NoReport
  <2> QED
    BY <2>2, <2>3, <2>4, <2>5
<1>2. ASSUME NEW r \in Run, StartRun(r)
      PROVE  IInv'
  <2>1. << >> \in Records /\ Matches(<< >>, << >>)
    BY GateAssumption DEF Records, Matches
  <2>2. GateTypeOK'
    BY <1>2, <2>1 DEF StartRun, GateTypeOK
  <2>3. ExpectedIsAccepted'
    BY <1>2, ExpectedKept DEF StartRun
  <2>4. Scheduled' /\ VerdictIsTrue'
    BY <1>2 DEF StartRun, Scheduled, VerdictIsTrue
  <2>5. RecordsMatch' /\ ReportsAreTonights'
    BY <1>2, <2>1 DEF StartRun, RecordsMatch, ReportsAreTonights
  <2> QED
    BY <2>2, <2>3, <2>4, <2>5
<1>3. ASSUME NEW r \in Run, NEW c \in Check, NEW k \in Key, RecordCheck(r, c, k)
      PROVE  IInv'
  <2> DEFINE seq == Append(asked[r], [check |-> c, key |-> k])
  <2>1. seq \in Asks /\ recorded' \in Records /\ Matches(recorded', seq)
    <3>1. Matches(recorded, asked[r]) /\ asked[r] \in Asks /\ recorded \in Records /\ Len(asked[r]) < MaxAsks
      BY <1>3 DEF RecordCheck, RecordsMatch, GateTypeOK
    <3> QED
      BY <1>3, <3>1, RecordMatches DEF RecordCheck
  <2>2. asked' = [asked EXCEPT ![r] = seq]
    BY <1>3 DEF RecordCheck
  <2> HIDE DEF seq
  <2>3. GateTypeOK'
    BY <1>3, <2>1, <2>2 DEF RecordCheck, GateTypeOK
  <2>4. ExpectedIsAccepted'
    BY <1>3, ExpectedKept DEF RecordCheck
  <2>5. Scheduled' /\ VerdictIsTrue'
    BY <1>3 DEF RecordCheck, Scheduled, VerdictIsTrue
  <2>6. RecordsMatch'
    <3>1. current = {r} /\ r \notin toStart /\ r \notin finished
      BY <1>3 DEF RecordCheck, Scheduled
    <3>2. \A s \in Run \ {r} : asked'[s] = asked[s]
      BY <2>2 DEF GateTypeOK
    <3>3. asked'[r] = seq
      BY <2>2 DEF GateTypeOK
    <3> QED
      BY <1>3, <2>1, <3>1, <3>2, <3>3 DEF RecordCheck, RecordsMatch, GateTypeOK
  <2>7. ReportsAreTonights'
    BY <1>3 DEF RecordCheck, ReportsAreTonights
  <2> QED
    BY <2>3, <2>4, <2>5, <2>6, <2>7
<1>4. ASSUME NEW r \in Run, WriteReport(r)
      PROVE  IInv'
  <2>1. GateTypeOK'
    BY <1>4 DEF WriteReport, GateTypeOK, RunReport, Whole
  <2>2. ExpectedIsAccepted'
    BY <1>4, ExpectedKept DEF WriteReport
  <2>3. Scheduled' /\ VerdictIsTrue'
    BY <1>4 DEF WriteReport, Scheduled, VerdictIsTrue
  <2>4. RecordsMatch' /\ ReportsAreTonights'
    BY <1>4 DEF WriteReport, RecordsMatch, ReportsAreTonights, GateTypeOK, Whole
  <2> QED
    BY <2>1, <2>2, <2>3, <2>4
<1>5. ASSUME NEW r \in Run, Killed(r)
      PROVE  IInv'
  <2>1. NoReport \in RunReport
    <3>1. << >> \in Records
      BY GateAssumption DEF Records
    <3> QED
      BY <3>1 DEF RunReport, NoReport
  <2>2. GateTypeOK'
    <3>1. dir' \in [Run -> RunReport]
      BY <1>5, <2>1 DEF Killed, GateTypeOK
    <3> QED
      BY <1>5, <3>1 DEF Killed, GateTypeOK
  <2>3. ExpectedIsAccepted'
    BY <1>5, ExpectedKept DEF Killed
  <2>4. Scheduled' /\ VerdictIsTrue'
    BY <1>5 DEF Killed, Scheduled, VerdictIsTrue
  <2>5. RecordsMatch' /\ ReportsAreTonights'
    <3>1. r \notin finished
      BY <1>5 DEF Killed, Scheduled
    <3>2. \A s \in Run : s # r => dir'[s] = dir[s]
      BY <1>5 DEF Killed, GateTypeOK
    <3>3. dir'[r].whole => dir[r].whole
      BY <1>5 DEF Killed, GateTypeOK, NoReport
    <3> QED
      BY <1>5, <3>1, <3>2, <3>3 DEF Killed, RecordsMatch, ReportsAreTonights, GateTypeOK
  <2> QED
    BY <2>2, <2>3, <2>4, <2>5
<1>6. CASE RunsDone
  <2>1. ExpectedIsAccepted'
    BY <1>6, ExpectedKept DEF RunsDone
  <2> QED
    BY <1>6, <2>1 DEF RunsDone, GateTypeOK, Scheduled, RecordsMatch, ReportsAreTonights, VerdictIsTrue
<1>7. CASE Compare
  <2>1. VerdictIsTrue'
    BY <1>7, CompareIsTrue
  <2>2. ExpectedIsAccepted'
    BY <1>7, ExpectedKept DEF Compare
  <2>3. GateTypeOK' /\ Scheduled' /\ RecordsMatch' /\ ReportsAreTonights'
    BY <1>7 DEF Compare, GateTypeOK, Scheduled, RecordsMatch, ReportsAreTonights
  <2> QED
    BY <2>1, <2>2, <2>3
<1>8. CASE Update
  <2>1. expected' \in [Run -> ExpectedRun] /\ ExpectedIsAccepted'
    BY <1>8, UpdateAccepts
  <2>2. GateTypeOK'
    BY <1>8, <2>1 DEF Update, GateTypeOK
  <2>3. Scheduled' /\ RecordsMatch' /\ ReportsAreTonights' /\ VerdictIsTrue'
    BY <1>8 DEF Update, Scheduled, RecordsMatch, ReportsAreTonights, VerdictIsTrue
  <2> QED
    BY <2>1, <2>2, <2>3
<1>9. ASSUME NEW r \in Run, NEW id \in ID, NEW outcomes \in OutcomeLists, ListCheck(r, id, outcomes)
      PROVE  IInv'
  <2> DEFINE nd == expected[r].nondeterministic
             nd2 == [i \in DOMAIN nd \cup {id} |-> IF i = id THEN outcomes ELSE nd[i]]
  <2>1. expected[r] \in ExpectedRun
    BY DEF GateTypeOK
  <2>2. nd2 \in Map(OutcomeLists)
    <3>1. PICK D \in SUBSET ID : nd \in [D -> OutcomeLists]
      BY <2>1 DEF ExpectedRun, Map
    <3>2. nd2 \in [D \cup {id} -> OutcomeLists]
      BY <3>1
    <3> QED
      BY <3>2, MapIntro
  <2>3. expected' = [expected EXCEPT ![r] = [@ EXCEPT !.nondeterministic = nd2]]
    BY <1>9 DEF ListCheck
  <2>4. DOMAIN nd2 = DOMAIN nd \cup {id}
    OBVIOUS
  <2> HIDE DEF nd2
  <2>5. /\ expected'[r].checks = expected[r].checks
        /\ expected'[r].nondeterministic = nd2
        /\ \A s \in Run \ {r} : expected'[s] = expected[s]
    BY <2>1, <2>3 DEF GateTypeOK, ExpectedRun
  <2>6. expected' \in [Run -> ExpectedRun]
    BY <2>1, <2>2, <2>3 DEF GateTypeOK, ExpectedRun
  <2>7. ExpectedIsAccepted'
    BY <1>9, <2>4, <2>5 DEF ListCheck, ExpectedIsAccepted
  <2>8. GateTypeOK'
    BY <1>9, <2>6 DEF ListCheck, GateTypeOK
  <2>9. Scheduled' /\ RecordsMatch' /\ ReportsAreTonights' /\ VerdictIsTrue'
    BY <1>9 DEF ListCheck, Scheduled, RecordsMatch, ReportsAreTonights, VerdictIsTrue
  <2> QED
    BY <2>7, <2>8, <2>9
<1>10. CASE UNCHANGED gateVars
  <2>1. ExpectedIsAccepted'
    BY <1>10, ExpectedKept DEF gateVars
  <2>2. VerdictIsTrue'
    BY <1>10 DEF gateVars, VerdictIsTrue, AsAccepted
  <2> QED
    BY <1>10, <2>1, <2>2 DEF gateVars, GateTypeOK, Scheduled, RecordsMatch, ReportsAreTonights
<1> QED
  BY <1>1, <1>2, <1>3, <1>4, <1>5, <1>6, <1>7, <1>8, <1>9, <1>10 DEF GateNext

(***************************************************************************)
(* With a new $OUT for every night, the expected file and the variables    *)
(* keep to their domains, whatever the agent answers and whoever is        *)
(* killed.                                                                 *)
(***************************************************************************)
THEOREM TypeCorrect ==
  ASSUME FreshOut
  PROVE  GateSpec => []GateTypeOK
<1>1. GateInit => IInv
  BY InitInv
<1>2. IInv /\ [GateNext]_gateVars => IInv'
  BY StepInv
<1>3. IInv => GateTypeOK
  BY DEF IInv
<1> QED
  BY <1>1, <1>2, <1>3, PTL DEF GateSpec

(***************************************************************************)
(* The night is green exactly when every run finished and came to what was *)
(* accepted, for any number of runs, checks, askings of one check, nights  *)
(* and updates.                                                            *)
(***************************************************************************)
THEOREM VerdictTrue ==
  ASSUME FreshOut
  PROVE  GateSpec => []VerdictIsTrue
<1>1. GateInit => IInv
  BY InitInv
<1>2. IInv /\ [GateNext]_gateVars => IInv'
  BY StepInv
<1>3. IInv => VerdictIsTrue
  BY DEF IInv
<1> QED
  BY <1>1, <1>2, <1>3, PTL DEF GateSpec

(***************************************************************************)
(* The expected file says what was last accepted of every check nobody     *)
(* listed, through every update, also one made when a run did not finish.  *)
(***************************************************************************)
THEOREM ExpectedAccepted ==
  ASSUME FreshOut
  PROVE  GateSpec => []ExpectedIsAccepted
<1>1. GateInit => IInv
  BY InitInv
<1>2. IInv /\ [GateNext]_gateVars => IInv'
  BY StepInv
<1>3. IInv => ExpectedIsAccepted
  BY DEF IInv
<1> QED
  BY <1>1, <1>2, <1>3, PTL DEF GateSpec
==============================================================================
