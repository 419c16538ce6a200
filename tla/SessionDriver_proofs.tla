------------------------ MODULE SessionDriver_proofs ------------------------
(***************************************************************************)
(* Theorems about SessionDriver: for any number of prompts, approvals and  *)
(* events, any capacity of the event channel, any load and any policy.     *)
(***************************************************************************)
EXTENDS SessionDriver, FiniteSetTheorems, SequenceTheorems, TLAPS

(* The event under way, from its taking to the end of its handling.        *)
UnderWay == reader \in {"handle", "signal", "wake"}
Handling == reader = "handle" /\ event.kind = "ask"

(* The events taken off the channel so far.                                *)
Taken == IF UnderWay THEN seen + 1 ELSE seen

IsAsk(e) == e.kind = "ask"

(* What is still to be handled was asked once, and is not yet recorded.    *)
AsksAreNew ==
  /\ \A i \in DOMAIN queue : IsAsk(queue[i]) => queue[i].no \in 1 .. asks
  /\ \A i, j \in DOMAIN queue :
       IsAsk(queue[i]) /\ IsAsk(queue[j]) /\ queue[i].no = queue[j].no => i = j
  /\ Handling =>
       /\ event.no \in 1 .. asks
       /\ \A i \in DOMAIN queue : IsAsk(queue[i]) => queue[i].no # event.no
  /\ \A k \in DOMAIN permissions :
       /\ permissions[k].no \in 1 .. asks
       /\ \A i \in DOMAIN queue : IsAsk(queue[i]) => queue[i].no # permissions[k].no
       /\ Handling => event.no # permissions[k].no

(* Before the read loop starts nothing is emitted "from then on"; once it  *)
(* has, the rebuild is what was queued when it did: the first events, and  *)
(* no other.                                                               *)
RebuildIsFirst ==
  /\ reader = "unstarted" =>
       seen = 0 /\ resolving = {} /\ \A i \in DOMAIN queue : queue[i].from # "run"
  /\ reader # "unstarted" =>
       /\ Taken + Len(queue) >= during
       /\ \A i \in DOMAIN queue : Rebuilt(queue[i]) <=> Taken + i <= during
  /\ UnderWay => (Rebuilt(event) <=> seen < during)

(* When what is emitted now is emitted.                                    *)
Moment == IF reader = "unstarted" THEN "gap" ELSE "run"

(* Every approval noted is recorded or about to be.                        *)
AsksAreNoted ==
  /\ Handling => \E j \in DOMAIN notes : notes[j].of = event
  /\ \A j \in DOMAIN notes : IsAsk(notes[j].of) =>
       \/ Handling /\ notes[j].of = event
       \/ \E i \in DOMAIN permissions : permissions[i].no = notes[j].of.no

(* With ParkPermission nothing is resolved, and what the agent asked it    *)
(* still waits on.                                                         *)
Parking ==
  /\ policy.park => resolving = {}
  /\ live /\ policy.park =>
       /\ \A i \in DOMAIN queue : IsAsk(queue[i]) => queue[i].no \in asking
       /\ reader \in {"handle", "signal"} /\ event.kind = "ask" => event.no \in asking
  /\ parked => policy.park /\ (live => asking # {})
  /\ why = "parked" => policy.park /\ (live => asking # {})

Types ==
  /\ policy \in [park : BOOLEAN, cancelDuringLoad : BOOLEAN, resume : BOOLEAN]
  /\ TypeOK

IInv == /\ Types
        /\ AsksAreNew /\ PermissionsAreTrue
        /\ RebuildIsFirst /\ AsksAreNoted /\ ReplayIsMarked
        /\ Parking

---------------------------------------------------------------------------
(* Types, by who owns the variables.                                       *)
DriverTypes ==
  /\ policy \in [park : BOOLEAN, cancelDuringLoad : BOOLEAN, resume : BOOLEAN]
  /\ turnEnded \in BOOLEAN
  /\ notes \in Seq([of : Event, replay : BOOLEAN])
  /\ permissions \in Seq([no : Nat, duringLoad : BOOLEAN, answer : Answer])
  /\ updates \in BOOLEAN /\ turnOver \in BOOLEAN /\ parked \in BOOLEAN /\ done \in BOOLEAN

ReaderTypes ==
  /\ reader \in {"unstarted", "take", "handle", "signal", "wake", "over"}
  /\ event \in Event /\ seen \in Nat /\ during \in Nat
  /\ resolving \subseteq [no : Nat, answer : Answer \ {"parked"}]

RunnerTypes ==
  /\ runner \in {"start", "idle", "prompt", "sent", "check", "select", "parkwait", "closed"}
  /\ after \in Nat \cup {-1} /\ turn \in Nat
  /\ why \in {"none", "answered", "parked", "deadline", "done"}

BackendTypes ==
  /\ queue \in Seq(Event) /\ live \in BOOLEAN
  /\ running \in Nat /\ asking \subseteq Nat
  /\ asks \in Nat /\ deltas \in Nat /\ served \in Nat
  /\ ended \subseteq Nat /\ verdicts \subseteq [no : Nat, answer : Answer]

LEMMA TypesParts == Types <=> DriverTypes /\ ReaderTypes /\ RunnerTypes /\ BackendTypes
  BY Zenon DEF Types, TypeOK, DriverTypes, ReaderTypes, RunnerTypes, BackendTypes

LEMMA DriverTypesStep == Types /\ Next => DriverTypes'
<1> SUFFICES ASSUME DriverTypes, ReaderTypes, RunnerTypes, BackendTypes, Next
             PROVE  DriverTypes'
  BY TypesParts
<1> USE DEF driverVars
<1>1. CASE TakeEvent
  <2>1. Head(queue) \in Event
    BY <1>1 DEF TakeEvent, ReadyToTake, BackendTypes
  <2>2. notes' \in Seq([of : Event, replay : BOOLEAN])
    <3>1. [of |-> Head(queue), replay |-> InRebuild] \in [of : Event, replay : BOOLEAN]
      BY <2>1 DEF InRebuild
    <3>2. notes \in Seq([of : Event, replay : BOOLEAN])
      BY DEF DriverTypes
    <3>3. notes' = notes \/ notes' = Append(notes, [of |-> Head(queue), replay |-> InRebuild])
      BY <1>1 DEF TakeEvent
    <3>4. Append(notes, [of |-> Head(queue), replay |-> InRebuild])
            \in Seq([of : Event, replay : BOOLEAN])
      BY <3>1, <3>2, AppendProperties, Zenon
    <3> QED BY <3>2, <3>3, <3>4, Zenon
  <2> QED BY <1>1, <2>2 DEF TakeEvent, DriverTypes
<1>2. CASE HandleEvent
  <2>1. AnswerTo(InRebuild) \in Answer
    BY DEF AnswerTo, Answer
  <2>2. permissions' \in Seq([no : Nat, duringLoad : BOOLEAN, answer : Answer])
    <3>1. CASE OnApproval
      <4>1. [no |-> event.no, duringLoad |-> InRebuild, answer |-> AnswerTo(InRebuild)]
              \in [no : Nat, duringLoad : BOOLEAN, answer : Answer]
        BY <2>1 DEF ReaderTypes, Event, InRebuild
      <4> QED BY <3>1, <4>1 DEF OnApproval, DriverTypes
    <3>2. CASE OnTurnEnd \/ OnOther
      BY <3>2 DEF OnTurnEnd, OnOther, DriverTypes
    <3> QED BY <1>2, <3>1, <3>2 DEF HandleEvent
  <2>4. turnEnded' \in BOOLEAN
    BY <1>2 DEF HandleEvent, OnApproval, OnTurnEnd, OnOther, DriverTypes
  <2> QED BY <1>2, <2>2, <2>4 DEF HandleEvent, DriverTypes
<1>3. CASE Signal
  BY <1>3 DEF Signal, DriverTypes
<1>4. CASE WakeUpdates \/ EndRead
  BY <1>4 DEF WakeUpdates, EndRead, DriverTypes
<1>5. CASE BeginPrompt \/ Look
  BY <1>5 DEF BeginPrompt, Look, DriverTypes
<1>6. CASE TakeTurnOver \/ TakeParked
  BY <1>6 DEF TakeTurnOver, TakeParked, DriverTypes
<1>7. CASE UNCHANGED driverVars
  BY <1>7 DEF DriverTypes
<1>8. ~(TakeEvent \/ HandleEvent \/ Signal \/ WakeUpdates \/ EndRead \/ BeginPrompt \/ Look
          \/ TakeTurnOver \/ TakeParked) => UNCHANGED driverVars
  BY DEF Next, Reader, Runner, Start, Waiting, Backend, Resolve, HandOver, WaitAnswered, WaitParked,
     CheckAnswered, SeeDone, Deadline, EndSession, EmitDelta, Ask, EndTurn, Serve, Exit
<1> QED BY <1>1, <1>2, <1>3, <1>4, <1>5, <1>6, <1>7, <1>8

LEMMA ReaderTypesStep == Types /\ Next => ReaderTypes'
<1> SUFFICES ASSUME DriverTypes, ReaderTypes, RunnerTypes, BackendTypes, Next
             PROVE  ReaderTypes'
  BY TypesParts
<1> USE DEF readerVars
<1>1. CASE TakeEvent
  <2>1. Head(queue) \in Event
    BY <1>1 DEF TakeEvent, ReadyToTake, BackendTypes
  <2> QED BY <1>1, <2>1 DEF TakeEvent, ReaderTypes
<1>2. CASE HandleEvent
  <2>1. AnswerTo(InRebuild) \in Answer
    BY DEF AnswerTo, Answer
  <2>2. resolving' \subseteq [no : Nat, answer : Answer \ {"parked"}]
    BY <1>2, <2>1 DEF HandleEvent, OnApproval, OnTurnEnd, OnOther, StartResolve, Event, ReaderTypes
  <2> QED BY <1>2, <2>2 DEF HandleEvent, ReaderTypes
<1>3. CASE Signal \/ WakeUpdates \/ EndRead
  BY <1>3 DEF Signal, WakeUpdates, EndRead, ReaderTypes
<1>4. CASE \E r \in resolving : Resolve(r)
  BY <1>4 DEF Resolve, ReaderTypes
<1>5. CASE UNCHANGED readerVars
  BY <1>5 DEF ReaderTypes
<1>7. CASE Start
  <2>1. during' \in Nat
    BY <1>7 DEF Start, BackendTypes
  <2> QED BY <1>7, <2>1 DEF Start, ReaderTypes
<1>6. ~(TakeEvent \/ HandleEvent \/ Signal \/ WakeUpdates \/ EndRead \/ Start
          \/ \E r \in resolving : Resolve(r)) => UNCHANGED readerVars
  BY DEF Next, Reader, Runner, Waiting, Backend, BeginPrompt, HandOver, WaitAnswered, WaitParked,
     CheckAnswered, Look, TakeTurnOver, TakeParked, SeeDone, Deadline, EndSession, EmitDelta, Ask,
     EndTurn, Serve, Exit
<1> QED BY <1>1, <1>2, <1>3, <1>4, <1>5, <1>6, <1>7

LEMMA RunnerTypesStep == Types /\ Next => RunnerTypes'
<1> SUFFICES ASSUME DriverTypes, ReaderTypes, RunnerTypes, BackendTypes, Next
             PROVE  RunnerTypes'
  BY TypesParts
<1> USE DEF runnerVars
<1>1. CASE Reader
  BY <1>1 DEF Reader, TakeEvent, HandleEvent, Signal, WakeUpdates, EndRead, Resolve, RunnerTypes
<1>2. CASE Backend
  BY <1>2 DEF Backend, EmitDelta, Ask, EndTurn, Serve, Exit, RunnerTypes
<1>3. CASE Start \/ BeginPrompt \/ HandOver
  BY <1>3 DEF Start, BeginPrompt, HandOver, RunnerTypes, BackendTypes
<1>4. CASE WaitAnswered \/ WaitParked
  BY <1>4 DEF WaitAnswered, WaitParked, RunnerTypes, BackendTypes
<1>5. CASE CheckAnswered \/ Look \/ TakeTurnOver
  BY <1>5 DEF CheckAnswered, Look, TakeTurnOver, Return, RunnerTypes
<1>6. CASE SeeDone \/ TakeParked \/ Deadline \/ EndSession
  BY <1>6 DEF SeeDone, TakeParked, Deadline, EndSession, Return, RunnerTypes
<1> QED BY <1>1, <1>2, <1>3, <1>4, <1>5, <1>6 DEF Next, Runner, Waiting

LEMMA BackendTypesStep == Types /\ Next => BackendTypes'
<1> SUFFICES ASSUME DriverTypes, ReaderTypes, RunnerTypes, BackendTypes, Next
             PROVE  BackendTypes'
  BY TypesParts
<1> USE DEF backendVars, historyVars
<1>1. CASE TakeEvent
  <2>1. Tail(queue) \in Seq(Event)
    BY <1>1 DEF TakeEvent, ReadyToTake, BackendTypes
  <2> QED BY <1>1, <2>1 DEF TakeEvent, BackendTypes
<1>2. ASSUME NEW r \in resolving, Resolve(r) PROVE BackendTypes'
  <2>0. r.no \in Nat /\ r \in [no : Nat, answer : Answer]
    BY DEF ReaderTypes
  <2>1. [kind |-> "resolved", no |-> r.no, from |-> "run"] \in Event
    BY <2>0 DEF Event, Kind
  <2>2. queue' \in Seq(Event)
    BY <1>2, <2>1 DEF Resolve, BackendTypes
  <2>3. verdicts' \subseteq [no : Nat, answer : Answer]
    BY <1>2, <2>0 DEF Resolve, BackendTypes
  <2>4. asking' \subseteq Nat
    BY <1>2 DEF Resolve, BackendTypes
  <2> QED BY <1>2, <2>2, <2>3, <2>4 DEF Resolve, BackendTypes
<1>3. \A kind \in Kind : \A no \in Nat : Emit(kind, no) => queue' \in Seq(Event)
  <2> SUFFICES ASSUME NEW kind \in Kind, NEW no \in Nat, Emit(kind, no) PROVE queue' \in Seq(Event)
    OBVIOUS
  <2>1. [kind |-> kind, no |-> no, from |-> Moment] \in Event
    BY DEF Event, Moment
  <2> QED BY <2>1 DEF Emit, Moment, BackendTypes
<1>4. CASE EmitDelta
  <2>1. queue' \in Seq(Event)
    BY <1>3, <1>4 DEF EmitDelta, Kind, BackendTypes
  <2> QED BY <1>4, <2>1 DEF EmitDelta, BackendTypes
<1>5. CASE Ask
  <2>1. queue' \in Seq(Event)
    BY <1>3, <1>5 DEF Ask, Kind, BackendTypes
  <2> QED BY <1>5, <2>1 DEF Ask, BackendTypes
<1>6. CASE EndTurn
  <2>1. queue' \in Seq(Event)
    BY <1>3, <1>6 DEF EndTurn, Kind, BackendTypes
  <2> QED BY <1>6, <2>1 DEF EndTurn, BackendTypes
<1>7. CASE HandOver
  BY <1>7 DEF HandOver, BackendTypes, RunnerTypes
<1>10. CASE EndSession
  BY <1>10 DEF EndSession, BackendTypes
<1>11. CASE Serve
  BY <1>11 DEF Serve, BackendTypes
<1>12. CASE Exit
  BY <1>12 DEF Exit, BackendTypes
<1>8. CASE UNCHANGED <<backendVars, historyVars>>
  BY <1>8 DEF BackendTypes
<1>9. ~(TakeEvent \/ (\E r \in resolving : Resolve(r)) \/ EmitDelta \/ Ask \/ EndTurn \/ HandOver
          \/ EndSession \/ Serve \/ Exit) => UNCHANGED <<backendVars, historyVars>>
  BY DEF Next, Reader, Runner, Start, Waiting, Backend, HandleEvent, Signal, WakeUpdates, EndRead,
     BeginPrompt, WaitAnswered, WaitParked, CheckAnswered, Look, TakeTurnOver, TakeParked, SeeDone,
     Deadline
<1> QED BY <1>1, <1>2, <1>4, <1>5, <1>6, <1>7, <1>8, <1>9, <1>10, <1>11,
     <1>12

LEMMA TypesStep == Types /\ Next => Types'
<1> SUFFICES ASSUME Types, Next PROVE Types'
  OBVIOUS
<1>1. DriverTypes' /\ ReaderTypes' /\ RunnerTypes' /\ BackendTypes'
  BY DriverTypesStep, ReaderTypesStep, RunnerTypesStep, BackendTypesStep
<1> QED
  BY <1>1, Zenon DEF Types, TypeOK, DriverTypes, ReaderTypes, RunnerTypes, BackendTypes

---------------------------------------------------------------------------
LEMMA InitTypes ==
  ASSUME Init
  PROVE  /\ Types
         /\ asking = 1 .. asks
         /\ queue \in Seq([kind : {"delta", "ask"}, no : 0 .. MaxAsks, from : {"load"}])
         /\ \A i, j \in DOMAIN queue :
              IsAsk(queue[i]) /\ IsAsk(queue[j]) /\ queue[i].no = queue[j].no => i = j
<1>1. /\ queue \in Loads \/ queue = << >>
      /\ policy \in Policies /\ asks = Cardinality(asking)
      /\ asking = {queue[i].no : i \in {j \in DOMAIN queue : queue[j].kind = "ask"}}
  BY DEF Init
<1>2. queue \in Seq([kind : {"delta", "ask"}, no : 0 .. MaxAsks, from : {"load"}])
  <2>1. CASE queue \in Loads
    BY <2>1, LoadsAssumption
  <2>2. CASE queue = << >>
    BY <2>2, EmptySeq, Zenon
  <2> QED BY <1>1, <2>1, <2>2
<1>3. PICK n \in 0 .. MaxAsks : asking = 1 .. n
  <2>1. CASE queue \in Loads
    BY <1>1, <2>1, LoadsAssumption
  <2>2. CASE queue = << >>
    <3>1. asking = 1 .. 0 /\ 0 \in 0 .. MaxAsks
      BY <1>1, <2>2, AsksAssumption
    <3> QED BY <3>1
  <2> QED BY <1>1, <2>1, <2>2
<1>4. n \in Nat
  BY AsksAssumption
<1>5. Cardinality(1 .. n) = n
  BY <1>4, FS_Interval
<1>6. asks = n
  BY <1>1, <1>3, <1>5
<1>7. queue \in Seq(Event)
  <2>1. [kind : {"delta", "ask"}, no : 0 .. MaxAsks, from : {"load"}] \subseteq Event
    <3>1. 0 .. MaxAsks \subseteq Nat
      BY AsksAssumption
    <3> SUFFICES ASSUME NEW e \in [kind : {"delta", "ask"}, no : 0 .. MaxAsks, from : {"load"}]
                 PROVE  e \in Event
      OBVIOUS
    <3> QED BY <3>1 DEF Event, Kind
  <2> QED BY <1>2, <2>1, SeqMonotonic
<1>8. \A i, j \in DOMAIN queue :
        IsAsk(queue[i]) /\ IsAsk(queue[j]) /\ queue[i].no = queue[j].no => i = j
  <2>1. CASE queue \in Loads
    BY <2>1, LoadsAssumption DEF IsAsk
  <2>2. CASE queue = << >>
    BY <2>2
  <2> QED BY <1>1, <2>1, <2>2
<1>9. DriverTypes
  <2>1. policy \in [park : BOOLEAN, cancelDuringLoad : BOOLEAN, resume : BOOLEAN]
    BY <1>1, PoliciesAssumption
  <2>2. notes = << >> /\ permissions = << >> /\ turnEnded = FALSE
    BY DEF Init
  <2>3. updates = FALSE /\ turnOver = FALSE /\ parked = FALSE /\ done = FALSE
    BY DEF Init
  <2>4. /\ notes \in Seq([of : Event, replay : BOOLEAN])
        /\ permissions \in Seq([no : Nat, duringLoad : BOOLEAN, answer : Answer])
    BY <2>2, EmptySeq, Zenon
  <2> QED BY <2>1, <2>2, <2>3, <2>4 DEF DriverTypes
<1>10. ReaderTypes
  BY DEF Init, ReaderTypes, Event, Kind, NoEvent
<1>11. RunnerTypes
  BY DEF Init, RunnerTypes
<1>12. BackendTypes
  <2>1. live = TRUE /\ running = 0 /\ deltas = 0 /\ served = 0 /\ ended = {} /\ verdicts = {}
    BY DEF Init
  <2>2. asking \subseteq Nat /\ asks \in Nat
    BY <1>3, <1>4, <1>6
  <2> QED BY <1>7, <2>1, <2>2 DEF BackendTypes
<1>13. Types
  BY <1>9, <1>10, <1>11, <1>12, TypesParts
<1> QED BY <1>2, <1>3, <1>6, <1>8, <1>13

(* What an element of the queue is at first.                               *)
LEMMA InitEvents ==
  ASSUME Init, NEW i \in DOMAIN queue
  PROVE  queue[i].kind \in {"delta", "ask"} /\ queue[i].from = "load"
<1> DEFINE E == [kind : {"delta", "ask"}, no : 0 .. MaxAsks, from : {"load"}]
<1>1. queue \in Seq(E)
  BY InitTypes
<1>2. \A e \in E : e.kind \in {"delta", "ask"} /\ e.from = "load"
  OBVIOUS
<1> HIDE DEF E
<1>3. queue[i] \in E
  BY <1>1, LenProperties, ElementOfSeq
<1> QED BY <1>2, <1>3

LEMMA InitInv == Init => IInv
<1> SUFFICES ASSUME Init PROVE IInv
  OBVIOUS
<1>1. Types /\ asking = 1 .. asks
  BY InitTypes
<1>2. \A i \in DOMAIN queue : IsAsk(queue[i]) => queue[i].no \in asking
  BY DEF Init, IsAsk
<1>3. \A i, j \in DOMAIN queue :
        IsAsk(queue[i]) /\ IsAsk(queue[j]) /\ queue[i].no = queue[j].no => i = j
  BY InitTypes
<1>4. reader = "unstarted" /\ permissions = << >> /\ notes = << >> /\ resolving = {} /\ verdicts = {}
  BY DEF Init
<1>5. AsksAreNew
  BY <1>1, <1>2, <1>3, <1>4 DEF AsksAreNew, Handling
<1>6. RebuildIsFirst
  <2>1. \A i \in DOMAIN queue : queue[i].from # "run"
    BY InitEvents
  <2> QED BY <2>1 DEF Init, RebuildIsFirst, UnderWay
<1>7. PermissionsAreTrue /\ AsksAreNoted /\ ReplayIsMarked
  BY <1>4 DEF PermissionsAreTrue, AsksAreNoted, ReplayIsMarked, Handling
<1>8. Parking
  BY <1>2, <1>4 DEF Init, Parking
<1> QED BY <1>1, <1>5, <1>6, <1>7, <1>8 DEF IInv

---------------------------------------------------------------------------
(* Appending to a sequence, and taking its first element.                  *)
LEMMA Appended ==
  ASSUME NEW S, NEW q \in Seq(S), NEW e \in S, NEW r, r = Append(q, e)
  PROVE  /\ Len(q) \in Nat /\ Len(r) = Len(q) + 1
         /\ DOMAIN q = 1 .. Len(q) /\ DOMAIN r = 1 .. Len(q) + 1
         /\ \A i \in 1 .. Len(q) : r[i] = q[i]
         /\ r[Len(q) + 1] = e
  BY AppendProperties, LenProperties

LEMMA Taking ==
  ASSUME NEW S, NEW q \in Seq(S), q # << >>
  PROVE  /\ Len(q) \in Nat \ {0} /\ Len(Tail(q)) = Len(q) - 1
         /\ DOMAIN q = 1 .. Len(q) /\ DOMAIN Tail(q) = 1 .. Len(q) - 1
         /\ \A i \in 1 .. Len(q) - 1 : Tail(q)[i] = q[i + 1]
         /\ Head(q) = q[1] /\ Head(q) \in S
  BY HeadTailProperties, LenProperties, EmptySeq

(* What the driver has taken, noted and recorded.                          *)
Record ==
  /\ AsksAreNew /\ PermissionsAreTrue
  /\ RebuildIsFirst /\ AsksAreNoted /\ ReplayIsMarked

LEMMA RecordUnchanged ==
  ASSUME Record,
         UNCHANGED <<policy, queue, reader, event, seen, during, notes, permissions, resolving,
                     verdicts, asks>>
  PROVE  Record'
  BY DEF Record, AsksAreNew, PermissionsAreTrue, RebuildIsFirst, AsksAreNoted, ReplayIsMarked,
     Rebuilt, Handling, Taken, UnderWay

LEMMA RunnerLeavesRecord ==
  ASSUME Record, (Runner /\ ~Start) \/ Serve \/ Exit
  PROVE  Record'
<1>1. UNCHANGED <<policy, queue, reader, event, seen, during, notes, permissions, resolving,
                  verdicts, asks>>
  BY DEF Runner, Waiting, BeginPrompt, HandOver, WaitAnswered, WaitParked, CheckAnswered, Look,
     TakeTurnOver, TakeParked, SeeDone, Deadline, EndSession, Serve, Exit, driverVars, readerVars,
     backendVars, historyVars
<1> QED BY <1>1, RecordUnchanged

(* What the session keeps is kept as long as it was.                       *)
LEMMA ReplayStays ==
  ASSUME ReplayIsMarked, UNCHANGED <<policy, notes, permissions>>
  PROVE  ReplayIsMarked'
  BY DEF ReplayIsMarked, Rebuilt

(* The count: all that is queued is the rebuild, of a resumed session.     *)
LEMMA StartRecorded ==
  ASSUME Types, Record, Start
  PROVE  Record'
<1>1. /\ reader = "unstarted" /\ ~Handling /\ ~Handling' /\ ~UnderWay'
      /\ UNCHANGED <<policy, queue, event, seen, notes, permissions, resolving, verdicts, asks>>
  BY DEF Start, Handling, UnderWay, driverVars, backendVars, historyVars
<1>2. AsksAreNew' /\ PermissionsAreTrue' /\ AsksAreNoted' /\ ReplayIsMarked'
  BY <1>1, ReplayStays DEF Record, AsksAreNew, PermissionsAreTrue, AsksAreNoted
<1>3. RebuildIsFirst'
  <2>1. /\ seen = 0 /\ Taken' = 0 /\ reader' # "unstarted"
        /\ \A i \in DOMAIN queue : queue[i].from # "run"
    BY <1>1 DEF Record, RebuildIsFirst, Taken, Start
  <2>2. Len(queue) \in Nat /\ DOMAIN queue = 1 .. Len(queue)
    BY DEF Types, TypeOK
  <2>3. CASE policy.resume
    <3>1. during' = Len(queue)
      BY <2>3 DEF Start
    <3>2. \A i \in DOMAIN queue' : Rebuilt(queue[i])' /\ Taken' + i <= during'
      BY <1>1, <2>1, <2>2, <2>3, <3>1 DEF Rebuilt
    <3> QED BY <1>1, <2>1, <2>2, <3>1, <3>2 DEF RebuildIsFirst
  <2>4. CASE ~policy.resume
    <3>1. during' = 0
      BY <2>4 DEF Start
    <3>2. \A i \in DOMAIN queue' : ~Rebuilt(queue[i])' /\ ~(Taken' + i <= during')
      BY <1>1, <2>1, <2>2, <2>4, <3>1 DEF Rebuilt
    <3> QED BY <1>1, <2>1, <2>2, <3>1, <3>2 DEF RebuildIsFirst
  <2> QED BY <2>3, <2>4
<1> QED BY <1>2, <1>3 DEF Record

(* The read loop between two events.                                       *)
LEMMA ReaderMoves ==
  ASSUME Types, Record, Signal \/ WakeUpdates \/ EndRead
  PROVE  Record'
<1>1. /\ UNCHANGED <<policy, queue, event, during, notes, permissions, resolving, verdicts, asks>>
      /\ ~Handling /\ ~Handling' /\ reader # "unstarted" /\ reader' # "unstarted"
  BY DEF Signal, WakeUpdates, EndRead, backendVars, historyVars, Handling
<1>2. seen \in Nat
  BY DEF Types, TypeOK
<1>3. /\ Taken' = Taken
      /\ UnderWay' => UnderWay /\ seen' = seen
  BY <1>2 DEF Signal, WakeUpdates, EndRead, Taken, UnderWay
<1>4. AsksAreNew' /\ PermissionsAreTrue' /\ AsksAreNoted' /\ ReplayIsMarked'
  BY <1>1, ReplayStays DEF Record, AsksAreNew, PermissionsAreTrue, AsksAreNoted
<1>5. RebuildIsFirst'
  BY <1>1, <1>3 DEF Record, RebuildIsFirst, Rebuilt
<1> QED BY <1>4, <1>5 DEF Record

(* An event is emitted: after those of the rebuild, whatever it is.        *)
LEMMA RebuildStays ==
  ASSUME Types, RebuildIsFirst, UNCHANGED <<policy, reader, event, seen, during>>,
         NEW e \in Event, e.from = Moment, queue' = Append(queue, e),
         resolving # {} => reader # "unstarted", resolving' \subseteq resolving
  PROVE  RebuildIsFirst'
<1>1. queue \in Seq(Event) /\ seen \in Nat /\ during \in Nat
  BY DEF Types, TypeOK
<1>2. /\ Len(queue) \in Nat /\ Len(queue') = Len(queue) + 1
      /\ DOMAIN queue = 1 .. Len(queue) /\ DOMAIN queue' = 1 .. Len(queue) + 1
      /\ \A i \in 1 .. Len(queue) : queue'[i] = queue[i]
      /\ queue'[Len(queue) + 1] = e
  BY <1>1, Appended
<1>3. Taken' = Taken /\ UnderWay' = UnderWay /\ Taken \in Nat
  BY <1>1 DEF Taken, UnderWay
<1>4. CASE reader = "unstarted"
  <2>1. /\ seen' = 0 /\ resolving' = {} /\ ~UnderWay' /\ reader' = "unstarted"
        /\ \A i \in DOMAIN queue : queue[i].from # "run"
    BY <1>4 DEF RebuildIsFirst, UnderWay
  <2>2. e.from # "run"
    BY <1>4 DEF Moment
  <2>3. \A i \in DOMAIN queue' : queue'[i].from # "run"
    BY <1>2, <2>1, <2>2
  <2> QED BY <2>1, <2>3 DEF RebuildIsFirst
<1>5. CASE reader # "unstarted"
  <2>1. Taken + Len(queue) >= during /\ Taken' + Len(queue') >= during'
    BY <1>1, <1>2, <1>3, <1>5 DEF RebuildIsFirst
  <2>2. ASSUME NEW i \in DOMAIN queue' PROVE Rebuilt(queue[i])' <=> Taken' + i <= during'
    <3>1. CASE i \in 1 .. Len(queue)
      BY <1>2, <1>3, <1>5, <3>1 DEF RebuildIsFirst, Rebuilt
    <3>2. CASE i = Len(queue) + 1
      <4>1. ~(Taken' + i <= during')
        BY <1>1, <1>2, <1>3, <2>1, <3>2
      <4>2. queue'[i].from = "run"
        BY <1>2, <1>5, <3>2 DEF Moment
      <4>3. ~Rebuilt(queue[i])'
        BY <4>2 DEF Rebuilt
      <4> QED BY <4>1, <4>3
    <3> QED BY <1>2, <3>1, <3>2
  <2>3. UnderWay' => (Rebuilt(event)' <=> seen' < during')
    BY <1>3 DEF RebuildIsFirst, Rebuilt
  <2> QED BY <1>5, <2>1, <2>2, <2>3 DEF RebuildIsFirst
<1> QED BY <1>4, <1>5

LEMMA NoAskEmitted ==
  ASSUME Types, Record,
         NEW e \in Event, ~IsAsk(e), e.from = Moment, queue' = Append(queue, e),
         UNCHANGED <<policy, reader, event, seen, during, notes, permissions, asks>>,
         resolving' \subseteq resolving, verdicts' \subseteq resolving \cup verdicts
  PROVE  Record'
<1>1. queue \in Seq(Event)
  BY DEF Types, TypeOK
<1>2. /\ Len(queue) \in Nat
      /\ DOMAIN queue = 1 .. Len(queue) /\ DOMAIN queue' = 1 .. Len(queue) + 1
      /\ \A i \in 1 .. Len(queue) : queue'[i] = queue[i]
      /\ queue'[Len(queue) + 1] = e
  BY <1>1, Appended
<1>3. \A i \in DOMAIN queue' : IsAsk(queue'[i]) => i \in DOMAIN queue /\ queue'[i] = queue[i]
  BY <1>2
<1>4. Handling' = Handling
  BY DEF Handling
<1>5. AsksAreNew'
  BY <1>3, <1>4 DEF Record, AsksAreNew
<1>6. PermissionsAreTrue' /\ AsksAreNoted' /\ ReplayIsMarked'
  BY <1>4, ReplayStays DEF Record, PermissionsAreTrue, AsksAreNoted
<1>7. RebuildIsFirst'
  <2>1. resolving # {} => reader # "unstarted"
    BY DEF Record, RebuildIsFirst
  <2> QED BY <2>1, RebuildStays DEF Record
<1> QED BY <1>5, <1>6, <1>7 DEF Record

LEMMA AskRecorded ==
  ASSUME Types, Record, Ask
  PROVE  Record'
<1> DEFINE e == [kind |-> "ask", no |-> asks + 1, from |-> Moment]
<1>1. queue \in Seq(Event) /\ asks \in Nat
  BY DEF Types, TypeOK
<1>2. e \in Event /\ queue' = Append(queue, e) /\ asks' = asks + 1
  BY <1>1 DEF Ask, Emit, Event, Kind, Moment
<1>3. UNCHANGED <<policy, reader, event, seen, during, notes, permissions, resolving, verdicts>>
  BY DEF Ask, driverVars, readerVars, historyVars
<1>4. /\ Len(queue) \in Nat
      /\ DOMAIN queue = 1 .. Len(queue) /\ DOMAIN queue' = 1 .. Len(queue) + 1
      /\ \A i \in 1 .. Len(queue) : queue'[i] = queue[i]
      /\ queue'[Len(queue) + 1] = e
  BY <1>1, <1>2, Appended
<1>5. \A i \in DOMAIN queue' : IsAsk(queue'[i]) =>
        \/ i \in DOMAIN queue /\ queue'[i] = queue[i]
        \/ i = Len(queue) + 1 /\ queue'[i].no = asks + 1
  BY <1>4
<1>6. Handling' = Handling
  BY <1>3 DEF Handling
<1>7. AsksAreNew'
  <2>1. \A n \in 1 .. asks : n \in 1 .. asks + 1 /\ n # asks + 1
    BY <1>1
  <2>2. asks + 1 \in 1 .. asks + 1
    BY <1>1
  <2>3. \A i \in DOMAIN queue' : IsAsk(queue'[i]) => queue'[i].no \in 1 .. asks'
    BY <1>2, <1>5, <2>1, <2>2 DEF Record, AsksAreNew
  <2>4. \A i, j \in DOMAIN queue' :
          IsAsk(queue'[i]) /\ IsAsk(queue'[j]) /\ queue'[i].no = queue'[j].no => i = j
    BY <1>5, <2>1 DEF Record, AsksAreNew
  <2>5. Handling' =>
          /\ event'.no \in 1 .. asks'
          /\ \A i \in DOMAIN queue' : IsAsk(queue'[i]) => queue'[i].no # event'.no
    BY <1>2, <1>3, <1>5, <1>6, <2>1 DEF Record, AsksAreNew
  <2>6. \A k \in DOMAIN permissions' :
          /\ permissions'[k].no \in 1 .. asks'
          /\ \A i \in DOMAIN queue' : IsAsk(queue'[i]) => queue'[i].no # permissions'[k].no
          /\ Handling' => event'.no # permissions'[k].no
    BY <1>2, <1>3, <1>5, <1>6, <2>1 DEF Record, AsksAreNew
  <2> QED BY <2>3, <2>4, <2>5, <2>6 DEF AsksAreNew
<1>8. PermissionsAreTrue' /\ AsksAreNoted' /\ ReplayIsMarked'
  BY <1>3, <1>6, ReplayStays DEF Record, PermissionsAreTrue, AsksAreNoted
<1>9. RebuildIsFirst'
  <2>1. resolving # {} => reader # "unstarted"
    BY DEF Record, RebuildIsFirst
  <2>2. e.from = Moment
    OBVIOUS
  <2> HIDE DEF e
  <2> QED BY <1>2, <1>3, <2>1, <2>2, RebuildStays DEF Record
<1> QED BY <1>7, <1>8, <1>9 DEF Record

(* The next event is taken and noted.                                      *)
LEMMA TakenRecorded ==
  ASSUME Types, Record, TakeEvent
  PROVE  Record'
<1> DEFINE note == [of |-> Head(queue), replay |-> InRebuild]
<1>1. /\ queue \in Seq(Event) /\ queue # << >>
      /\ seen \in Nat /\ during \in Nat /\ notes \in Seq([of : Event, replay : BOOLEAN])
  BY DEF Types, TypeOK, TakeEvent, ReadyToTake
<1>2. /\ Len(queue) \in Nat \ {0} /\ Len(queue') = Len(queue) - 1
      /\ DOMAIN queue = 1 .. Len(queue) /\ DOMAIN queue' = 1 .. Len(queue) - 1
      /\ \A i \in 1 .. Len(queue) - 1 : queue'[i] = queue[i + 1]
      /\ event' = queue[1] /\ event' = Head(queue) /\ event' \in Event
  BY <1>1, Taking DEF TakeEvent
<1>3. /\ ~UnderWay /\ UnderWay' /\ ~Handling /\ Handling' = IsAsk(event')
      /\ reader # "unstarted" /\ reader' # "unstarted"
      /\ UNCHANGED <<policy, seen, during, permissions, resolving, verdicts, asks>>
  BY DEF TakeEvent, ReadyToTake, UnderWay, Handling, IsAsk, historyVars
<1>4. Taken = seen /\ Taken' = seen + 1
  BY <1>3 DEF Taken
<1>5. \A i \in DOMAIN queue' : i + 1 \in DOMAIN queue /\ i + 1 # 1 /\ queue'[i] = queue[i + 1]
  BY <1>2
<1>6. 1 \in DOMAIN queue
  BY <1>2
<1>7. AsksAreNew'
  <2>1. \A i \in DOMAIN queue' : IsAsk(queue'[i]) => queue'[i].no \in 1 .. asks'
    BY <1>3, <1>5 DEF Record, AsksAreNew
  <2>2. \A i, j \in DOMAIN queue' :
          IsAsk(queue'[i]) /\ IsAsk(queue'[j]) /\ queue'[i].no = queue'[j].no => i = j
    <3> SUFFICES ASSUME NEW i \in DOMAIN queue', NEW j \in DOMAIN queue',
                        IsAsk(queue'[i]), IsAsk(queue'[j]), queue'[i].no = queue'[j].no
                 PROVE  i = j
      OBVIOUS
    <3>1. i + 1 = j + 1
      BY <1>5 DEF Record, AsksAreNew
    <3> QED BY <3>1, <1>2
  <2>3. Handling' =>
          /\ event'.no \in 1 .. asks'
          /\ \A i \in DOMAIN queue' : IsAsk(queue'[i]) => queue'[i].no # event'.no
    BY <1>2, <1>3, <1>5, <1>6 DEF Record, AsksAreNew
  <2>4. \A k \in DOMAIN permissions' :
          /\ permissions'[k].no \in 1 .. asks'
          /\ \A i \in DOMAIN queue' : IsAsk(queue'[i]) => queue'[i].no # permissions'[k].no
          /\ Handling' => event'.no # permissions'[k].no
    BY <1>2, <1>3, <1>5, <1>6 DEF Record, AsksAreNew
  <2> QED BY <2>1, <2>2, <2>3, <2>4 DEF AsksAreNew
<1>8. PermissionsAreTrue'
  BY <1>3 DEF Record, PermissionsAreTrue
<1>9. RebuildIsFirst'
  <2>1. Taken' + Len(queue') >= during'
    BY <1>1, <1>2, <1>3, <1>4 DEF Record, RebuildIsFirst
  <2>2. ASSUME NEW i \in DOMAIN queue' PROVE Rebuilt(queue[i])' <=> Taken' + i <= during'
    <3>1. Rebuilt(queue[i + 1]) <=> seen + (i + 1) <= during
      BY <1>3, <1>4, <1>5 DEF Record, RebuildIsFirst
    <3>2. seen + (i + 1) <= during <=> Taken' + i <= during'
      BY <1>1, <1>2, <1>3, <1>4
    <3>3. Rebuilt(queue[i])' <=> Rebuilt(queue[i + 1])
      BY <1>3, <1>5 DEF Rebuilt
    <3> QED BY <3>1, <3>2, <3>3
  <2>3. Rebuilt(event)' <=> seen' < during'
    <3>1. Rebuilt(queue[1]) <=> seen + 1 <= during
      BY <1>3, <1>4, <1>6 DEF Record, RebuildIsFirst
    <3>2. seen + 1 <= during <=> seen' < during'
      BY <1>1, <1>3
    <3>3. Rebuilt(event)' <=> Rebuilt(queue[1])
      BY <1>2, <1>3 DEF Rebuilt
    <3> QED BY <3>1, <3>2, <3>3
  <2> QED BY <1>3, <2>1, <2>2, <2>3 DEF RebuildIsFirst
<1>10. note \in [of : Event, replay : BOOLEAN]
  BY <1>2 DEF InRebuild
<1>11. note.of = event' /\ (note.replay <=> Rebuilt(event)')
  <2>1. Rebuilt(queue[1]) <=> seen + 1 <= during
    BY <1>3, <1>4, <1>6 DEF Record, RebuildIsFirst
  <2>2. InRebuild <=> seen + 1 <= during
    BY <1>1 DEF InRebuild
  <2>3. Rebuilt(event)' <=> Rebuilt(queue[1])
    BY <1>2, <1>3 DEF Rebuilt
  <2> QED BY <1>2, <2>1, <2>2, <2>3
<1> HIDE DEF note
<1>12. CASE ~Noted(Head(queue))
  <2>1. notes' = notes /\ ~IsAsk(event')
    BY <1>2, <1>12 DEF TakeEvent, Noted, IsAsk
  <2>2. AsksAreNoted' /\ ReplayIsMarked'
    BY <1>3, <2>1, ReplayStays DEF Record, AsksAreNoted
  <2> QED BY <1>7, <1>8, <1>9, <2>2 DEF Record
<1>13. CASE Noted(Head(queue))
  <2>1. notes' = Append(notes, note)
    BY <1>13 DEF TakeEvent, note
  <2>2. /\ Len(notes) \in Nat
        /\ DOMAIN notes = 1 .. Len(notes) /\ DOMAIN notes' = 1 .. Len(notes) + 1
        /\ \A i \in 1 .. Len(notes) : notes'[i] = notes[i]
        /\ notes'[Len(notes) + 1] = note
    BY <1>1, <1>10, <2>1, Appended
  <2>3. Len(notes) + 1 \in DOMAIN notes'
    BY <2>2
  <2>4. \A j \in DOMAIN notes' :
          (j \in DOMAIN notes /\ notes'[j] = notes[j]) \/ notes'[j] = note
    BY <2>2
  <2>5. \A j \in DOMAIN notes : j \in DOMAIN notes' /\ notes'[j] = notes[j]
    BY <2>2
  <2>6. AsksAreNoted'
    <3>1. Handling' => \E j \in DOMAIN notes' : notes'[j].of = event'
      BY <1>11, <2>2, <2>3
    <3>2. ASSUME NEW j \in DOMAIN notes', IsAsk(notes'[j].of)
          PROVE  \/ Handling' /\ notes'[j].of = event'
                 \/ \E i \in DOMAIN permissions' : permissions'[i].no = notes'[j].of.no
      <4>1. CASE j \in DOMAIN notes /\ notes'[j] = notes[j]
        BY <1>3, <3>2, <4>1 DEF Record, AsksAreNoted
      <4>2. CASE notes'[j] = note
        BY <1>3, <1>11, <3>2, <4>2
      <4> QED BY <2>4, <4>1, <4>2
    <3> QED BY <3>1, <3>2 DEF AsksAreNoted
  <2>7. ReplayIsMarked'
    <3>1. \A j \in DOMAIN notes' : notes'[j].replay <=> Rebuilt(notes[j].of)'
      BY <1>3, <1>11, <2>4 DEF Record, ReplayIsMarked, Rebuilt
    <3>2. ASSUME NEW i \in DOMAIN permissions'
          PROVE  permissions'[i].duringLoad <=>
                   \E j \in DOMAIN notes' : /\ notes'[j].of.kind = "ask" /\ Rebuilt(notes[j].of)'
                                            /\ notes'[j].of.no = permissions'[i].no
      <4>1. event'.kind = "ask" => event'.no # permissions[i].no
        BY <1>2, <1>3, <1>6, <3>2 DEF Record, AsksAreNew, IsAsk
      <4>2. permissions[i].duringLoad <=>
              \E j \in DOMAIN notes : /\ notes[j].of.kind = "ask" /\ Rebuilt(notes[j].of)
                                      /\ notes[j].of.no = permissions[i].no
        BY <1>3, <3>2 DEF Record, ReplayIsMarked
      <4> QED BY <1>3, <1>11, <2>4, <2>5, <4>1, <4>2 DEF Rebuilt
    <3> QED BY <3>1, <3>2 DEF ReplayIsMarked
  <2> QED BY <1>7, <1>8, <1>9, <2>6, <2>7 DEF Record
<1> QED BY <1>12, <1>13

(* The event under way is handled: an approval is recorded and, but for    *)
(* the policy that parks it, resolved as recorded.                         *)
LEMMA HandledRecorded ==
  ASSUME Types, Record, HandleEvent
  PROVE  Record'
<1>1. /\ reader = "handle" /\ UnderWay /\ reader' = "signal" /\ UnderWay' /\ ~Handling'
      /\ UNCHANGED <<policy, queue, notes, event, seen, during, verdicts, asks>>
  BY DEF HandleEvent, UnderWay, Handling, backendVars, historyVars
<1>2. Taken' = Taken
  BY <1>1 DEF Taken
<1>3. RebuildIsFirst'
  BY <1>1, <1>2 DEF Record, RebuildIsFirst, Rebuilt
<1>4. CASE OnTurnEnd \/ OnOther
  <2>1. UNCHANGED <<permissions, resolving>> /\ ~Handling
    BY <1>4 DEF OnTurnEnd, OnOther, Handling
  <2>2. AsksAreNew' /\ PermissionsAreTrue' /\ AsksAreNoted' /\ ReplayIsMarked'
    BY <1>1, <2>1, ReplayStays DEF Record, AsksAreNew, PermissionsAreTrue, AsksAreNoted
  <2> QED BY <1>3, <2>2 DEF Record
<1>5. CASE OnApproval
  <2> DEFINE p == [no |-> event.no, duringLoad |-> InRebuild, answer |-> AnswerTo(InRebuild)]
  <2>1. Handling /\ permissions' = Append(permissions, p) /\ StartResolve(AnswerTo(InRebuild))
    BY <1>1, <1>5 DEF OnApproval, Handling
  <2>2. p \in [no : Nat, duringLoad : BOOLEAN, answer : Answer]
    BY DEF Types, TypeOK, Event, InRebuild, AnswerTo, Answer
  <2>3. permissions \in Seq([no : Nat, duringLoad : BOOLEAN, answer : Answer])
    BY DEF Types, TypeOK
  <2>4. p.no = event.no /\ (p.duringLoad <=> Rebuilt(event)) /\ p.answer = AnswerTo(InRebuild)
    BY <1>1 DEF InRebuild, Record, RebuildIsFirst
  <2> HIDE DEF p
  <2>5. /\ Len(permissions) \in Nat
        /\ DOMAIN permissions = 1 .. Len(permissions)
        /\ DOMAIN permissions' = 1 .. Len(permissions) + 1
        /\ \A i \in 1 .. Len(permissions) : permissions'[i] = permissions[i]
        /\ permissions'[Len(permissions) + 1] = p
    BY <2>1, <2>2, <2>3, Appended
  <2> DEFINE last == Len(permissions) + 1
  <2>6. last \in DOMAIN permissions' /\ permissions'[last] = p
    BY <2>5
  <2>7. \A k \in DOMAIN permissions' :
          (k \in DOMAIN permissions /\ permissions'[k] = permissions[k]) \/ k = last
    BY <2>5
  <2>8. \A k \in DOMAIN permissions : k \in DOMAIN permissions' /\ permissions'[k] = permissions[k]
    BY <2>5
  <2> HIDE DEF last
  <2>9. \A k \in DOMAIN permissions : permissions[k].no # event.no
    BY <2>1 DEF Record, AsksAreNew
  <2>10. AsksAreNew'
    BY <1>1, <2>1, <2>4, <2>6, <2>7 DEF Record, AsksAreNew
  <2>11. PermissionsAreTrue'
    <3>1. \A i, j \in DOMAIN permissions' : permissions'[i].no = permissions'[j].no => i = j
      BY <2>4, <2>6, <2>7, <2>9 DEF Record, PermissionsAreTrue
    <3>2. \A v \in resolving' \cup verdicts' :
            v \in resolving \cup verdicts \/ (v.no = p.no /\ v.answer = p.answer)
      BY <1>1, <2>1, <2>4 DEF StartResolve
    <3>3. \A v \in resolving' \cup verdicts' :
            \E i \in DOMAIN permissions' :
              permissions'[i].no = v.no /\ permissions'[i].answer = v.answer
      BY <2>6, <2>8, <3>2 DEF Record, PermissionsAreTrue
    <3> QED BY <3>1, <3>3 DEF PermissionsAreTrue
  <2>12. AsksAreNoted'
    BY <1>1, <2>4, <2>6, <2>8 DEF Record, AsksAreNoted
  <2>13. ReplayIsMarked'
    <3>1. PICK n \in DOMAIN notes : notes[n].of = event
      BY <2>1 DEF Record, AsksAreNoted
    <3>2. event.kind = "ask"
      BY <2>1 DEF Handling
    <3>3. \A j \in DOMAIN notes :
            notes[j].of.kind = "ask" /\ notes[j].of.no = event.no => notes[j].of = event
      BY <2>9 DEF Record, AsksAreNoted, IsAsk
    <3>4. p.duringLoad <=>
            \E j \in DOMAIN notes : /\ notes[j].of.kind = "ask" /\ Rebuilt(notes[j].of)
                                    /\ notes[j].of.no = p.no
      BY <2>4, <3>1, <3>2, <3>3
    <3>5. \A i \in DOMAIN permissions' :
            permissions'[i].duringLoad <=>
              \E j \in DOMAIN notes : /\ notes[j].of.kind = "ask" /\ Rebuilt(notes[j].of)
                                      /\ notes[j].of.no = permissions'[i].no
      BY <2>6, <2>7, <3>4 DEF Record, ReplayIsMarked
    <3> QED BY <1>1, <3>5 DEF Record, ReplayIsMarked, Rebuilt
  <2> QED BY <1>3, <2>10, <2>11, <2>12, <2>13 DEF Record
<1> QED BY <1>4, <1>5 DEF HandleEvent

LEMMA RecordStep ==
  ASSUME Types, Record, Next
  PROVE  Record'
<1>1. ASSUME NEW r \in resolving, Resolve(r) PROVE Record'
  <2> DEFINE e == [kind |-> "resolved", no |-> r.no, from |-> "run"]
  <2>1. r.no \in Nat
    BY DEF Types, TypeOK
  <2>2. e \in Event /\ ~IsAsk(e) /\ e.from = Moment
    <3>1. reader # "unstarted"
      BY DEF Record, RebuildIsFirst
    <3> QED BY <2>1, <3>1 DEF Event, Kind, IsAsk, Moment
  <2> HIDE DEF e
  <2>3. UNCHANGED <<policy, reader, event, seen, during, notes, permissions, asks>>
    BY <1>1 DEF Resolve, driverVars
  <2>4. resolving' \subseteq resolving /\ verdicts' \subseteq resolving \cup verdicts
    BY <1>1 DEF Resolve
  <2>5. CASE queue' = Append(queue, e)
    BY <2>2, <2>3, <2>4, <2>5, NoAskEmitted
  <2>6. CASE queue' = queue
    BY <2>3, <2>4, <2>6, ReplayStays DEF Record, AsksAreNew, PermissionsAreTrue, RebuildIsFirst,
       Rebuilt, AsksAreNoted, Handling, Taken, UnderWay
  <2> QED BY <1>1, <2>5, <2>6 DEF Resolve, e
<1>2. CASE EmitDelta \/ EndTurn
  <2>1. PICK kind \in {"delta", "turn", "error"} : Emit(kind, running)
    BY <1>2 DEF EmitDelta, EndTurn
  <2> DEFINE e == [kind |-> kind, no |-> running, from |-> Moment]
  <2>2. running \in Nat
    BY DEF Types, TypeOK
  <2>3. e \in Event /\ ~IsAsk(e) /\ e.from = Moment /\ queue' = Append(queue, e)
    BY <2>1, <2>2 DEF Event, Kind, IsAsk, Emit, Moment
  <2> HIDE DEF e
  <2>4. UNCHANGED <<policy, reader, event, seen, during, notes, permissions, asks, resolving, verdicts>>
    BY <1>2 DEF EmitDelta, EndTurn, driverVars, readerVars, historyVars
  <2> QED BY <2>3, <2>4, NoAskEmitted
<1> QED BY <1>1, <1>2, StartRecorded, RunnerLeavesRecord, ReaderMoves, AskRecorded, TakenRecorded,
     HandledRecorded DEF Next, Reader, Backend

---------------------------------------------------------------------------
(* Parking.                                                                *)
Awaited ==
  /\ \A i \in DOMAIN queue : IsAsk(queue[i]) => queue[i].no \in asking
  /\ reader \in {"handle", "signal"} /\ event.kind = "ask" => event.no \in asking

LEMMA AwaitedStep ==
  ASSUME Types, Parking, Next, policy.park, live'
  PROVE  Awaited'
<1>0. queue \in Seq(Event) /\ resolving = {}
  BY DEF Types, TypeOK, Parking
<1>1. live
  BY DEF Next, Reader, Runner, Start, Waiting, Backend, TakeEvent, HandleEvent, Signal, WakeUpdates,
     EndRead, Resolve, BeginPrompt, HandOver, WaitAnswered, WaitParked, CheckAnswered, Look,
     TakeTurnOver, TakeParked, SeeDone, Deadline, EndSession, EmitDelta, Ask, EndTurn, Serve, Exit,
     backendVars
<1>2. Awaited
  BY <1>1 DEF Parking, Awaited
<1>3. CASE TakeEvent
  <2>1. /\ Len(queue) \in Nat \ {0} /\ DOMAIN queue = 1 .. Len(queue)
        /\ DOMAIN queue' = 1 .. Len(queue) - 1
        /\ \A i \in 1 .. Len(queue) - 1 : queue'[i] = queue[i + 1]
        /\ event' = queue[1] /\ asking' = asking
    BY <1>0, <1>3, Taking DEF TakeEvent, ReadyToTake
  <2>2. \A i \in DOMAIN queue' : i + 1 \in DOMAIN queue /\ queue'[i] = queue[i + 1]
    BY <2>1
  <2>3. 1 \in DOMAIN queue
    BY <2>1
  <2> QED BY <1>2, <2>1, <2>2, <2>3 DEF Awaited, IsAsk
<1>4. CASE HandleEvent \/ Signal
  BY <1>2, <1>4 DEF HandleEvent, Signal, Awaited, backendVars
<1>5. CASE WakeUpdates \/ EndRead
  BY <1>2, <1>5 DEF WakeUpdates, EndRead, Awaited, backendVars
<1>6. ASSUME NEW kind \in Kind, NEW no \in Nat, Emit(kind, no),
             UNCHANGED <<reader, event>>, asking \subseteq asking',
             kind = "ask" => no \in asking'
      PROVE  Awaited'
  <2> DEFINE e == [kind |-> kind, no |-> no, from |-> Moment]
  <2>1. e \in Event /\ e.kind = kind /\ e.no = no /\ queue' = Append(queue, e)
    BY <1>6 DEF Emit, Event, Moment
  <2> HIDE DEF e
  <2>2. /\ DOMAIN queue = 1 .. Len(queue) /\ DOMAIN queue' = 1 .. Len(queue) + 1
        /\ \A i \in 1 .. Len(queue) : queue'[i] = queue[i]
        /\ queue'[Len(queue) + 1] = e /\ Len(queue) \in Nat
    BY <1>0, <2>1, Appended
  <2>3. \A i \in DOMAIN queue' : (i \in DOMAIN queue /\ queue'[i] = queue[i]) \/ queue'[i] = e
    BY <2>2
  <2> QED BY <1>2, <1>6, <2>1, <2>3 DEF Awaited, IsAsk
<1>7. CASE EmitDelta \/ EndTurn
  <2>1. PICK kind \in {"delta", "turn", "error"} : Emit(kind, running)
    BY <1>7 DEF EmitDelta, EndTurn
  <2>2. running \in Nat /\ UNCHANGED <<reader, event, asking>>
    BY <1>7 DEF Types, TypeOK, EmitDelta, EndTurn, readerVars
  <2>3. kind \in Kind /\ kind # "ask"
    BY DEF Kind
  <2> QED BY <1>6, <2>1, <2>2, <2>3
<1>8. CASE Ask
  <2>1. asks + 1 \in Nat /\ UNCHANGED <<reader, event>> /\ asking' = asking \cup {asks + 1}
    BY <1>8 DEF Types, TypeOK, Ask, readerVars
  <2>2. Emit("ask", asks + 1) /\ "ask" \in Kind
    BY <1>8 DEF Ask, Kind
  <2> QED BY <1>6, <2>1, <2>2
<1>10. CASE Start
  BY <1>2, <1>10 DEF Start, Awaited, backendVars
<1>9. CASE (Runner /\ ~Start) \/ Serve \/ Exit
  <2>1. UNCHANGED <<queue, reader, event, asking>>
    BY <1>9 DEF Runner, Waiting, BeginPrompt, HandOver, WaitAnswered, WaitParked, CheckAnswered,
       Look, TakeTurnOver, TakeParked, SeeDone, Deadline, EndSession, Serve, Exit, readerVars,
       backendVars
  <2> QED BY <1>2, <2>1 DEF Awaited
<1> QED BY <1>0, <1>3, <1>4, <1>5, <1>7, <1>8, <1>9, <1>10 DEF Next, Reader, Backend

(* What a parked approval is waited on by: nobody answers it, so only the  *)
(* end of the session takes it from the agent.                             *)
LEMMA AskingStays ==
  ASSUME Parking, Next, policy.park, live', asking # {}
  PROVE  live /\ asking' # {}
  BY DEF Parking, Next, Reader, Runner, Start, Waiting, Backend, TakeEvent, HandleEvent, Signal,
     WakeUpdates, EndRead, Resolve, BeginPrompt, HandOver, WaitAnswered, WaitParked, CheckAnswered,
     Look, TakeTurnOver, TakeParked, SeeDone, Deadline, EndSession, EmitDelta, Ask, EndTurn, Serve,
     Exit, backendVars

LEMMA ParkingStep ==
  ASSUME Types, Parking, Next
  PROVE  Parking'
<1>1. policy' = policy
  BY DEF Next, Reader, Runner, Start, Waiting, Backend, TakeEvent, HandleEvent, Signal, WakeUpdates,
     EndRead, Resolve, BeginPrompt, HandOver, WaitAnswered, WaitParked, CheckAnswered, Look,
     TakeTurnOver, TakeParked, SeeDone, Deadline, EndSession, EmitDelta, Ask, EndTurn, Serve, Exit,
     driverVars
<1>2. live' => live
  BY DEF Next, Reader, Runner, Start, Waiting, Backend, TakeEvent, HandleEvent, Signal, WakeUpdates,
     EndRead, Resolve, BeginPrompt, HandOver, WaitAnswered, WaitParked, CheckAnswered, Look,
     TakeTurnOver, TakeParked, SeeDone, Deadline, EndSession, EmitDelta, Ask, EndTurn, Serve, Exit,
     backendVars
<1>3. policy.park => resolving' = {}
  <2> SUFFICES ASSUME policy.park PROVE resolving' = {}
    OBVIOUS
  <2>1. resolving = {}
    BY DEF Parking
  <2>2. CASE HandleEvent
    <3>1. AnswerTo(InRebuild) = "parked"
      BY DEF AnswerTo
    <3> QED BY <2>1, <2>2, <3>1 DEF HandleEvent, OnApproval, OnTurnEnd, OnOther, StartResolve
  <2>3. ~HandleEvent => resolving' = resolving
    BY <2>1 DEF Next, Reader, Runner, Start, Waiting, Backend, TakeEvent, Signal, WakeUpdates, EndRead,
       BeginPrompt, HandOver, WaitAnswered, WaitParked, CheckAnswered, Look, TakeTurnOver,
       TakeParked, SeeDone, Deadline, EndSession, EmitDelta, Ask, EndTurn, Serve, Exit, readerVars
  <2> QED BY <2>1, <2>2, <2>3
<1>4. parked' => parked \/ (reader = "signal" /\ event.kind = "ask" /\ policy.park /\ Signal)
  BY DEF Next, Reader, Runner, Start, Waiting, Backend, TakeEvent, HandleEvent, Signal, WakeUpdates,
     EndRead, Resolve, BeginPrompt, HandOver, WaitAnswered, WaitParked, CheckAnswered, Look,
     TakeTurnOver, TakeParked, SeeDone, Deadline, EndSession, EmitDelta, Ask, EndTurn, Serve, Exit,
     driverVars
<1>5. why' = "parked" => why = "parked" \/ parked
  BY DEF Next, Reader, Runner, Start, Waiting, Backend, TakeEvent, HandleEvent, Signal, WakeUpdates,
     EndRead, Resolve, BeginPrompt, HandOver, WaitAnswered, WaitParked, CheckAnswered, Look,
     TakeTurnOver, TakeParked, SeeDone, Deadline, EndSession, EmitDelta, Ask, EndTurn, Serve, Exit,
     runnerVars, Return
<1>6. parked' => policy.park /\ (live' => asking' # {})
  <2> SUFFICES ASSUME parked' PROVE policy.park /\ (live' => asking' # {})
    OBVIOUS
  <2>1. policy.park
    BY <1>4 DEF Parking
  <2>2. live' => asking # {}
    BY <1>2, <1>4 DEF Parking
  <2> QED BY <2>1, <2>2, AskingStays
<1>7. why' = "parked" => policy.park /\ (live' => asking' # {})
  <2> SUFFICES ASSUME why' = "parked" PROVE policy.park /\ (live' => asking' # {})
    OBVIOUS
  <2>1. policy.park /\ (live' => asking # {})
    BY <1>2, <1>5 DEF Parking
  <2> QED BY <2>1, AskingStays
<1> QED BY <1>1, <1>3, <1>6, <1>7, AwaitedStep DEF Parking, Awaited

---------------------------------------------------------------------------
LEMMA StepInv == IInv /\ [Next]_vars => IInv'
<1> SUFFICES ASSUME IInv, [Next]_vars PROVE IInv'
  OBVIOUS
<1>1. CASE Next
  <2>1. Record'
    BY <1>1, RecordStep DEF IInv, Record
  <2> QED BY <1>1, <2>1, TypesStep, ParkingStep DEF IInv, Record
<1>2. CASE UNCHANGED vars
  BY <1>2 DEF vars, driverVars, readerVars, runnerVars, backendVars, historyVars, IInv, Types,
     TypeOK, AsksAreNew, PermissionsAreTrue, RebuildIsFirst, Rebuilt, AsksAreNoted, ReplayIsMarked,
     Parking, Handling, Taken, UnderWay
<1> QED BY <1>1, <1>2

THEOREM Invariance == Spec => []IInv
<1> QED BY InitInv, StepInv, PTL DEF Spec

(* Every variable keeps to its domain; in particular nothing is resolved   *)
(* with an answer the runner does not know.                                *)
THEOREM TypeCorrect == Spec => []TypeOK
<1>1. IInv => TypeOK
  BY DEF IInv, Types
<1> QED BY <1>1, Invariance, PTL

(* onApproval and Resolve: an approval is recorded once and answered as    *)
(* recorded, whatever was raised while the session was rebuilt.            *)
THEOREM PermissionsTrue == Spec => []PermissionsAreTrue
<1>1. IInv => PermissionsAreTrue
  BY DEF IInv
<1> QED BY <1>1, Invariance, PTL

(* The rebuild of a resumed session ends with the last event queued when   *)
(* Start counted, whatever the load and the gap after it left in the       *)
(* channel: the read loop's own count tells what was queued then from what *)
(* came later.  An event of the gap counts as replayed, which the comments *)
(* deny (the run session_replay).                                          *)
THEOREM ReplayMarked == Spec => []ReplayIsMarked
<1>1. IInv => ReplayIsMarked
  BY DEF IInv
<1> QED BY <1>1, Invariance, PTL

(* ParkPermission: once WaitParked has returned, a session still alive has *)
(* a call in flight.                                                       *)
THEOREM ParkedHeld == Spec => []ParkedIsHeld
<1>1. IInv => ParkedIsHeld
  BY DEF IInv, Parking, ParkedIsHeld
<1> QED BY <1>1, Invariance, PTL

---------------------------------------------------------------------------
(* The end of a turn, on its way to the waiting runner: an event, the      *)
(* flag or a token says that a turn ended only if one did.                 *)
IsEnd(e) == e.kind \in {"turn", "error"}

EndsAreTrue ==
  /\ running # 0 => running \in 1 .. turn
  /\ ended \subseteq 1 .. turn
  /\ \A i \in DOMAIN queue : IsEnd(queue[i]) => ended # {}
  /\ reader \in {"handle", "signal"} /\ IsEnd(event) => ended # {}
  /\ turnEnded \/ turnOver => ended # {}

(* A wait is for a turn that was prompted, and it looked at the count.     *)
WaitsAreTrue ==
  /\ reader = "unstarted" => runner = "start" /\ why = "none"
  /\ runner \in {"sent", "check", "select", "parkwait"} => turn >= 1
  /\ why = "answered" => turn >= 1 /\ ended # {}
  /\ why = "answered" /\ runner = "idle" => served > after

LEMMA InitEnds == Init => EndsAreTrue /\ WaitsAreTrue
<1> SUFFICES ASSUME Init PROVE EndsAreTrue /\ WaitsAreTrue
  OBVIOUS
<1>1. \A i \in DOMAIN queue : ~IsEnd(queue[i])
  BY InitEvents DEF IsEnd
<1> QED BY <1>1 DEF Init, EndsAreTrue, WaitsAreTrue

LEMMA EndsStep ==
  ASSUME Types, EndsAreTrue, Next
  PROVE  EndsAreTrue'
<1>0. queue \in Seq(Event) /\ turn \in Nat /\ running \in Nat
  BY DEF Types, TypeOK
<1> USE DEF EndsAreTrue
<1>1. CASE TakeEvent
  <2>1. queue # << >> /\ event' = Head(queue) /\ queue' = Tail(queue)
        /\ UNCHANGED <<turnEnded, turnOver, turn, running, ended>>
    BY <1>1 DEF TakeEvent, ReadyToTake, runnerVars, historyVars
  <2>2. IsEnd(event') => ended # {}
    <3>1. 1 \in DOMAIN queue /\ Head(queue) = queue[1]
      BY <1>0, <2>1
    <3> QED BY <2>1, <3>1
  <2>3. \A i \in DOMAIN queue' : IsEnd(queue'[i]) => ended # {}
    <3>1. \A i \in DOMAIN queue' : i + 1 \in DOMAIN queue /\ queue'[i] = queue[i + 1]
      BY <1>0, <2>1
    <3> QED BY <3>1
  <2> QED BY <2>1, <2>2, <2>3
<1>2. CASE HandleEvent
  <2>1. reader = "handle" /\ reader' = "signal" /\ UNCHANGED <<turnOver, event, turn, queue, running, ended>>
    BY <1>2 DEF HandleEvent, runnerVars, backendVars, historyVars
  <2>2. turnEnded' => turnEnded \/ IsEnd(event)
    BY <1>2 DEF HandleEvent, OnApproval, OnTurnEnd, OnOther, IsEnd
  <2>3. IsEnd(event) => ended # {}
    BY <2>1
  <2>4. turnEnded' \/ turnOver' => ended' # {}
    BY <2>1, <2>2, <2>3
  <2> QED BY <2>1, <2>3, <2>4
<1>3. CASE Signal
  <2>1. reader = "signal" /\ (turnOver' => turnOver \/ IsEnd(event)) /\ reader' = "wake"
        /\ UNCHANGED <<turnEnded, event, turn, queue, running, ended>>
    BY <1>3 DEF Signal, IsEnd, runnerVars, backendVars, historyVars
  <2> QED BY <2>1
<1>4. CASE WakeUpdates \/ EndRead
  <2>1. reader' \in {"take", "over"} /\ UNCHANGED <<turnEnded, turnOver, turn, queue, running, ended>>
    BY <1>4 DEF WakeUpdates, EndRead, runnerVars, backendVars, historyVars
  <2> QED BY <2>1
<1>5. ASSUME NEW e \in Event, queue' = queue \/ queue' = Append(queue, e), IsEnd(e) => ended' # {},
             ended \subseteq ended', ended' \subseteq 1 .. turn, running' \in {0, running},
             UNCHANGED <<reader, event, turnEnded, turnOver, turn>>
      PROVE  EndsAreTrue'
  <2>1. \A i \in DOMAIN queue' : IsEnd(queue'[i]) => ended' # {}
    <3>1. CASE queue' = queue
      BY <1>5, <3>1
    <3>2. CASE queue' = Append(queue, e)
      <4>1. \A i \in DOMAIN queue' : queue'[i] = e \/ (i \in DOMAIN queue /\ queue'[i] = queue[i])
        BY <1>0, <3>2
      <4> QED BY <1>5, <4>1
    <3> QED BY <1>5, <3>1, <3>2
  <2>2. running' # 0 => running' \in 1 .. turn'
    BY <1>5
  <2> QED BY <1>5, <2>1, <2>2
<1>6. ASSUME NEW r \in resolving, Resolve(r) PROVE EndsAreTrue'
  <2> DEFINE e == [kind |-> "resolved", no |-> r.no, from |-> "run"]
  <2>1. e \in Event /\ ~IsEnd(e)
    <3>1. r.no \in Nat
      BY DEF Types, TypeOK
    <3> QED BY <3>1 DEF Event, Kind, IsEnd
  <2>2. queue' = queue \/ queue' = Append(queue, e)
    BY <1>6 DEF Resolve
  <2>3. UNCHANGED <<reader, event, turnEnded, turnOver, turn, running, ended>>
    BY <1>6 DEF Resolve, driverVars, runnerVars
  <2> HIDE DEF e
  <2> QED BY <1>5, <2>1, <2>2, <2>3
<1>7. CASE EmitDelta \/ Ask
  <2>1. UNCHANGED <<reader, event, turnEnded, turnOver, turn, running, ended>>
    BY <1>7 DEF EmitDelta, Ask, driverVars, readerVars, runnerVars, historyVars
  <2>2. PICK e \in Event : queue' = Append(queue, e) /\ ~IsEnd(e)
    <3>1. ASSUME NEW kind \in {"delta", "ask"}, NEW no \in Nat, Emit(kind, no)
          PROVE  \E e \in Event : queue' = Append(queue, e) /\ ~IsEnd(e)
      <4> DEFINE e == [kind |-> kind, no |-> no, from |-> Moment]
      <4>1. e \in Event /\ ~IsEnd(e) /\ queue' = Append(queue, e)
        BY <3>1 DEF Event, Kind, IsEnd, Emit, Moment
      <4> QED BY <4>1
    <3>2. asks + 1 \in Nat
      BY DEF Types, TypeOK
    <3> QED BY <1>0, <1>7, <3>1, <3>2 DEF EmitDelta, Ask
  <2> QED BY <1>5, <2>1, <2>2
<1>8. CASE EndTurn
  <2>1. running # 0 /\ ended' = ended \cup {running} /\ running' = 0
        /\ UNCHANGED <<reader, event, turnEnded, turnOver, turn>>
    BY <1>8 DEF EndTurn, driverVars, readerVars, runnerVars
  <2>2. PICK e \in Event : queue' = Append(queue, e)
    <3>1. PICK kind \in {"turn", "error"} : Emit(kind, running)
      BY <1>8 DEF EndTurn
    <3> DEFINE e == [kind |-> kind, no |-> running, from |-> Moment]
    <3>2. e \in Event /\ queue' = Append(queue, e)
      BY <1>0, <3>1 DEF Event, Kind, Emit, Moment
    <3> QED BY <3>2
  <2> QED BY <1>5, <2>1, <2>2
<1>9. CASE HandOver
  <2>1. turn' = turn + 1 /\ running' \in {running, turn + 1}
        /\ UNCHANGED <<reader, event, turnEnded, turnOver, queue, ended>>
    BY <1>9 DEF HandOver, driverVars, readerVars, historyVars
  <2>2. ended \subseteq 1 .. turn + 1 /\ (running' # 0 => running' \in 1 .. turn + 1)
    BY <1>0, <2>1
  <2> QED BY <2>1, <2>2
<1>10. CASE BeginPrompt \/ WaitAnswered \/ WaitParked \/ Waiting \/ Deadline
  <2>1. UNCHANGED <<reader, event, turn, queue, running, ended>>
    BY <1>10 DEF BeginPrompt, WaitAnswered, WaitParked, Waiting, CheckAnswered, Look, TakeTurnOver,
       SeeDone, TakeParked, Deadline, readerVars, runnerVars, backendVars, historyVars
  <2>2. turnEnded' => turnEnded
    BY <1>10 DEF BeginPrompt, WaitAnswered, WaitParked, Waiting, CheckAnswered, Look, TakeTurnOver,
       SeeDone, TakeParked, Deadline, driverVars
  <2>3. turnOver' => turnOver
    BY <1>10 DEF BeginPrompt, WaitAnswered, WaitParked, Waiting, CheckAnswered, Look, TakeTurnOver,
       SeeDone, TakeParked, Deadline, driverVars
  <2> QED BY <2>1, <2>2, <2>3
<1>12. CASE Start
  BY <1>12 DEF Start, driverVars, backendVars, historyVars
<1>11. CASE EndSession \/ Serve \/ Exit
  <2>1. running' \in {0, running} /\ UNCHANGED <<turnEnded, turnOver, reader, event, turn, queue, ended>>
    BY <1>11 DEF EndSession, Serve, Exit, driverVars, readerVars, runnerVars, historyVars
  <2> QED BY <2>1
<1> QED BY <1>1, <1>2, <1>3, <1>4, <1>6, <1>7, <1>8, <1>9, <1>10, <1>11, <1>12
     DEF Next, Reader, Runner, Backend

LEMMA WaitsStep ==
  ASSUME Types, EndsAreTrue, WaitsAreTrue, Next
  PROVE  WaitsAreTrue'
<1>0. turn \in Nat /\ served \in Nat /\ after \in Nat \cup {-1}
  BY DEF Types, TypeOK
<1>1. ended \subseteq ended' /\ served' \in {served, served + 1} /\ turn' \in {turn, turn + 1}
  BY DEF Next, Reader, Runner, Start, Waiting, Backend, TakeEvent, HandleEvent, Signal, WakeUpdates,
     EndRead, Resolve, BeginPrompt, HandOver, WaitAnswered, WaitParked, CheckAnswered, Look,
     TakeTurnOver, TakeParked, SeeDone, Deadline, EndSession, EmitDelta, Ask, EndTurn, Serve, Exit,
     runnerVars, backendVars, historyVars
<1>2. CASE Reader \/ Backend
  <2>1. UNCHANGED <<runner, after, why, turn>>
    BY <1>2 DEF Reader, Backend, TakeEvent, HandleEvent, Signal, WakeUpdates, EndRead, Resolve,
       EmitDelta, Ask, EndTurn, Serve, Exit, runnerVars
  <2>2. served > after => served' > after
    BY <1>0, <1>1
  <2>3. reader' = "unstarted" => reader = "unstarted"
    BY <1>2 DEF Reader, Backend, TakeEvent, HandleEvent, Signal, WakeUpdates, EndRead, Resolve,
       EmitDelta, Ask, EndTurn, Serve, Exit, readerVars
  <2> QED BY <1>1, <2>1, <2>2, <2>3 DEF WaitsAreTrue
<1>9. BeginPrompt \/ HandOver \/ WaitAnswered \/ WaitParked \/ Waiting \/ Deadline \/ EndSession
        => reader' # "unstarted"
  BY DEF Waiting, BeginPrompt, HandOver, WaitAnswered, WaitParked, CheckAnswered, Look,
     TakeTurnOver, TakeParked, SeeDone, Deadline, EndSession, readerVars, WaitsAreTrue
<1>8. CASE Start
  <2>1. why' = "none" /\ runner' = "idle" /\ reader' # "unstarted"
    BY <1>8 DEF Start, WaitsAreTrue
  <2> QED BY <2>1 DEF WaitsAreTrue
<1>3. CASE BeginPrompt \/ EndSession
  <2>1. runner' \in {"prompt", "closed"} /\ UNCHANGED <<why, turn>>
    BY <1>3 DEF BeginPrompt, EndSession
  <2>3. reader' # "unstarted"
    BY <1>3, <1>9 DEF Waiting
  <2> QED BY <1>1, <2>1, <2>3 DEF WaitsAreTrue
<1>4. CASE HandOver
  <2>1. runner' = "sent" /\ turn' >= 1 /\ why' = why
    BY <1>0, <1>4 DEF HandOver
  <2>3. reader' # "unstarted"
    BY <1>4, <1>9 DEF Waiting
  <2> QED BY <1>1, <2>1, <2>3 DEF WaitsAreTrue
<1>5. CASE WaitAnswered \/ WaitParked \/ Look
  <2>1. runner' # "idle" /\ runner \in {"sent", "select"} /\ UNCHANGED <<why, turn>>
    BY <1>5 DEF WaitAnswered, WaitParked, Look, runnerVars
  <2>3. reader' # "unstarted"
    BY <1>5, <1>9 DEF Waiting
  <2> QED BY <1>1, <2>1, <2>3 DEF WaitsAreTrue
<1>6. CASE SeeDone \/ Deadline \/ TakeParked
  <2>1. why' \in {"done", "deadline", "parked"} /\ runner' = "idle"
    BY <1>6 DEF SeeDone, Deadline, TakeParked, Return
  <2>3. reader' # "unstarted"
    BY <1>6, <1>9 DEF Waiting
  <2> QED BY <2>1, <2>3 DEF WaitsAreTrue
<1>7. CASE CheckAnswered \/ TakeTurnOver
  <2>1. runner \in {"check", "select"} /\ UNCHANGED <<after, turn, served, ended>>
    BY <1>7 DEF CheckAnswered, TakeTurnOver, backendVars, historyVars
  <2>2. \/ served > after /\ (turnEnded \/ turnOver) /\ why' = "answered" /\ runner' = "idle"
        \/ runner' \in {"select", "check"} /\ why' = why
    BY <1>7 DEF CheckAnswered, TakeTurnOver, Answered, Enough, Return
  <2>3. reader' # "unstarted"
    BY <1>7, <1>9 DEF Waiting
  <2> QED BY <2>1, <2>2, <2>3 DEF EndsAreTrue, WaitsAreTrue
<1> QED BY <1>2, <1>3, <1>4, <1>5, <1>6, <1>7, <1>8 DEF Next, Runner, Waiting

(* WaitAnswered after the first prompt of a session: it returns without an *)
(* error only once that prompt's turn has ended and was answered, whatever *)
(* the load replayed and whichever wakeups were dropped.  From the second  *)
(* prompt on a token of the turn before may end it (the run session_stale). *)
THEOREM FirstWaitIsForItsTurn == Spec => [](turn <= 1 => WaitedForTurn)
<1>1. Init => EndsAreTrue /\ WaitsAreTrue
  BY InitEnds
<1>2. IInv /\ EndsAreTrue /\ WaitsAreTrue /\ [Next]_vars => EndsAreTrue' /\ WaitsAreTrue'
  <2> SUFFICES ASSUME IInv, EndsAreTrue, WaitsAreTrue, [Next]_vars PROVE EndsAreTrue' /\ WaitsAreTrue'
    OBVIOUS
  <2>1. CASE Next
    BY <2>1, EndsStep, WaitsStep DEF IInv
  <2>2. CASE UNCHANGED vars
    BY <2>2 DEF vars, driverVars, readerVars, runnerVars, backendVars, historyVars, EndsAreTrue, WaitsAreTrue
  <2> QED BY <2>1, <2>2
<1>3. IInv /\ EndsAreTrue /\ WaitsAreTrue => (turn <= 1 => WaitedForTurn)
  <2> SUFFICES ASSUME IInv, EndsAreTrue, WaitsAreTrue, turn <= 1, why = "answered", runner = "idle"
               PROVE  turn \in ended /\ served > after
    BY DEF WaitedForTurn
  <2>1. turn = 1 /\ ended # {} /\ served > after
    BY DEF WaitsAreTrue, IInv, Types, TypeOK
  <2>2. ended \subseteq {1}
    BY <2>1 DEF EndsAreTrue
  <2> QED BY <2>1, <2>2
<1> QED BY <1>1, <1>2, <1>3, Invariance, PTL DEF Spec

---------------------------------------------------------------------------
(* The end of the turn prompted last is recorded, or on its way to be: in  *)
(* the channel, or taken and not yet handled.                              *)
IsEndOf(e, n) == IsEnd(e) /\ e.no = n
Coming(n) ==
  \/ reader = "handle" /\ IsEndOf(event, n)
  \/ \E i \in DOMAIN queue : IsEndOf(queue[i], n)
EndKept == runner # "prompt" /\ turn \in ended => turnEnded \/ Coming(turn)

(* Whoever adds an event to the channel at most loses none.                *)
LEMMA Queued ==
  ASSUME Types, NEW e \in Event, queue' = queue \/ queue' = Append(queue, e),
         NEW n, Coming(n), UNCHANGED <<reader, event>>
  PROVE  Coming(n)'
<1>1. queue \in Seq(Event)
  BY DEF Types, TypeOK
<1>2. \A i \in DOMAIN queue : i \in DOMAIN queue' /\ queue'[i] = queue[i]
  BY <1>1
<1> QED BY <1>2 DEF Coming

LEMMA EndKeptStep ==
  ASSUME Types, EndsAreTrue, EndKept, Next
  PROVE  EndKept'
<1>0. queue \in Seq(Event) /\ turn \in Nat /\ running \in Nat
  BY DEF Types, TypeOK
<1> USE DEF EndKept
<1>1. CASE TakeEvent
  <2>1. /\ queue # << >> /\ event' = Head(queue) /\ queue' = Tail(queue) /\ reader' = "handle"
        /\ reader = "take" /\ UNCHANGED <<runner, turnEnded, turn, ended>>
    BY <1>1 DEF TakeEvent, ReadyToTake, runnerVars, historyVars
  <2>2. ASSUME NEW i \in DOMAIN queue
        PROVE  queue[i] = event' \/ \E j \in DOMAIN queue' : queue'[j] = queue[i]
    <3>1. CASE i = 1
      BY <1>0, <2>1, <3>1
    <3>2. CASE i # 1
      <4>1. i - 1 \in DOMAIN queue' /\ queue'[i - 1] = queue[i]
        BY <1>0, <2>1, <3>2
      <4> QED BY <4>1
    <3> QED BY <3>1, <3>2
  <2>3. Coming(turn) => Coming(turn)'
    BY <2>1, <2>2 DEF Coming
  <2> QED BY <2>1, <2>3
<1>2. CASE HandleEvent
  <2>1. reader = "handle" /\ reader' = "signal" /\ UNCHANGED <<runner, event, turn, queue, ended>>
    BY <1>2 DEF HandleEvent, runnerVars, backendVars, historyVars
  <2>2. turnEnded' = (turnEnded \/ IsEnd(event))
    BY <1>2 DEF HandleEvent, OnApproval, OnTurnEnd, OnOther, IsEnd, Types, TypeOK
  <2> QED BY <2>1, <2>2 DEF Coming, IsEndOf
<1>3. CASE Signal \/ WakeUpdates \/ EndRead
  <2>1. reader # "handle" /\ UNCHANGED <<runner, turnEnded, turn, queue, ended>>
    BY <1>3 DEF Signal, WakeUpdates, EndRead, runnerVars, backendVars, historyVars
  <2> QED BY <2>1 DEF Coming
<1>4. ASSUME NEW r \in resolving, Resolve(r) PROVE EndKept'
  <2> DEFINE e == [kind |-> "resolved", no |-> r.no, from |-> "run"]
  <2>1. e \in Event
    BY DEF Types, TypeOK, Event, Kind
  <2>2. queue' = queue \/ queue' = Append(queue, e)
    BY <1>4 DEF Resolve
  <2>3. UNCHANGED <<runner, reader, event, turnEnded, turn, ended>>
    BY <1>4 DEF Resolve, driverVars, runnerVars
  <2> HIDE DEF e
  <2>4. Coming(turn) => Coming(turn)'
    BY <2>1, <2>2, <2>3, Queued
  <2> QED BY <2>3, <2>4
<1>5. CASE EmitDelta \/ Ask
  <2>1. UNCHANGED <<runner, reader, event, turnEnded, turn, ended>>
    BY <1>5 DEF EmitDelta, Ask, driverVars, readerVars, runnerVars, historyVars
  <2>2. PICK e \in Event : queue' = Append(queue, e)
    <3>1. ASSUME NEW kind \in {"delta", "ask"}, NEW no \in Nat, Emit(kind, no)
          PROVE  \E e \in Event : queue' = Append(queue, e)
      BY <3>1 DEF Event, Kind, Emit, Moment
    <3>2. asks + 1 \in Nat
      BY DEF Types, TypeOK
    <3> QED BY <1>0, <1>5, <3>1, <3>2 DEF EmitDelta, Ask
  <2>3. Coming(turn) => Coming(turn)'
    BY <2>1, <2>2, Queued
  <2> QED BY <2>1, <2>3
<1>6. CASE EndTurn
  <2>1. ended' = ended \cup {running} /\ UNCHANGED <<runner, reader, event, turnEnded, turn>>
    BY <1>6 DEF EndTurn, driverVars, readerVars, runnerVars
  <2>2. PICK e \in Event : queue' = Append(queue, e) /\ IsEndOf(e, running)
    <3>1. PICK kind \in {"turn", "error"} : Emit(kind, running)
      BY <1>6 DEF EndTurn
    <3> DEFINE e == [kind |-> kind, no |-> running, from |-> Moment]
    <3>2. e \in Event /\ queue' = Append(queue, e) /\ IsEndOf(e, running)
      BY <1>0, <3>1 DEF Event, Kind, Emit, IsEnd, IsEndOf, Moment
    <3> QED BY <3>2
  <2>3. Coming(turn) => Coming(turn)'
    BY <2>1, <2>2, Queued
  <2>4. CASE turn = running
    <3>1. Len(queue) + 1 \in DOMAIN queue' /\ queue'[Len(queue) + 1] = e
      BY <1>0, <2>2
    <3>2. Coming(turn)'
      BY <2>1, <2>2, <2>4, <3>1 DEF Coming
    <3> QED BY <2>1, <3>2
  <2> QED BY <2>1, <2>3, <2>4
<1>7. CASE HandOver
  <2>1. turn' = turn + 1 /\ ended' = ended
    BY <1>7 DEF HandOver, historyVars
  <2>2. turn' \notin ended'
    BY <1>0, <2>1 DEF EndsAreTrue
  <2> QED BY <2>2
<1>8. CASE BeginPrompt
  BY <1>8 DEF BeginPrompt
<1>10. CASE Start
  <2>1. reader # "handle" /\ runner # "prompt" /\ UNCHANGED <<queue, turnEnded, turn, ended>>
    BY <1>10 DEF Start, driverVars, backendVars, historyVars
  <2> QED BY <2>1, <1>10 DEF Start, Coming
<1>9. CASE WaitAnswered \/ WaitParked \/ Waiting \/ Deadline \/ EndSession \/ Serve \/ Exit
  <2>1. UNCHANGED <<reader, event, turnEnded, turn, queue, ended>>
    BY <1>9 DEF WaitAnswered, WaitParked, Waiting, CheckAnswered, Look, TakeTurnOver, SeeDone,
       TakeParked, Deadline, EndSession, Serve, Exit, driverVars, readerVars, runnerVars,
       backendVars, historyVars
  <2>2. runner # "prompt" \/ runner' = runner
    BY <1>9 DEF WaitAnswered, WaitParked, Waiting, CheckAnswered, Look, TakeTurnOver, SeeDone,
       TakeParked, Deadline, EndSession, Serve, Exit, runnerVars
  <2> QED BY <2>1, <2>2 DEF Coming
<1> QED BY <1>1, <1>2, <1>3, <1>4, <1>5, <1>6, <1>7, <1>8, <1>9, <1>10
     DEF Next, Reader, Runner, Backend

(* The safety half of EndIsNoticed: while the runner waits, the end of the *)
(* turn it prompted is in turnEnded or comes to it through the read loop,  *)
(* whatever the tokens say ("a dropped wakeup costs nothing").  SendPrompt *)
(* clears the flag of the turn before, never that of the turn it starts.   *)
THEOREM EndIsNeverLost ==
  Spec => [](runner \in {"sent", "check", "select"} /\ turn \in ended => turnEnded \/ Coming(turn))
<1>1. Init => EndsAreTrue /\ EndKept
  BY InitEnds DEF Init, EndKept
<1>2. IInv /\ EndsAreTrue /\ EndKept /\ [Next]_vars => EndsAreTrue' /\ EndKept'
  <2> SUFFICES ASSUME IInv, EndsAreTrue, EndKept, [Next]_vars PROVE EndsAreTrue' /\ EndKept'
    OBVIOUS
  <2>1. CASE Next
    BY <2>1, EndsStep, EndKeptStep DEF IInv
  <2>2. CASE UNCHANGED vars
    BY <2>2 DEF vars, driverVars, readerVars, runnerVars, backendVars, historyVars, EndsAreTrue, EndKept, Coming
  <2> QED BY <2>1, <2>2
<1>3. EndKept => (runner \in {"sent", "check", "select"} /\ turn \in ended => turnEnded \/ Coming(turn))
  BY DEF EndKept
<1> QED BY <1>1, <1>2, <1>3, Invariance, PTL DEF Spec

=============================================================================
