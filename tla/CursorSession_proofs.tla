--------------------------- MODULE CursorSession_proofs ---------------------------
(***************************************************************************)
(* Theorems about CursorSession: for every capacity of the frames channel, *)
(* any number of blobs of a history and of a checkpoint, any number of     *)
(* reply handlers and any turn the runner sets up and client that takes    *)
(* part in it.                                                             *)
(***************************************************************************)
EXTENDS CursorSession, SequenceTheorems, TLAPS

---------------------------------------------------------------------------
(***************************************************************************)
(* Programs.                                                               *)
(***************************************************************************)
Middle == {"hook:prompt", "context", "tool", "hook:compact", "hook:stop"}

Frame ==
  [kind : {"getblob"}, no : Nat] \cup [kind : {"blob"}, of : {"pending", "final"}, no : Nat]
  \cup [kind : {"checkpoint"}, of : {"pending", "final"}, result : BOOLEAN]
  \cup [kind : {"exec"}, id : Nat, stage : Middle] \cup [kind : {"answer", "ended"}]

Instruction ==
  [do : {"send"}, frame : Frame] \cup [do : {"enter", "ask"}, stage : Stage]
  \cup [do : {"await", "advance", "decide", "answer", "save", "close", "store"}]
  \cup [do : {"claim"}, id : Nat, result : BOOLEAN]

Program == Seq(Instruction)

(* The blobs of a series that are still to be sent when k of them are.     *)
Count(c) == IF c = "history" THEN history ELSE Blobs
Item(c, i) == IF c = "history" THEN GetBlob(i) ELSE Blob(c, i)
Left(c, k) == [i \in 1 .. Count(c) - k |-> [do |-> "send", frame |-> Item(c, k + i)]]

(* The stages that ask the client.                                         *)
Asks(s) ==
  \/ s \in {"context", "tool"}
  \/ s = "hook:prompt" /\ "PROMPT" \in plan.hooks
  \/ s = "hook:compact" /\ "PRE_COMPACT" \in plan.hooks
  \/ s = "hook:stop" /\ "STOP" \in plan.hooks

(* The ask of a stage, what precedes it, and the end of the turn.          *)
Question(s) == <<[do |-> "ask", stage |-> s]>>
Pinned(s) == Send(Checkpoint("pending", FALSE)) \o Question(s)
First(s) == IF s = "tool" THEN Left("pending", 0) \o Pinned(s) ELSE Question(s)
Farewell == Send(Ended) \o Do("close")

(* What is left to do once a stage is entered, and before.                 *)
Leg(s) ==
  IF s = "done" THEN Do("save") \o Farewell
  ELSE IF Asks(s) THEN Do("await") \o First(s)
  ELSE Do("advance")
Into(s) == Enter(s) \o Leg(s)

---------------------------------------------------------------------------
(***************************************************************************)
(* Where the thread that drives the turn may be: its program and the state *)
(* of the turn belong together.                                            *)
(***************************************************************************)
Fetching(p) ==
  /\ stage = "" /\ pending = 0
  /\ \E k \in 0 .. history : k < history /\ p = Left("history", k) \o Into("hook:prompt")
Entering(p) ==
  /\ pending = 0
  /\ \E s \in Stage : /\ <<stage, s>> \in Turn!Order /\ p = Into(s)
                      /\ stage \in Middle => (stage \in asked <=> Asks(stage))
Answering(p) ==
  /\ stage = "hook:compact" /\ pending = 0 /\ (stage \in asked <=> Asks(stage))
  /\ p = Do("answer") \o Into("hook:stop")
Replying(p) ==
  /\ stage = "hook:compact" /\ pending = 0 /\ (stage \in asked <=> Asks(stage))
  /\ p = Send(Answer) \o Into("hook:stop")
Awaiting(p) ==
  /\ stage \in Middle /\ Asks(stage) /\ pending = 0 /\ stage \notin asked
  /\ p = Do("await") \o First(stage)
Naming(p) ==
  /\ stage = "tool" /\ pending # 0
  /\ \E k \in 0 .. Blobs : k < Blobs /\ p = Left("pending", k) \o Pinned("tool")
Pinning(p) == stage = "tool" /\ pending # 0 /\ p = Pinned("tool")
Asking(p) == stage \in Middle /\ pending # 0 /\ p = Question(stage)
Advancing(p) ==
  stage \in Middle /\ pending = 0 /\ (stage \in asked <=> Asks(stage)) /\ p = Do("advance")
Deciding(p) == stage = "context" /\ pending = 0 /\ stage \in asked /\ p = Do("decide")
Saving(p) == stage = "done" /\ pending = 0 /\ p = Do("save") \o Farewell
Storing(p) ==
  /\ stage = "done" /\ pending = 0
  /\ \E r \in BOOLEAN, k \in 0 .. Blobs :
       k < Blobs /\ p = Left("final", k) \o (Send(Checkpoint("final", r)) \o Farewell)
Sealing(p) ==
  /\ stage = "done" /\ pending = 0
  /\ \E r \in BOOLEAN : p = Send(Checkpoint("final", r)) \o Farewell
Leaving(p) == stage = "done" /\ pending = 0 /\ p = Farewell
Closing(p) == stage = "done" /\ pending = 0 /\ p = Do("close")

(* The id is out, the ask is not.                                          *)
Unsent(p) == Naming(p) \/ Pinning(p) \/ Asking(p)

(* The next instruction is to send a frame.                                *)
AtSend(p) ==
  Fetching(p) \/ Replying(p) \/ Naming(p) \/ Pinning(p) \/ Storing(p) \/ Sealing(p) \/ Leaving(p)

InPlace(p) ==
  \/ Fetching(p) \/ Entering(p) \/ Answering(p) \/ Replying(p) \/ Awaiting(p) \/ Unsent(p)
  \/ Advancing(p) \/ Deciding(p)
  \/ Saving(p) \/ Storing(p) \/ Sealing(p) \/ Leaving(p) \/ Closing(p)

(* A handler that has yet to see whether its reply is current answers an   *)
(* ask the client received.                                                *)
Claims(p, id, r) ==
  \/ p = Do("store") \o <<[do |-> "claim", id |-> id, result |-> r]>> /\ r
  \/ p = <<[do |-> "claim", id |-> id, result |-> r]>>
Claiming(p) ==
  \E j \in DOMAIN got, r \in BOOLEAN :
    got[j].kind = "exec" /\ (r => got[j].stage = "tool") /\ Claims(p, got[j].id, r)

Drives(t) == todo[t] # << >> /\ Head(todo[t]).do \notin {"store", "claim"}

---------------------------------------------------------------------------
(***************************************************************************)
(* The inductive invariant.                                                *)
(***************************************************************************)
Number(s) ==
  CASE s = "" -> 0 [] s = "hook:prompt" -> 1 [] s = "context" -> 2 [] s = "tool" -> 3
    [] s = "hook:compact" -> 4 [] s = "hook:stop" -> 5 [] s = "done" -> 6

Fallback == [stage : Middle, waitingOn : 0 .. 5, at : {"start", "asleep", "over"}]

Domains ==
  /\ stage \in Stage /\ execID \in 0 .. 5 /\ pending \in {0, execID}
  /\ toolOut \in BOOLEAN /\ closed \in BOOLEAN /\ begun \in BOOLEAN
  /\ tool \in {"none", "read", "shell"} /\ called \in {"none", "read", "shell"}
  /\ frames \in Seq(Frame) /\ Len(frames) <= Cap /\ got \in Seq(Frame)
  /\ todo \in [Thread -> Program]
  /\ timers \in Seq(Fallback)
  /\ sse \in {"none", "open", "broken", "gone", "ended"}
  /\ plan \in Plans /\ history \in Nat
  /\ replied \in 0 .. 5 /\ strays \in 0 .. plan.strays /\ streams \in 0 .. plan.streams
  /\ returned \in BOOLEAN /\ lost \in BOOLEAN

(* Whoever has a program drives the turn or has yet to claim it, and one   *)
(* thread at most drives.                                                  *)
Programs ==
  \A t \in Thread :
    \/ todo[t] = << >> \/ InPlace(todo[t])
    \/ t.by = "reply" /\ Claiming(todo[t])
OneDriver == \A t, u \in Thread : Drives(t) /\ Drives(u) => t = u

(* Until the turn is over it is driven, or an ask is open.                 *)
Led ==
  /\ stage \in Middle /\ pending = 0 => \E t \in Thread : Drives(t)
  /\ ~begun => stage = "" /\ \A t \in Thread : todo[t] = << >>

(* Ids and asks do not outrun the stages; a timer watches an ask of its    *)
(* own, and none the one that is not out yet.                              *)
Counted ==
  /\ execID <= Number(stage) /\ Len(timers) <= execID
  /\ stage \in Middle \ asked => execID < Number(stage)
  /\ asked \subseteq {s \in Middle : Asks(s) /\ Number(s) <= Number(stage)}
  /\ pending # 0 => stage \in asked
  /\ \A i \in DOMAIN timers : timers[i].stage \in asked
  /\ \A i, j \in DOMAIN timers : timers[i].stage = timers[j].stage => i = j
  /\ \A t \in Thread :
       Unsent(todo[t]) =>
         Len(timers) < execID /\ \A i \in DOMAIN timers : timers[i].stage # stage

(* The asks that are out have ids of their own; the one that is open was   *)
(* the last thing sent.                                                    *)
Issued ==
  /\ \A j \in DOMAIN Stream : Stream[j].kind = "exec" =>
       /\ Stream[j].id \in 1 .. execID
       /\ \A t \in Thread : Unsent(todo[t]) => Stream[j].id < execID
       /\ pending # 0 /\ Stream[j].id = execID => j = Len(Stream)

(* A stage that was settled by a reply while its timer still runs has sent *)
(* nothing since, and nothing is on its way to the client.                 *)
Heard ==
  \A t \in Thread :
    /\ Advancing(todo[t]) \/ Answering(todo[t]) \/ Replying(todo[t])
    /\ \E i \in DOMAIN timers : timers[i].stage = stage /\ timers[i].at # "over"
    => frames = << >>

(* The answers counted: one between the hooks, two for what is saved.      *)
Tally ==
  /\ answers \in 0 .. 3
  /\ stage \in {"", "hook:prompt", "context", "tool"} => answers = 0
  /\ stage = "hook:compact" /\ pending # 0 => answers = 0
  /\ stage = "hook:stop" => answers = 1
  /\ \A t \in Thread :
       /\ stage = "hook:compact" /\ (Awaiting(todo[t]) \/ Advancing(todo[t])) => answers = 0
       /\ Answering(todo[t]) => answers = 0
       /\ stage = "hook:compact" /\ Entering(todo[t]) => answers = 1
       /\ Replying(todo[t]) \/ Saving(todo[t]) => answers = 1

Control == Domains /\ Programs /\ OneDriver /\ Led /\ Counted /\ Issued /\ Heard

---------------------------------------------------------------------------
(***************************************************************************)
(* The stream.                                                             *)
(***************************************************************************)
No(f) == IF f.kind \in {"getblob", "blob"} THEN f.no ELSE 0
Precedes(f, g) == Rank(f) < Rank(g) \/ (Rank(f) = Rank(g) /\ No(f) < No(g))
Sorted == \A i, j \in 1 .. Len(Stream) : i < j => Precedes(Stream[i], Stream[j])

(* All that was sent precedes the frame, or is of a lower rank.            *)
Before(g) == \A i \in 1 .. Len(Stream) : Precedes(Stream[i], g)
Under(r) == \A i \in 1 .. Len(Stream) : Rank(Stream[i]) < r

(* The ranks a stage begins with, and its ask has.                         *)
Floor(s) ==
  CASE s = "hook:prompt" -> 1 [] s = "context" -> 2 [] s = "tool" -> 3
    [] s = "hook:compact" -> 6 [] s = "hook:stop" -> 8 [] s = "done" -> 9
AskRank(s) == IF s = "tool" THEN 5 ELSE Floor(s)

(* The blobs that go before this frame of a checkpoint were sent, unless   *)
(* something was lost.                                                     *)
Stored(c, k) ==
  ~lost => \A m \in 1 .. k : \E j \in 1 .. Len(Stream) : Stream[j] = Blob(c, m)
Complete(f) ==
  /\ f.kind = "blob" => Stored(f.of, f.no - 1)
  /\ f.kind = "checkpoint" => Stored(f.of, Blobs)

(* What was sent, by where the driver is.                                  *)
Sent(p) ==
  /\ AtSend(p) => Before(Head(p).frame) /\ Complete(Head(p).frame)
  /\ Entering(p) => Under(Floor(Head(p).stage))
  /\ Answering(p) => Under(7)
  /\ Awaiting(p) => Under(Floor(stage))
  /\ Asking(p) => Under(AskRank(stage))
  /\ Advancing(p) \/ Deciding(p) => Under(AskRank(stage) + 1)
  /\ Saving(p) => Under(9)

Named ==
  ~lost => \A i \in 1 .. Len(Stream) : Stream[i].kind = "checkpoint" =>
    \A m \in 1 .. Blobs : \E j \in 1 .. i - 1 : Stream[j] = Blob(Stream[i].of, m)

Streaming ==
  /\ Sorted /\ Named
  /\ \A t \in Thread : Sent(todo[t])
  /\ pending # 0 => Under(AskRank(stage) + 1)
  /\ ~begun => Stream = << >>

(* The call is taken before the stage that asks for it.                    *)
Called ==
  /\ tool \in {"none", plan.tool} /\ called \in {"none", plan.tool}
  /\ stage = "tool" => called # "none"
  /\ \A t \in Thread : Entering(todo[t]) /\ Head(todo[t]).stage = "tool" => called # "none"
  /\ \A i \in 1 .. Len(Stream) : Stream[i].kind = "exec" /\ Stream[i].stage = "tool" => called # "none"

(* A result is kept before its reply settles the ask, and what the turn    *)
(* ends with was built after that.                                         *)
Backed(p) ==
  \E r \in BOOLEAN :
    /\ returned => r
    /\ \/ \E k \in 0 .. Blobs :
            k < Blobs /\ p = Left("final", k) \o (Send(Checkpoint("final", r)) \o Farewell)
       \/ p = Send(Checkpoint("final", r)) \o Farewell
Pledged(p) == \E id \in Nat : p = <<[do |-> "claim", id |-> id, result |-> TRUE]>>
Saved ==
  plan.tool # "shell" =>
    /\ returned => toolOut
    /\ \A t \in Thread : Pledged(todo[t]) => toolOut
    /\ \A t \in Thread : Storing(todo[t]) \/ Sealing(todo[t]) => Backed(todo[t])
    /\ \A i \in 1 .. Len(Stream) :
         Stream[i].kind = "checkpoint" /\ Stream[i].of = "final" => (returned => Stream[i].result)
---------------------------------------------------------------------------
(* Sequences of instructions.                                              *)
LEMMA Cons ==
  ASSUME NEW e \in Instruction, NEW q \in Program
  PROVE  /\ <<e>> \o q \in Program /\ <<e>> \o q # << >>
         /\ Head(<<e>> \o q) = e /\ Tail(<<e>> \o q) = q
<1> DEFINE p == <<e>> \o q
<1>1. p \in Program /\ Len(p) = 1 + Len(q) /\ Len(q) \in Nat
  BY ConcatProperties, LenProperties DEF Program
<1>2. \A i \in 1 .. 1 + Len(q) : p[i] = IF i <= 1 THEN e ELSE q[i - 1]
  BY ConcatProperties DEF Program
<1>3. p # << >> /\ p[1] = e
  BY <1>1, <1>2
<1>4. Head(p) = e
  BY <1>1, <1>3
<1>5. Tail(p) = q
  <2>1. /\ Tail(p) \in Program /\ Len(Tail(p)) = Len(q)
        /\ \A i \in 1 .. Len(q) : Tail(p)[i] = p[i + 1]
    BY <1>1, <1>3, HeadTailProperties DEF Program
  <2>2. \A i \in 1 .. Len(q) : Tail(p)[i] = q[i]
    BY <1>1, <1>2, <2>1
  <2> QED BY <2>1, <2>2, SeqEqual DEF Program
<1> QED BY <1>1, <1>3, <1>4, <1>5

LEMMA One ==
  ASSUME NEW e \in Instruction
  PROVE  /\ <<e>> \in Program /\ <<e>> # << >> /\ Head(<<e>>) = e /\ Tail(<<e>>) = << >>
  BY DEF Program

LEMMA Nothing == << >> \in Program /\ \A q \in Program : << >> \o q = q /\ q \o << >> = q
  BY EmptySeq, ConcatEmptySeq DEF Program

LEMMA Chained ==
  /\ \A p, q \in Program : p \o q \in Program
  /\ \A p, q, r \in Program : (p \o q) \o r = p \o (q \o r)
  BY ConcatProperties, ConcatAssociative DEF Program

LEMMA Joined == \A p, q \in Program : p \o q \in Program
  BY Chained

LEMMA Regrouped == \A p, q, r \in Program : (p \o q) \o r = p \o (q \o r)
  BY Chained

LEMMA Frames ==
  /\ \A i \in Nat : GetBlob(i) \in Frame
  /\ \A c \in {"pending", "final"}, i \in Nat : Blob(c, i) \in Frame
  /\ \A c \in {"pending", "final"}, r \in BOOLEAN : Checkpoint(c, r) \in Frame
  /\ \A id \in Nat, s \in Middle : AskFor(id, s) \in Frame
  /\ Answer \in Frame /\ Ended \in Frame
  BY DEF Frame, GetBlob, Blob, Checkpoint, AskFor, Answer, Ended

LEMMA Instructions ==
  /\ \A f \in Frame : [do |-> "send", frame |-> f] \in Instruction
  /\ \A s \in Stage : [do |-> "enter", stage |-> s] \in Instruction
  /\ \A s \in Stage : [do |-> "ask", stage |-> s] \in Instruction
  /\ \A what \in {"await", "advance", "decide", "answer", "save", "close", "store"} :
       [do |-> what] \in Instruction
  /\ \A id \in Nat, r \in BOOLEAN : [do |-> "claim", id |-> id, result |-> r] \in Instruction
  BY DEF Instruction

(* What is left of a series of blobs.                                      *)
Series == {"history", "pending", "final"}

LEMMA Items ==
  ASSUME history \in Nat, NEW c \in Series, NEW i \in Nat
  PROVE  Count(c) \in Nat /\ Item(c, i) \in Frame
  BY Frames, BlobsAssumption DEF Count, Item, Series

LEMMA LeftOver ==
  ASSUME history \in Nat, NEW c \in Series, NEW k \in 0 .. Count(c)
  PROVE  /\ Left(c, k) \in Program
         /\ k < Count(c) => Left(c, k) = <<[do |-> "send", frame |-> Item(c, k + 1)]>> \o Left(c, k + 1)
         /\ k = Count(c) => Left(c, k) = << >>
<1> DEFINE e(i) == [do |-> "send", frame |-> Item(c, i)]
<1>1. \A i \in Nat : e(i) \in Instruction
  BY Items, Instructions
<1>2. Count(c) \in Nat /\ k \in Nat
  BY Items
<1>3. \A j \in 0 .. Count(c) :
        /\ Left(c, j) \in Program /\ Len(Left(c, j)) = Count(c) - j
        /\ \A i \in 1 .. Count(c) - j : Left(c, j)[i] = e(j + i)
  <2> SUFFICES ASSUME NEW j \in 0 .. Count(c)
               PROVE  /\ Left(c, j) \in Program /\ Len(Left(c, j)) = Count(c) - j
                      /\ \A i \in 1 .. Count(c) - j : Left(c, j)[i] = e(j + i)
    OBVIOUS
  <2> DEFINE n == Count(c) - j
  <2>1. n \in Nat
    BY <1>2
  <2>2. \A i \in 1 .. n : e(j + i) \in Instruction
    BY <1>1, <1>2
  <2>3. Left(c, j) = [i \in 1 .. n |-> e(j + i)]
    BY DEF Left
  <2> HIDE DEF n, e
  <2>4. Left(c, j) \in [1 .. n -> Instruction]
    BY <2>2, <2>3
  <2> QED BY <2>1, <2>3, <2>4 DEF Program, n
<1>4. CASE k < Count(c)
  <2> DEFINE q == <<e(k + 1)>> \o Left(c, k + 1)
  <2>1. k + 1 \in 0 .. Count(c) /\ e(k + 1) \in Instruction
    BY <1>1, <1>2, <1>4
  <2>2. /\ Left(c, k + 1) \in Program /\ Len(Left(c, k + 1)) = Count(c) - (k + 1)
        /\ \A i \in 1 .. Count(c) - (k + 1) : Left(c, k + 1)[i] = e((k + 1) + i)
    BY <1>3, <2>1
  <2>3. <<e(k + 1)>> \in Program /\ Len(<<e(k + 1)>>) = 1
    BY <2>1, One
  <2>4. /\ q \in Program /\ Len(q) = 1 + (Count(c) - (k + 1))
        /\ \A i \in 1 .. 1 + (Count(c) - (k + 1)) :
             q[i] = IF i <= 1 THEN <<e(k + 1)>>[i] ELSE Left(c, k + 1)[i - 1]
    BY <2>2, <2>3, ConcatProperties DEF Program
  <2>5. Len(q) = Count(c) - k /\ Len(Left(c, k)) = Count(c) - k
    BY <1>2, <1>3, <2>4
  <2>6. \A i \in 1 .. Count(c) - k : q[i] = e(k + i)
    <3> SUFFICES ASSUME NEW i \in 1 .. Count(c) - k PROVE q[i] = e(k + i)
      OBVIOUS
    <3>1. CASE i = 1
      BY <1>2, <1>4, <2>4, <3>1
    <3>2. CASE i # 1
      <4>1. i - 1 \in 1 .. Count(c) - (k + 1) /\ (k + 1) + (i - 1) = k + i
        BY <1>2, <3>2
      <4>2. q[i] = Left(c, k + 1)[i - 1]
        BY <1>2, <2>4, <3>2
      <4> QED BY <2>2, <4>1, <4>2
    <3> QED BY <3>1, <3>2
  <2>7. Left(c, k) \in Program /\ \A i \in 1 .. Count(c) - k : Left(c, k)[i] = e(k + i)
    BY <1>3
  <2> HIDE DEF q, e
  <2>8. Left(c, k) = q
    BY <2>4, <2>5, <2>6, <2>7, SeqEqual DEF Program
  <2> QED BY <1>2, <1>4, <2>7, <2>8 DEF q, e
<1>5. CASE k = Count(c)
  <2>1. Len(Left(c, k)) = 0 /\ Left(c, k) \in Program
    BY <1>2, <1>3, <1>5
  <2> QED BY <1>2, <1>5, <2>1, EmptySeq DEF Program
<1> QED BY <1>2, <1>4, <1>5

(* The programs, and what the operators of CursorSession are in these      *)
(* terms.                                                                  *)
LEMMA Simple ==
  /\ \A what \in {"await", "advance", "decide", "answer", "save", "close", "store"} : Do(what) \in Program
  /\ \A s \in Stage : Enter(s) \in Program /\ Question(s) \in Program
  /\ \A f \in Frame : Send(f) \in Program
  BY Instructions, One DEF Do, Enter, Question, Send

LEMMA Composed ==
  ASSUME history \in Nat
  PROVE  /\ \A s \in Stage : /\ Pinned(s) \in Program /\ First(s) \in Program
                             /\ Leg(s) \in Program /\ Into(s) \in Program
         /\ Farewell \in Program
         /\ \A c \in Series, k \in Nat : k <= Count(c) => Left(c, k) \in Program
         /\ \A c \in {"pending", "final"}, r \in BOOLEAN : Send(Checkpoint(c, r)) \in Program
<1>1. Farewell \in Program
  BY Simple, Frames, Chained DEF Farewell
<1>2. \A c \in {"pending", "final"}, r \in BOOLEAN : Send(Checkpoint(c, r)) \in Program
  BY Simple, Frames
<1>3. ASSUME NEW c \in Series, NEW k \in Nat, k <= Count(c) PROVE Left(c, k) \in Program
  <2>1. k \in 0 .. Count(c)
    BY <1>3, Items
  <2> QED BY <2>1, LeftOver
<1>4. ASSUME NEW s \in Stage
      PROVE  Pinned(s) \in Program /\ First(s) \in Program /\ Leg(s) \in Program /\ Into(s) \in Program
  <2>1. Question(s) \in Program /\ Enter(s) \in Program
    BY Simple
  <2>2. Pinned(s) \in Program
    BY <1>2, <2>1, Chained DEF Pinned
  <2>3. First(s) \in Program
    <3>1. Left("pending", 0) \in Program
      BY <1>3, Items DEF Series
    <3>2. Left("pending", 0) \o Pinned(s) \in Program
      BY <3>1, <2>2, Chained
    <3> QED BY <2>1, <3>2 DEF First
  <2>4. Leg(s) \in Program
    <3>1. Do("save") \in Program /\ Do("await") \in Program /\ Do("advance") \in Program
      BY Simple
    <3>2. Do("save") \o Farewell \in Program /\ Do("await") \o First(s) \in Program
      BY <1>1, <2>3, <3>1, Chained
    <3> QED BY <3>1, <3>2 DEF Leg
  <2>5. Into(s) \in Program
    BY <2>1, <2>4, Chained DEF Into
  <2> QED BY <2>2, <2>3, <2>4, <2>5
<1> QED BY <1>1, <1>2, <1>3, <1>4

LEMMA Saves ==
  ASSUME history \in Nat, NEW c \in {"pending", "final"}, NEW r \in BOOLEAN, NEW q \in Program
  PROVE  /\ Save(c, r) \in Program
         /\ Save(c, r) \o q = Left(c, 0) \o (Send(Checkpoint(c, r)) \o q)
<1>1. Each(Blobs, LAMBDA i : Blob(c, i)) = Left(c, 0)
  <2>1. Left(c, 0) = [i \in 1 .. Blobs |-> [do |-> "send", frame |-> Blob(c, i)]]
    <3>1. Count(c) - 0 = Blobs
      BY BlobsAssumption DEF Count
    <3>2. \A i \in 1 .. Blobs : Item(c, 0 + i) = Blob(c, i)
      BY BlobsAssumption DEF Item
    <3> QED BY <3>1, <3>2 DEF Left
  <2> QED BY <2>1 DEF Each
<1>2. Save(c, r) = Left(c, 0) \o Send(Checkpoint(c, r))
  BY <1>1 DEF Save
<1>3. Left(c, 0) \in Program /\ Send(Checkpoint(c, r)) \in Program
  BY Composed, Items DEF Series
<1>4. Save(c, r) \in Program
  BY <1>2, <1>3, Chained
<1>5. Save(c, r) \o q = (Left(c, 0) \o Send(Checkpoint(c, r))) \o q
  BY <1>2
<1>6. @ = Left(c, 0) \o (Send(Checkpoint(c, r)) \o q)
  BY <1>3, Chained
<1> QED BY <1>4, <1>5, <1>6

LEMMA Exchanges ==
  ASSUME history \in Nat, NEW s \in Stage, NEW first \in Program
  PROVE  Exchange(s, first) = Enter(s) \o (Do("await") \o (first \o Question(s)))
<1>1. Enter(s) \in Program /\ Do("await") \in Program /\ Question(s) \in Program
  BY Simple
<1>2. Exchange(s, first) = ((Enter(s) \o Do("await")) \o first) \o Question(s)
  BY DEF Exchange, Question
<1>3. @ = (Enter(s) \o Do("await")) \o (first \o Question(s))
  <2>1. Enter(s) \o Do("await") \in Program
    BY <1>1, Joined
  <2> QED BY <1>1, <2>1, Regrouped
<1>4. first \o Question(s) \in Program
  BY <1>1, Joined
<1>5. \A q \in Program : (Enter(s) \o Do("await")) \o q = Enter(s) \o (Do("await") \o q)
  BY <1>1, Regrouped
<1> QED BY <1>2, <1>3, <1>4, <1>5

(* Each stage is entered with its own program.                             *)
LEMMA Entries ==
  ASSUME history \in Nat
  PROVE  /\ HookOrPass("PROMPT", "hook:prompt") = Into("hook:prompt")
         /\ Exchange("context", << >>) = Into("context")
         /\ Exchange("tool", Save("pending", FALSE)) = Into("tool")
         /\ Finish = Into("hook:compact")
         /\ HookOrPass("STOP", "hook:stop") = Into("hook:stop")
<1>1. \A s \in Stage : Exchange(s, << >>) = Enter(s) \o (Do("await") \o Question(s))
  <2> SUFFICES ASSUME NEW s \in Stage
               PROVE  Exchange(s, << >>) = Enter(s) \o (Do("await") \o Question(s))
    OBVIOUS
  <2>1. Exchange(s, << >>) = Enter(s) \o (Do("await") \o (<< >> \o Question(s)))
    BY Exchanges, Nothing
  <2>2. << >> \o Question(s) = Question(s)
    BY Nothing, Simple
  <2> QED BY <2>1, <2>2
<1>2. Exchange("tool", Save("pending", FALSE)) = Into("tool")
  <2>1. Save("pending", FALSE) \o Question("tool") = First("tool")
    BY Saves, Simple DEF First, Pinned, Stage
  <2>2. Save("pending", FALSE) \in Program
    BY Saves, Nothing
  <2>3. Exchange("tool", Save("pending", FALSE))
          = Enter("tool") \o (Do("await") \o (Save("pending", FALSE) \o Question("tool")))
    BY <2>2, Exchanges DEF Stage
  <2>4. Leg("tool") = Do("await") \o First("tool")
    BY DEF Leg, Asks
  <2> QED BY <2>1, <2>3, <2>4 DEF Into
<1>3. Exchange("context", << >>) = Into("context")
  BY <1>1 DEF Into, Leg, Asks, First, Stage
<1>4. HookOrPass("PROMPT", "hook:prompt") = Into("hook:prompt")
  BY <1>1 DEF HookOrPass, Into, Leg, Asks, First, Stage
<1>5. HookOrPass("STOP", "hook:stop") = Into("hook:stop")
  BY <1>1 DEF HookOrPass, Into, Leg, Asks, First, Stage
<1>6. Finish = Into("hook:compact")
  BY <1>1 DEF Finish, HookOrPass, Into, Leg, Asks, First, Stage
<1> QED BY <1>2, <1>3, <1>4, <1>5, <1>6

LEMMA Begins ==
  ASSUME history \in Nat
  PROVE  FetchHistory \o HookOrPass("PROMPT", "hook:prompt") = Left("history", 0) \o Into("hook:prompt")
<1>1. FetchHistory = Left("history", 0)
  <2>1. Count("history") - 0 = history
    BY DEF Count
  <2>2. \A i \in 1 .. history : Item("history", 0 + i) = GetBlob(i)
    BY DEF Item
  <2> QED BY <2>1, <2>2 DEF Left, FetchHistory, Each
<1> QED BY <1>1, Entries

(* cursorAdvance, from each stage an ask is settled at or passed.          *)
LEMMA Advances ==
  ASSUME history \in Nat
  PROVE  /\ stage = "hook:prompt" => Advance = Into("context")
         /\ stage = "context" => Advance = Do("decide")
         /\ stage = "tool" => Advance = Into("hook:compact")
         /\ stage = "hook:compact" => Advance = Do("answer") \o Into("hook:stop")
         /\ stage = "hook:stop" => Advance = Into("done")
<1>1. Enter("done") \o Do("save") \o Send(Ended) \o Do("close") = Into("done")
  <2>1. Enter("done") \in Program /\ Do("save") \in Program /\ Send(Ended) \in Program /\ Do("close") \in Program
    BY Simple, Frames DEF Stage
  <2>2. ((Enter("done") \o Do("save")) \o Send(Ended)) \o Do("close")
          = (Enter("done") \o Do("save")) \o (Send(Ended) \o Do("close"))
    <3>1. Enter("done") \o Do("save") \in Program
      BY <2>1, Joined
    <3> QED BY <2>1, <3>1, Regrouped
  <2>3. Send(Ended) \o Do("close") \in Program
    BY <2>1, Chained
  <2>4. (Enter("done") \o Do("save")) \o (Send(Ended) \o Do("close"))
          = Enter("done") \o (Do("save") \o (Send(Ended) \o Do("close")))
    BY <2>1, <2>3, Chained
  <2> QED BY <2>2, <2>4 DEF Into, Leg, Farewell
<1> QED BY <1>1, Entries DEF Advance

(* The first instruction of a program, and what is left after it.          *)
Starts(p, e, q) == p # << >> /\ Head(p) = e /\ Tail(p) = q

LEMMA Starting ==
  ASSUME history \in Nat
  PROVE  /\ \A s \in Stage : /\ Starts(Into(s), [do |-> "enter", stage |-> s], Leg(s))
                             /\ Starts(Question(s), [do |-> "ask", stage |-> s], << >>)
         /\ \A what \in {"await", "advance", "decide", "answer", "save", "close", "store"} :
              Starts(Do(what), [do |-> what], << >>)
         /\ \A what \in {"await", "advance", "decide", "answer", "save", "close", "store"},
               q \in Program : Starts(Do(what) \o q, [do |-> what], q)
         /\ \A f \in Frame, q \in Program : Starts(Send(f) \o q, [do |-> "send", frame |-> f], q)
         /\ \A c \in Series, q \in Program, k \in Nat : k < Count(c) =>
              Starts(Left(c, k) \o q, [do |-> "send", frame |-> Item(c, k + 1)], Left(c, k + 1) \o q)
         /\ \A c \in Series, q \in Program : Left(c, Count(c)) \o q = q
<1>1. ASSUME NEW s \in Stage
      PROVE  /\ Starts(Into(s), [do |-> "enter", stage |-> s], Leg(s))
             /\ Starts(Question(s), [do |-> "ask", stage |-> s], << >>)
  <2>1. Leg(s) \in Program
    BY Composed
  <2>2. [do |-> "enter", stage |-> s] \in Instruction /\ [do |-> "ask", stage |-> s] \in Instruction
    BY Instructions
  <2>3. Starts(Into(s), [do |-> "enter", stage |-> s], Leg(s))
    BY <2>1, <2>2, Cons DEF Starts, Into, Enter
  <2>4. Starts(Question(s), [do |-> "ask", stage |-> s], << >>)
    BY <2>2, One DEF Starts, Question
  <2> QED BY <2>3, <2>4
<1>2. ASSUME NEW what \in {"await", "advance", "decide", "answer", "save", "close", "store"}
      PROVE  /\ Starts(Do(what), [do |-> what], << >>)
             /\ \A q \in Program : Starts(Do(what) \o q, [do |-> what], q)
  BY Instructions, One, Cons DEF Starts, Do
<1>3. ASSUME NEW f \in Frame, NEW q \in Program
      PROVE  Starts(Send(f) \o q, [do |-> "send", frame |-> f], q)
  BY Instructions, Cons DEF Starts, Send
<1>4. ASSUME NEW c \in Series, NEW q \in Program, NEW k \in Nat, k < Count(c)
      PROVE  Starts(Left(c, k) \o q, [do |-> "send", frame |-> Item(c, k + 1)], Left(c, k + 1) \o q)
  <2> DEFINE e == [do |-> "send", frame |-> Item(c, k + 1)]
  <2>1. k \in 0 .. Count(c) /\ k + 1 \in 0 .. Count(c) /\ k + 1 \in Nat
    BY <1>4, Items
  <2>2. e \in Instruction
    BY <2>1, Items, Instructions
  <2>3. Left(c, k) = <<e>> \o Left(c, k + 1) /\ Left(c, k + 1) \in Program
    BY <1>4, <2>1, LeftOver
  <2>4. <<e>> \in Program /\ Left(c, k + 1) \o q \in Program
    BY <2>2, <2>3, One, Chained
  <2>5. Left(c, k) \o q = (<<e>> \o Left(c, k + 1)) \o q
    BY <2>3
  <2>6. @ = <<e>> \o (Left(c, k + 1) \o q)
    BY <2>3, <2>4, Chained
  <2> HIDE DEF e
  <2>7. Starts(<<e>> \o (Left(c, k + 1) \o q), e, Left(c, k + 1) \o q)
    BY <2>2, <2>4, Cons DEF Starts
  <2>8. Starts(Left(c, k) \o q, e, Left(c, k + 1) \o q)
    BY <2>5, <2>6, <2>7
  <2> QED BY <2>8 DEF e
<1>5. ASSUME NEW c \in Series, NEW q \in Program
      PROVE  Left(c, Count(c)) \o q = q
  <2>1. Count(c) \in Nat
    BY Items
  <2>2. Left(c, Count(c)) = << >>
    <3>1. Count(c) \in 0 .. Count(c)
      BY <2>1
    <3> QED BY <3>1, LeftOver
  <2> QED BY <2>2, Nothing
<1> QED BY <1>1, <1>2, <1>3, <1>4, <1>5

(* Where a thread is, by the instruction it takes next.                    *)
LEMMA Sends ==
  ASSUME Domains, NEW p, AtSend(p)
  PROVE  /\ p # << >> /\ Head(p).do = "send"
         /\ Head(p).frame \in Frame /\ Head(p).frame.kind # "exec"
<1>0. history \in Nat
  BY DEF Domains
<1>1. \A s \in Stage : Into(s) \in Program /\ Pinned(s) \in Program /\ Question(s) \in Program
  BY <1>0, Composed, Simple
<1>2. /\ Farewell \in Program /\ Do("close") \in Program
      /\ \A c \in {"pending", "final"}, r \in BOOLEAN : Checkpoint(c, r) \in Frame
      /\ Answer \in Frame /\ Ended \in Frame
  BY <1>0, Composed, Simple, Frames
<1>14. /\ Answer.kind # "exec" /\ Ended.kind # "exec"
       /\ \A c \in {"pending", "final"}, r \in BOOLEAN : Checkpoint(c, r).kind # "exec"
       /\ \A c \in Series, i \in Nat : Item(c, i).kind # "exec"
  BY DEF Answer, Ended, Checkpoint, Item, GetBlob, Blob
<1>3. \A r \in BOOLEAN : Send(Checkpoint("final", r)) \o Farewell \in Program
  BY <1>0, <1>2, Composed, Chained
<1>4. ASSUME NEW c \in Series, NEW k \in Nat, NEW q \in Program, k < Count(c), p = Left(c, k) \o q
      PROVE  p # << >> /\ Head(p).do = "send" /\ Head(p).frame \in Frame /\ Head(p).frame.kind # "exec"
  <2>1. Starts(p, [do |-> "send", frame |-> Item(c, k + 1)], Left(c, k + 1) \o q)
    BY <1>0, <1>4, Starting
  <2>2. Item(c, k + 1) \in Frame /\ Item(c, k + 1).kind # "exec"
    BY <1>0, <1>4, <1>14, Items
  <2> QED BY <2>1, <2>2 DEF Starts
<1>5. ASSUME NEW f \in Frame, NEW q \in Program, p = Send(f) \o q, f.kind # "exec"
      PROVE  p # << >> /\ Head(p).do = "send" /\ Head(p).frame \in Frame /\ Head(p).frame.kind # "exec"
  <2>1. Starts(p, [do |-> "send", frame |-> f], q)
    BY <1>0, <1>5, Starting
  <2> QED BY <1>5, <2>1 DEF Starts
<1>6. Count("pending") = Blobs /\ Count("final") = Blobs /\ Count("history") = history /\ Blobs \in Nat
  BY BlobsAssumption DEF Count
<1>7. CASE Fetching(p)
  <2>1. PICK k \in 0 .. history : k < history /\ p = Left("history", k) \o Into("hook:prompt")
    BY <1>7 DEF Fetching
  <2>2. k \in Nat /\ k < Count("history") /\ "history" \in Series /\ Into("hook:prompt") \in Program
    <3>1. "hook:prompt" \in Stage /\ "history" \in Series
      BY DEF Series, Stage
    <3>2. k \in Nat /\ k < Count("history")
      BY <1>0, <1>6, <2>1
    <3> QED BY <1>1, <3>1, <3>2
  <2> QED BY <1>4, <2>1, <2>2
<1>8. CASE Replying(p)
  BY <1>1, <1>2, <1>5, <1>8, <1>14 DEF Replying, Stage
<1>9. CASE Naming(p)
  <2>1. PICK k \in 0 .. Blobs : k < Blobs /\ p = Left("pending", k) \o Pinned("tool")
    BY <1>9 DEF Naming
  <2>2. k \in Nat /\ k < Count("pending") /\ "pending" \in Series /\ Pinned("tool") \in Program
    <3>1. "tool" \in Stage /\ "pending" \in Series
      BY DEF Series, Stage
    <3>2. k \in Nat /\ k < Count("pending")
      BY <1>6, <2>1
    <3> QED BY <1>1, <3>1, <3>2
  <2> QED BY <1>4, <2>1, <2>2
<1>10. CASE Pinning(p)
  BY <1>1, <1>2, <1>5, <1>10, <1>14 DEF Pinning, Pinned, Stage
<1>11. CASE Storing(p)
  <2>1. PICK r \in BOOLEAN, k \in 0 .. Blobs :
          k < Blobs /\ p = Left("final", k) \o (Send(Checkpoint("final", r)) \o Farewell)
    BY <1>11 DEF Storing
  <2>2. k \in Nat /\ k < Count("final") /\ "final" \in Series
    BY <1>6, <2>1 DEF Series
  <2>3. Send(Checkpoint("final", r)) \o Farewell \in Program
    BY <1>3
  <2> QED BY <1>4, <2>1, <2>2, <2>3
<1>12. CASE Sealing(p)
  BY <1>2, <1>5, <1>12, <1>14 DEF Sealing
<1>13. CASE Leaving(p)
  BY <1>2, <1>5, <1>13, <1>14 DEF Leaving, Farewell
<1> QED BY <1>7, <1>8, <1>9, <1>10, <1>11, <1>12, <1>13 DEF AtSend

LEMMA Places ==
  ASSUME Domains, NEW p
  PROVE  /\ AtSend(p) => p # << >> /\ Head(p).do = "send"
         /\ Entering(p) => p # << >> /\ Head(p).do = "enter"
         /\ Awaiting(p) => p # << >> /\ Head(p).do = "await"
         /\ Asking(p) => p # << >> /\ Head(p).do = "ask"
         /\ Advancing(p) => p # << >> /\ Head(p).do = "advance"
         /\ Deciding(p) => p # << >> /\ Head(p).do = "decide"
         /\ Answering(p) => p # << >> /\ Head(p).do = "answer"
         /\ Saving(p) => p # << >> /\ Head(p).do = "save"
         /\ Closing(p) => p # << >> /\ Head(p).do = "close"
<1>0. history \in Nat /\ stage \in Stage
  BY DEF Domains
<1>1. \A s \in Stage : Into(s) \in Program /\ First(s) \in Program
  BY <1>0, Composed
<1>2. Farewell \in Program
  BY <1>0, Composed
<1>3. AtSend(p) => p # << >> /\ Head(p).do = "send"
  BY Sends
<1>4. Entering(p) => p # << >> /\ Head(p).do = "enter"
  BY <1>0, Starting DEF Entering, Starts
<1>5. Awaiting(p) => p # << >> /\ Head(p).do = "await"
  <2>1. First(stage) \in Program
    BY <1>0, <1>1
  <2>2. Starts(Do("await") \o First(stage), [do |-> "await"], First(stage))
    BY <1>0, <2>1, Starting
  <2> QED BY <2>2 DEF Awaiting, Starts
<1>6. Asking(p) => p # << >> /\ Head(p).do = "ask"
  BY <1>0, Starting DEF Asking, Starts
<1>7. Advancing(p) => p # << >> /\ Head(p).do = "advance"
  BY <1>0, Starting DEF Advancing, Starts
<1>8. Deciding(p) => p # << >> /\ Head(p).do = "decide"
  BY <1>0, Starting DEF Deciding, Starts
<1>9. Answering(p) => p # << >> /\ Head(p).do = "answer"
  <2>1. Into("hook:stop") \in Program
    BY <1>1 DEF Stage
  <2>2. Starts(Do("answer") \o Into("hook:stop"), [do |-> "answer"], Into("hook:stop"))
    BY <1>0, <2>1, Starting
  <2> QED BY <2>2 DEF Answering, Starts
<1>10. Saving(p) => p # << >> /\ Head(p).do = "save"
  BY <1>0, <1>2, Starting DEF Saving, Starts
<1>11. Closing(p) => p # << >> /\ Head(p).do = "close"
  BY <1>0, Starting DEF Closing, Starts
<1> QED BY <1>3, <1>4, <1>5, <1>6, <1>7, <1>8, <1>9, <1>10, <1>11

(* Who has yet to claim drives nothing.                                    *)
LEMMA Claimants ==
  ASSUME Domains, NEW p, Claiming(p)
  PROVE  p # << >> /\ Head(p).do \in {"store", "claim"}
<1>0. history \in Nat
  BY DEF Domains
<1>1. PICK j \in DOMAIN got, r \in BOOLEAN : got[j].kind = "exec" /\ Claims(p, got[j].id, r)
  BY DEF Claiming
<1> DEFINE e == [do |-> "claim", id |-> got[j].id, result |-> r]
<1>2. got[j].id \in Nat
  <2>1. got[j] \in Frame
    BY LenProperties, ElementOfSeq DEF Domains
  <2> QED BY <1>1, <2>1 DEF Frame
<1>3. e \in Instruction /\ <<e>> \in Program /\ <<e>> # << >> /\ Head(<<e>>) = e
  BY <1>2, Instructions, One
<1>4. Do("store") \o <<e>> # << >> /\ Head(Do("store") \o <<e>>).do = "store"
  BY <1>0, <1>3, Starting DEF Starts
<1>5. p = <<e>> \/ p = Do("store") \o <<e>>
  BY <1>1 DEF Claims
<1> QED BY <1>3, <1>4, <1>5

LEMMA Whereabouts ==
  ASSUME Domains, Programs, NEW t \in Thread
  PROVE  /\ Drives(t) <=> InPlace(todo[t])
         /\ Does(t, "send") => AtSend(todo[t])
         /\ Does(t, "enter") => Entering(todo[t])
         /\ Does(t, "await") => Awaiting(todo[t])
         /\ Does(t, "ask") => Asking(todo[t])
         /\ Does(t, "advance") => Advancing(todo[t])
         /\ Does(t, "decide") => Deciding(todo[t])
         /\ Does(t, "answer") => Answering(todo[t])
         /\ Does(t, "save") => Saving(todo[t])
         /\ Does(t, "close") => Closing(todo[t])
         /\ Does(t, "store") \/ Does(t, "claim") => t.by = "reply" /\ Claiming(todo[t]) /\ ~Drives(t)
<1> DEFINE p == todo[t]
<1>1. p = << >> \/ InPlace(p) \/ (t.by = "reply" /\ Claiming(p))
  BY DEF Programs
<1>2. Claiming(p) => p # << >> /\ Head(p).do \in {"store", "claim"}
  BY Claimants
<1>3. /\ AtSend(p) => p # << >> /\ Head(p).do = "send"
      /\ Entering(p) => p # << >> /\ Head(p).do = "enter"
      /\ Awaiting(p) => p # << >> /\ Head(p).do = "await"
      /\ Asking(p) => p # << >> /\ Head(p).do = "ask"
      /\ Advancing(p) => p # << >> /\ Head(p).do = "advance"
      /\ Deciding(p) => p # << >> /\ Head(p).do = "decide"
      /\ Answering(p) => p # << >> /\ Head(p).do = "answer"
      /\ Saving(p) => p # << >> /\ Head(p).do = "save"
      /\ Closing(p) => p # << >> /\ Head(p).do = "close"
  BY Places
<1>4. InPlace(p) <=> \/ AtSend(p) \/ Entering(p) \/ Awaiting(p) \/ Asking(p) \/ Advancing(p)
                     \/ Deciding(p) \/ Answering(p) \/ Saving(p) \/ Closing(p)
  BY DEF InPlace, Unsent, AtSend
<1> HIDE DEF p
<1> QED BY <1>1, <1>2, <1>3, <1>4 DEF Drives, Does, Next1, p

---------------------------------------------------------------------------
(***************************************************************************)
(* The steps of a thread: from which place to which.                       *)
(***************************************************************************)
LEMMA Unmoved ==
  ASSUME UNCHANGED <<plan, history>>
  PROVE  /\ \A s : /\ Into(s)' = Into(s) /\ Leg(s)' = Leg(s) /\ First(s)' = First(s)
                   /\ Asks(s)' = Asks(s) /\ Pinned(s)' = Pinned(s)
         /\ \A c, k : Left(c, k)' = Left(c, k)
<1>1. \A c, k : Left(c, k)' = Left(c, k)
  BY DEF Left, Count, Item
<1>2. \A s : Asks(s)' = Asks(s)
  BY DEF Asks
<1>3. \A s : Pinned(s)' = Pinned(s)
  BY DEF Pinned, Question
<1>4. \A s : First(s)' = First(s)
  BY <1>1, <1>3 DEF First, Question
<1>5. \A s : Leg(s)' = Leg(s)
  BY <1>2, <1>4 DEF Leg, Farewell
<1>6. \A s : Into(s)' = Into(s)
  BY <1>5 DEF Into
<1> QED BY <1>1, <1>2, <1>3, <1>4, <1>5, <1>6

LEMMA NextProgram ==
  ASSUME Domains, NEW t \in Thread, NEW q \in Program, Then(t, q), todo[t] # << >>
  PROVE  /\ Tail(todo[t]) \in Program /\ todo' = [todo EXCEPT ![t] = q \o Tail(todo[t])]
         /\ todo'[t] = q \o Tail(todo[t]) /\ todo' \in [Thread -> Program]
         /\ \A u \in Thread : u # t => todo'[u] = todo[u]
<1>1. Tail(todo[t]) \in Program
  BY HeadTailProperties DEF Domains, Program
<1>2. q \o Tail(todo[t]) \in Program
  BY <1>1, Chained
<1> QED BY <1>1, <1>2 DEF Then, Domains

LEMMA Tailed ==
  ASSUME Domains, NEW t \in Thread, Then(t, << >>), todo[t] # << >>
  PROVE  /\ todo' = [todo EXCEPT ![t] = Tail(todo[t])]
         /\ todo'[t] = Tail(todo[t]) /\ todo' \in [Thread -> Program]
         /\ \A u \in Thread : u # t => todo'[u] = todo[u]
  BY NextProgram, Nothing

LEMMA EnterMoves ==
  ASSUME Domains, Programs, NEW t \in Thread, EnterStage(t)
  PROVE  \E s \in Stage :
           /\ Entering(todo[t]) /\ todo[t] = Into(s) /\ <<stage, s>> \in Turn!Order /\ pending = 0
           /\ stage \in Middle => (stage \in asked <=> Asks(stage))
           /\ stage' = s /\ todo'[t] = Leg(s) /\ todo' \in [Thread -> Program]
           /\ \A u \in Thread : u # t => todo'[u] = todo[u]
<1>0. history \in Nat
  BY DEF Domains
<1>1. Does(t, "enter") /\ Entering(todo[t])
  BY Whereabouts DEF EnterStage
<1>2. PICK s \in Stage : /\ <<stage, s>> \in Turn!Order /\ todo[t] = Into(s)
                         /\ stage \in Middle => (stage \in asked <=> Asks(stage))
  BY <1>1 DEF Entering
<1>3. todo[t] # << >> /\ Head(todo[t]).stage = s /\ Tail(todo[t]) = Leg(s)
  BY <1>0, <1>2, Starting DEF Starts
<1>4. stage' = s
  BY <1>3 DEF EnterStage, Next1
<1>5. /\ todo'[t] = Leg(s) /\ todo' \in [Thread -> Program]
      /\ \A u \in Thread : u # t => todo'[u] = todo[u]
  BY <1>3, Tailed DEF EnterStage
<1>6. pending = 0
  BY <1>1 DEF Entering
<1> QED BY <1>1, <1>2, <1>4, <1>5, <1>6

LEMMA Legs ==
  ASSUME Domains, Domains', NEW t \in Thread, UNCHANGED <<plan, history, asked>>,
         stage' \notin asked, stage' # "", pending' = 0, todo'[t] = Leg(stage')
  PROVE  /\ stage' = "done" => Saving(todo[t])'
         /\ stage' # "done" /\ Asks(stage') => Awaiting(todo[t])'
         /\ stage' # "done" /\ ~Asks(stage') => Advancing(todo[t])'
<1>1. \A s : Asks(s)' = Asks(s) /\ First(s)' = First(s)
  BY Unmoved
<1>2. stage' \in Stage /\ (stage' # "done" => stage' \in Middle)
  BY DEF Domains, Stage, Middle
<1>3. stage' = "done" => Saving(todo[t])'
  BY DEF Leg, Saving, Farewell
<1>4. stage' # "done" /\ Asks(stage') => Awaiting(todo[t])'
  BY <1>1, <1>2 DEF Leg, Awaiting
<1>5. stage' # "done" /\ ~Asks(stage') => Advancing(todo[t])'
  BY <1>1, <1>2 DEF Leg, Advancing
<1> QED BY <1>3, <1>4, <1>5

(* Into the next stage, from the stage as it is.                           *)
LEMMA Entered ==
  ASSUME Domains, NEW t \in Thread, NEW s \in Stage, UNCHANGED <<plan, history, asked, stage>>,
         <<stage, s>> \in Turn!Order, stage \in Middle => (stage \in asked <=> Asks(stage)),
         pending' = 0, todo'[t] = Into(s)
  PROVE  Entering(todo[t])'
<1>1. \A x : Asks(x)' = Asks(x) /\ Into(x)' = Into(x)
  BY Unmoved
<1>2. <<stage', s>> \in Turn!Order
  OBVIOUS
<1>3. stage' \in Middle => (stage' \in asked' <=> Asks(stage)')
  BY <1>1
<1>4. todo'[t] = Into(s)'
  BY <1>1
<1> QED BY <1>2, <1>3, <1>4 DEF Entering

LEMMA AwaitMoves ==
  ASSUME Domains, Programs, NEW t \in Thread, Await(t)
  PROVE  /\ Awaiting(todo[t]) /\ stage \in Middle /\ stage \notin asked /\ pending = 0 /\ Asks(stage)
         /\ todo'[t] = First(stage) /\ todo' \in [Thread -> Program]
         /\ \A u \in Thread : u # t => todo'[u] = todo[u]
         /\ execID' = execID + 1 /\ pending' = execID + 1 /\ asked' = asked \cup {stage}
         /\ IF stage = "tool" THEN Naming(todo[t])' ELSE Asking(todo[t])'
<1>0. history \in Nat /\ stage \in Stage /\ execID \in Nat
  BY DEF Domains
<1>1. Does(t, "await") /\ Awaiting(todo[t])
  BY Whereabouts DEF Await
<1>2. stage \in Middle /\ stage \notin asked /\ pending = 0 /\ Asks(stage) /\ todo[t] = Do("await") \o First(stage)
  BY <1>1 DEF Awaiting
<1>3. First(stage) \in Program
  BY <1>0, Composed
<1>4. todo[t] # << >> /\ Tail(todo[t]) = First(stage)
  BY <1>0, <1>2, <1>3, Starting DEF Starts
<1>5. /\ todo'[t] = First(stage) /\ todo' \in [Thread -> Program]
      /\ \A u \in Thread : u # t => todo'[u] = todo[u]
  BY <1>4, Tailed DEF Await
<1>6. /\ execID' = execID + 1 /\ pending' = execID + 1 /\ asked' = asked \cup {stage}
      /\ UNCHANGED <<stage, plan, history>>
  BY DEF Await, choiceVars
<1>7. CASE stage = "tool"
  <2>1. todo'[t] = Left("pending", 0) \o Pinned("tool")
    BY <1>5, <1>7 DEF First
  <2>2. todo'[t] = Left("pending", 0)' \o Pinned("tool")'
    BY <1>6, <2>1, Unmoved
  <2>3. 0 \in 0 .. Blobs /\ 0 < Blobs
    BY BlobsAssumption
  <2>4. pending' # 0
    BY <1>0, <1>6
  <2>5. \E k \in 0 .. Blobs : k < Blobs /\ todo'[t] = Left("pending", k)' \o Pinned("tool")'
    BY <2>2, <2>3
  <2>6. Naming(todo[t])'
    BY <1>6, <1>7, <2>4, <2>5 DEF Naming
  <2> QED BY <1>1, <1>2, <1>5, <1>6, <1>7, <2>6
<1>8. CASE stage # "tool"
  <2>1. todo'[t] = Question(stage)
    BY <1>5, <1>8 DEF First
  <2>2. pending' # 0
    BY <1>0, <1>6
  <2>3. Question(stage)' = Question(stage)
    BY <1>6 DEF Question
  <2>4. Asking(todo[t])'
    BY <1>2, <1>6, <2>1, <2>2, <2>3 DEF Asking
  <2> QED BY <1>1, <1>2, <1>5, <1>6, <1>8, <2>4
<1> QED BY <1>1, <1>2, <1>5, <1>6, <1>7, <1>8

(* The three ways to send: the next blob of a series, another frame, the   *)
(* ask.                                                                    *)
LEMMA SeriesStep ==
  ASSUME Domains, NEW t \in Thread, todo'[t] = Tail(todo[t]),
         NEW c \in Series, NEW q \in Program, NEW k \in Nat, k < Count(c), todo[t] = Left(c, k) \o q
  PROVE  /\ todo[t] # << >> /\ Does(t, "send") /\ Outgoing(t) = Item(c, k + 1)
         /\ todo'[t] = Left(c, k + 1) \o q
         /\ k + 1 = Count(c) => todo'[t] = q
<1>0. history \in Nat
  BY DEF Domains
<1>1. Starts(todo[t], [do |-> "send", frame |-> Item(c, k + 1)], Left(c, k + 1) \o q)
  BY <1>0, Starting
<1>2. Does(t, "send") /\ ~Does(t, "ask") /\ Next1(t).frame = Item(c, k + 1)
  BY <1>1 DEF Starts, Does, Next1
<1>3. todo'[t] = Left(c, k + 1) \o q
  BY <1>1 DEF Starts
<1>4. k + 1 = Count(c) => todo'[t] = q
  <2>1. Left(c, Count(c)) \o q = q
    BY <1>0, Starting
  <2> QED BY <1>3, <2>1
<1> QED BY <1>1, <1>2, <1>3, <1>4 DEF Outgoing, Starts

LEMMA FrameStep ==
  ASSUME Domains, NEW t \in Thread, todo'[t] = Tail(todo[t]),
         NEW f \in Frame, NEW q \in Program, todo[t] = Send(f) \o q
  PROVE  Does(t, "send") /\ Outgoing(t) = f /\ todo'[t] = q
<1>0. history \in Nat
  BY DEF Domains
<1>1. Starts(todo[t], [do |-> "send", frame |-> f], q)
  BY <1>0, Starting
<1>2. Does(t, "send") /\ ~Does(t, "ask") /\ Next1(t).frame = f
  BY <1>1 DEF Starts, Does, Next1
<1> QED BY <1>1, <1>2 DEF Outgoing, Starts

LEMMA QuestionStep ==
  ASSUME Domains, NEW t \in Thread, todo'[t] = Tail(todo[t]), todo[t] = Question(stage)
  PROVE  Does(t, "ask") /\ Outgoing(t) = AskFor(execID, stage) /\ todo'[t] = << >>
<1>1. Starts(todo[t], [do |-> "ask", stage |-> stage], << >>)
  BY Starting DEF Domains
<1>2. Does(t, "ask") /\ Next1(t).stage = stage
  BY <1>1 DEF Starts, Does, Next1
<1> QED BY <1>1, <1>2 DEF Outgoing, Starts

(* What every step that is neither an entry, an await nor a claim keeps.   *)
Settled == <<stage, pending, asked, plan, history>>

LEMMA SendMoves ==
  ASSUME Domains, Programs, NEW t \in Thread, Sending(t), Then(t, << >>), UNCHANGED Settled
  PROVE  /\ todo' \in [Thread -> Program] /\ todo'[t] = Tail(todo[t])
         /\ \A u \in Thread : u # t => todo'[u] = todo[u]
         /\ AtSend(todo[t]) \/ Asking(todo[t])
         /\ Fetching(todo[t]) => Fetching(todo[t])' \/ Entering(todo[t])'
         /\ Replying(todo[t]) => Entering(todo[t])'
         /\ Naming(todo[t]) => Naming(todo[t])' \/ Pinning(todo[t])'
         /\ Pinning(todo[t]) => Asking(todo[t])'
         /\ Asking(todo[t]) => todo'[t] = << >>
         /\ Storing(todo[t]) => Storing(todo[t])' \/ Sealing(todo[t])'
         /\ Sealing(todo[t]) => Leaving(todo[t])'
         /\ Leaving(todo[t]) => Closing(todo[t])'
<1>0. history \in Nat /\ UNCHANGED <<plan, history, stage, asked, pending>>
  BY DEF Domains, Settled
<1>1. todo[t] # << >>
  BY DEF Sending, Does
<1>2. /\ todo' \in [Thread -> Program] /\ todo'[t] = Tail(todo[t])
      /\ \A u \in Thread : u # t => todo'[u] = todo[u]
  BY <1>1, Tailed
<1>3. AtSend(todo[t]) \/ Asking(todo[t])
  BY Whereabouts DEF Sending
<1>4. /\ \A s : Into(s)' = Into(s) /\ Pinned(s)' = Pinned(s) /\ Asks(s)' = Asks(s)
      /\ \A c, k : Left(c, k)' = Left(c, k)
  BY <1>0, Unmoved
<1>5. /\ "history" \in Series /\ "pending" \in Series /\ "final" \in Series /\ Blobs \in Nat \ {0}
      /\ Count("history") = history /\ Count("pending") = Blobs /\ Count("final") = Blobs
  BY BlobsAssumption DEF Series, Count
<1>6. /\ \A s \in Stage : Into(s) \in Program /\ Pinned(s) \in Program /\ Question(s) \in Program
      /\ Farewell \in Program /\ Do("close") \in Program
      /\ "hook:prompt" \in Stage /\ "hook:stop" \in Stage /\ "tool" \in Stage
  BY <1>0, Composed, Simple DEF Stage
<1>7. /\ Answer \in Frame /\ Ended \in Frame
      /\ \A c \in {"pending", "final"}, r \in BOOLEAN : Checkpoint(c, r) \in Frame
      /\ \A r \in BOOLEAN : Send(Checkpoint("final", r)) \o Farewell \in Program
  BY <1>0, <1>6, Composed, Frames, Chained
<1>8. Fetching(todo[t]) => Fetching(todo[t])' \/ Entering(todo[t])'
  <2> SUFFICES ASSUME Fetching(todo[t]) PROVE Fetching(todo[t])' \/ Entering(todo[t])'
    OBVIOUS
  <2>1. PICK k \in 0 .. history : k < history /\ todo[t] = Left("history", k) \o Into("hook:prompt")
    BY DEF Fetching
  <2>2. k \in Nat /\ k < Count("history") /\ Into("hook:prompt") \in Program
    BY <1>0, <1>5, <1>6, <2>1
  <2>3. /\ todo'[t] = Left("history", k + 1) \o Into("hook:prompt")
        /\ k + 1 = Count("history") => todo'[t] = Into("hook:prompt")
    <3>1. todo'[t] = Tail(todo[t]) /\ "history" \in Series /\ todo[t] = Left("history", k) \o Into("hook:prompt")
      BY <1>2, <1>5, <2>1
    <3> QED BY <2>2, <3>1, SeriesStep
  <2>4. stage = "" /\ pending = 0
    BY DEF Fetching
  <2>5. CASE k + 1 < history
    <3>1. k + 1 \in 0 .. history
      BY <1>0, <2>2, <2>5
    <3>2. todo'[t] = Left("history", k + 1)' \o Into("hook:prompt")'
      BY <1>4, <2>3
    <3> QED BY <1>0, <2>4, <2>5, <3>1, <3>2 DEF Fetching
  <2>6. CASE k + 1 = history
    <3>1. todo'[t] = Into("hook:prompt") /\ pending' = 0
      BY <1>0, <1>5, <2>3, <2>4, <2>6
    <3>2. <<stage, "hook:prompt">> \in Turn!Order /\ stage \notin Middle
      BY <2>4 DEF Turn!Order, Middle
    <3> QED BY <1>0, <1>6, <3>1, <3>2, Entered
  <2> QED BY <1>0, <2>2, <2>5, <2>6, <1>5
<1>9. Replying(todo[t]) => Entering(todo[t])'
  <2> SUFFICES ASSUME Replying(todo[t]) PROVE Entering(todo[t])'
    OBVIOUS
  <2>1. /\ stage = "hook:compact" /\ pending = 0 /\ (stage \in asked <=> Asks(stage))
        /\ todo[t] = Send(Answer) \o Into("hook:stop")
    BY DEF Replying
  <2>2. todo'[t] = Into("hook:stop")
    BY <1>2, <1>6, <1>7, <2>1, FrameStep
  <2>3. <<stage, "hook:stop">> \in Turn!Order
    BY <2>1 DEF Turn!Order
  <2> QED BY <1>0, <1>6, <2>1, <2>2, <2>3, Entered
<1>10. Naming(todo[t]) => Naming(todo[t])' \/ Pinning(todo[t])'
  <2> SUFFICES ASSUME Naming(todo[t]) PROVE Naming(todo[t])' \/ Pinning(todo[t])'
    OBVIOUS
  <2>1. PICK k \in 0 .. Blobs : k < Blobs /\ todo[t] = Left("pending", k) \o Pinned("tool")
    BY DEF Naming
  <2>2. stage = "tool" /\ pending # 0
    BY DEF Naming
  <2>3. k \in Nat /\ k < Count("pending") /\ Pinned("tool") \in Program
    BY <1>5, <1>6, <2>1, <2>2
  <2>4. /\ todo'[t] = Left("pending", k + 1) \o Pinned("tool")
        /\ k + 1 = Count("pending") => todo'[t] = Pinned("tool")
    <3>1. todo'[t] = Tail(todo[t]) /\ "pending" \in Series /\ todo[t] = Left("pending", k) \o Pinned("tool")
      BY <1>2, <1>5, <2>1
    <3> QED BY <2>3, <3>1, SeriesStep
  <2>5. CASE k + 1 < Blobs
    <3>1. k + 1 \in 0 .. Blobs
      BY <1>5, <2>3, <2>5
    <3>2. todo'[t] = Left("pending", k + 1)' \o Pinned("tool")'
      BY <1>4, <2>4
    <3> QED BY <1>0, <2>2, <2>5, <3>1, <3>2 DEF Naming
  <2>6. CASE k + 1 = Blobs
    <3>1. todo'[t] = Pinned("tool")'
      BY <1>4, <1>5, <2>4, <2>6
    <3> QED BY <1>0, <2>2, <3>1 DEF Pinning
  <2> QED BY <1>5, <2>3, <2>5, <2>6
<1>11. Pinning(todo[t]) => Asking(todo[t])'
  <2> SUFFICES ASSUME Pinning(todo[t]) PROVE Asking(todo[t])'
    OBVIOUS
  <2>1. stage = "tool" /\ pending # 0 /\ todo[t] = Send(Checkpoint("pending", FALSE)) \o Question(stage)
    BY DEF Pinning, Pinned
  <2>2. todo'[t] = Question(stage)
    BY <1>2, <1>6, <1>7, <2>1, FrameStep
  <2> QED BY <1>0, <2>1, <2>2 DEF Asking, Question, Middle
<1>12. Asking(todo[t]) => todo'[t] = << >>
  BY <1>2, QuestionStep DEF Asking
<1>13. Storing(todo[t]) => Storing(todo[t])' \/ Sealing(todo[t])'
  <2> SUFFICES ASSUME Storing(todo[t]) PROVE Storing(todo[t])' \/ Sealing(todo[t])'
    OBVIOUS
  <2>1. PICK r \in BOOLEAN, k \in 0 .. Blobs :
          k < Blobs /\ todo[t] = Left("final", k) \o (Send(Checkpoint("final", r)) \o Farewell)
    BY DEF Storing
  <2> DEFINE q == Send(Checkpoint("final", r)) \o Farewell
  <2>2. stage = "done" /\ pending = 0
    BY DEF Storing
  <2>3. k \in Nat /\ k < Count("final") /\ q \in Program
    BY <1>5, <1>7, <2>1
  <2>4. /\ todo'[t] = Left("final", k + 1) \o q
        /\ k + 1 = Count("final") => todo'[t] = q
    <3>1. todo'[t] = Tail(todo[t]) /\ "final" \in Series /\ todo[t] = Left("final", k) \o q
      BY <1>2, <1>5, <2>1
    <3> QED BY <2>3, <3>1, SeriesStep
  <2>5. CASE k + 1 < Blobs
    <3>1. k + 1 \in 0 .. Blobs
      BY <1>5, <2>3, <2>5
    <3>2. todo'[t] = Left("final", k + 1)' \o q
      BY <1>4, <2>4
    <3> QED BY <1>0, <2>2, <2>5, <3>1, <3>2 DEF Storing, Farewell
  <2>6. CASE k + 1 = Blobs
    <3>1. todo'[t] = q
      BY <1>5, <2>4, <2>6
    <3> QED BY <1>0, <2>2, <3>1 DEF Sealing, Farewell
  <2> QED BY <1>5, <2>3, <2>5, <2>6
<1>14. Sealing(todo[t]) => Leaving(todo[t])'
  <2> SUFFICES ASSUME Sealing(todo[t]) PROVE Leaving(todo[t])'
    OBVIOUS
  <2>1. PICK r \in BOOLEAN : todo[t] = Send(Checkpoint("final", r)) \o Farewell
    BY DEF Sealing
  <2>2. stage = "done" /\ pending = 0 /\ Checkpoint("final", r) \in Frame
    BY <1>7 DEF Sealing
  <2>3. todo'[t] = Farewell
    BY <1>2, <1>6, <2>1, <2>2, FrameStep
  <2> QED BY <1>0, <2>2, <2>3 DEF Leaving, Farewell
<1>15. Leaving(todo[t]) => Closing(todo[t])'
  <2> SUFFICES ASSUME Leaving(todo[t]) PROVE Closing(todo[t])'
    OBVIOUS
  <2>1. stage = "done" /\ pending = 0 /\ todo[t] = Send(Ended) \o Do("close")
    BY DEF Leaving, Farewell
  <2>2. todo'[t] = Do("close")
    BY <1>2, <1>6, <1>7, <2>1, FrameStep
  <2> QED BY <1>0, <2>1, <2>2 DEF Closing, Do
<1> QED BY <1>2, <1>3, <1>8, <1>9, <1>10, <1>11, <1>12, <1>13, <1>14, <1>15

LEMMA AdvanceMoves ==
  ASSUME Domains, Programs, NEW t \in Thread, AdvanceTurn(t)
  PROVE  /\ Advancing(todo[t]) /\ stage \in Middle
         /\ todo' \in [Thread -> Program] /\ \A u \in Thread : u # t => todo'[u] = todo[u]
         /\ \/ stage = "context" /\ Deciding(todo[t])'
            \/ stage = "hook:compact" /\ Answering(todo[t])'
            \/ stage \in {"hook:prompt", "tool", "hook:stop"} /\ Entering(todo[t])'
<1>0. history \in Nat /\ UNCHANGED Settled /\ UNCHANGED <<plan, history, asked, stage, pending>>
  BY DEF Domains, Settled, AdvanceTurn, sessionVars, choiceVars, historyVars
<1>1. Does(t, "advance") /\ Advancing(todo[t])
  BY Whereabouts DEF AdvanceTurn
<1>2. stage \in Middle /\ pending = 0 /\ (stage \in asked <=> Asks(stage)) /\ todo[t] = Do("advance")
  BY <1>1 DEF Advancing
<1>3. todo[t] # << >> /\ Tail(todo[t]) = << >>
  BY <1>0, <1>2, Starting DEF Starts
<1>4. /\ \A s \in Stage : Into(s) \in Program
      /\ "context" \in Stage /\ "hook:compact" \in Stage /\ "hook:stop" \in Stage /\ "done" \in Stage
  BY <1>0, Composed DEF Stage
<1>5. Do("answer") \in Program /\ Do("decide") \in Program
  BY Simple
<1>6. Do("answer") \o Into("hook:stop") \in Program
  BY <1>4, <1>5, Chained
<1>7. /\ stage = "hook:prompt" => Advance = Into("context")
      /\ stage = "context" => Advance = Do("decide")
      /\ stage = "tool" => Advance = Into("hook:compact")
      /\ stage = "hook:compact" => Advance = Do("answer") \o Into("hook:stop")
      /\ stage = "hook:stop" => Advance = Into("done")
  BY <1>0, Advances
<1>8. Advance \in Program
  BY <1>2, <1>4, <1>5, <1>6, <1>7 DEF Middle
<1>9. /\ todo'[t] = Advance \o << >> /\ todo' \in [Thread -> Program]
      /\ \A u \in Thread : u # t => todo'[u] = todo[u]
  BY <1>3, <1>8, NextProgram DEF AdvanceTurn
<1>10. todo'[t] = Advance
  BY <1>8, <1>9, Nothing
<1>11. \A s : Into(s)' = Into(s) /\ Asks(s)' = Asks(s)
  BY <1>0, Unmoved
<1>12. stage = "context" => Deciding(todo[t])'
  BY <1>0, <1>2, <1>7, <1>10 DEF Deciding, Asks, Do
<1>13. stage = "hook:compact" => Answering(todo[t])'
  BY <1>0, <1>2, <1>7, <1>10, <1>11 DEF Answering, Do
<1>14. ASSUME NEW s \in Stage, <<stage, s>> \in Turn!Order, Advance = Into(s)
       PROVE  Entering(todo[t])'
  BY <1>0, <1>2, <1>10, <1>14, Entered
<1>15. /\ stage = "hook:prompt" => <<stage, "context">> \in Turn!Order
       /\ stage = "tool" => <<stage, "hook:compact">> \in Turn!Order
       /\ stage = "hook:stop" => <<stage, "done">> \in Turn!Order
  BY DEF Turn!Order
<1>16. stage \in {"hook:prompt", "tool", "hook:stop"} => Entering(todo[t])'
  BY <1>4, <1>7, <1>14, <1>15
<1> QED BY <1>1, <1>2, <1>9, <1>12, <1>13, <1>16 DEF Middle

LEMMA DecideMoves ==
  ASSUME Domains, Programs, NEW t \in Thread, Decide(t)
  PROVE  /\ Deciding(todo[t]) /\ stage = "context"
         /\ todo' \in [Thread -> Program] /\ \A u \in Thread : u # t => todo'[u] = todo[u]
         /\ Entering(todo[t])'
         /\ \/ tool # "none" /\ tool' = "none" /\ called' = tool /\ todo'[t] = Into("tool")
            \/ tool = "none" /\ UNCHANGED <<tool, called>> /\ todo'[t] = Into("hook:compact")
<1>0. history \in Nat /\ UNCHANGED <<plan, history, asked, stage, pending>>
  BY DEF Domains, Decide, choiceVars
<1>1. Does(t, "decide") /\ Deciding(todo[t])
  BY Whereabouts DEF Decide
<1>2. stage = "context" /\ pending = 0 /\ stage \in asked /\ todo[t] = Do("decide")
  BY <1>1 DEF Deciding
<1>3. todo[t] # << >> /\ Tail(todo[t]) = << >>
  BY <1>0, <1>2, Starting DEF Starts
<1>4. "tool" \in Stage /\ "hook:compact" \in Stage /\ Into("tool") \in Program /\ Into("hook:compact") \in Program
  BY <1>0, Composed DEF Stage
<1>5. Exchange("tool", Save("pending", FALSE)) = Into("tool") /\ Finish = Into("hook:compact")
  BY <1>0, Entries
<1>6. <<stage, "tool">> \in Turn!Order /\ <<stage, "hook:compact">> \in Turn!Order /\ Asks(stage)
  BY <1>2 DEF Turn!Order, Asks
<1>7. ASSUME NEW s \in Stage, <<stage, s>> \in Turn!Order, Into(s) \in Program, Then(t, Into(s))
      PROVE  /\ todo'[t] = Into(s) /\ todo' \in [Thread -> Program]
             /\ \A u \in Thread : u # t => todo'[u] = todo[u]
             /\ Entering(todo[t])'
  <2>1. /\ todo'[t] = Into(s) \o << >> /\ todo' \in [Thread -> Program]
        /\ \A u \in Thread : u # t => todo'[u] = todo[u]
    BY <1>3, <1>7, NextProgram
  <2>2. todo'[t] = Into(s)
    BY <1>7, <2>1, Nothing
  <2>3. Entering(todo[t])'
    BY <1>0, <1>2, <1>6, <1>7, <2>2, Entered
  <2> QED BY <2>1, <2>2, <2>3
<1>8. CASE tool # "none" /\ tool' = "none" /\ called' = tool /\ Then(t, Into("tool"))
  BY <1>1, <1>2, <1>4, <1>6, <1>7, <1>8
<1>9. CASE tool = "none" /\ UNCHANGED <<tool, called>> /\ Then(t, Into("hook:compact"))
  BY <1>1, <1>2, <1>4, <1>6, <1>7, <1>9
<1> QED BY <1>5, <1>8, <1>9 DEF Decide

LEMMA AnswerMoves ==
  ASSUME Domains, Programs, NEW t \in Thread, GiveAnswer(t)
  PROVE  /\ Answering(todo[t]) /\ todo' \in [Thread -> Program]
         /\ \A u \in Thread : u # t => todo'[u] = todo[u]
         /\ Replying(todo[t])'
<1>0. history \in Nat /\ UNCHANGED <<plan, history, asked, stage, pending>>
  BY DEF Domains, GiveAnswer, choiceVars, historyVars
<1>1. Does(t, "answer") /\ Answering(todo[t])
  BY Whereabouts DEF GiveAnswer
<1>2. /\ stage = "hook:compact" /\ pending = 0 /\ (stage \in asked <=> Asks(stage))
      /\ todo[t] = Do("answer") \o Into("hook:stop")
  BY <1>1 DEF Answering
<1>3. Into("hook:stop") \in Program /\ Send(Answer) \in Program
  BY <1>0, Composed, Simple, Frames DEF Stage
<1>4. todo[t] # << >> /\ Tail(todo[t]) = Into("hook:stop")
  BY <1>0, <1>2, <1>3, Starting DEF Starts
<1>5. /\ todo'[t] = Send(Answer) \o Into("hook:stop") /\ todo' \in [Thread -> Program]
      /\ \A u \in Thread : u # t => todo'[u] = todo[u]
  BY <1>3, <1>4, NextProgram DEF GiveAnswer
<1>6. \A s : Into(s)' = Into(s) /\ Asks(s)' = Asks(s)
  BY <1>0, Unmoved
<1>7. Replying(todo[t])'
  BY <1>0, <1>2, <1>5, <1>6 DEF Replying
<1> QED BY <1>1, <1>5, <1>7

LEMMA SaveMoves ==
  ASSUME Domains, Programs, NEW t \in Thread, SaveTurn(t)
  PROVE  /\ Saving(todo[t]) /\ todo' \in [Thread -> Program]
         /\ \A u \in Thread : u # t => todo'[u] = todo[u]
         /\ todo'[t] = Left("final", 0) \o (Send(Checkpoint("final", toolOut)) \o Farewell)
         /\ Storing(todo[t])'
<1>0. history \in Nat /\ toolOut \in BOOLEAN /\ UNCHANGED <<plan, history, asked, stage, pending>>
  BY DEF Domains, SaveTurn, choiceVars, historyVars
<1>1. Does(t, "save") /\ Saving(todo[t])
  BY Whereabouts DEF SaveTurn
<1>2. stage = "done" /\ pending = 0 /\ todo[t] = Do("save") \o Farewell
  BY <1>1 DEF Saving
<1>3. Farewell \in Program
  BY <1>0, Composed
<1>4. todo[t] # << >> /\ Tail(todo[t]) = Farewell
  BY <1>0, <1>2, <1>3, Starting DEF Starts
<1>5. Save("final", toolOut) \in Program
  BY <1>0, <1>3, Saves
<1>6. /\ todo'[t] = Save("final", toolOut) \o Farewell /\ todo' \in [Thread -> Program]
      /\ \A u \in Thread : u # t => todo'[u] = todo[u]
  BY <1>4, <1>5, NextProgram DEF SaveTurn
<1>7. todo'[t] = Left("final", 0) \o (Send(Checkpoint("final", toolOut)) \o Farewell)
  BY <1>0, <1>3, <1>6, Saves
<1>8. Storing(todo[t])'
  <2>1. Left("final", 0)' = Left("final", 0)
    BY <1>0, Unmoved
  <2>2. 0 \in 0 .. Blobs /\ 0 < Blobs
    BY BlobsAssumption
  <2>3. \E r \in BOOLEAN, k \in 0 .. Blobs :
          k < Blobs /\ todo'[t] = Left("final", k)' \o (Send(Checkpoint("final", r)) \o Farewell)
    BY <1>0, <1>7, <2>1, <2>2
  <2> QED BY <1>0, <1>2, <2>3 DEF Storing, Farewell
<1> QED BY <1>1, <1>6, <1>7, <1>8

LEMMA CloseMoves ==
  ASSUME Domains, Programs, NEW t \in Thread, CloseTurn(t)
  PROVE  /\ Closing(todo[t]) /\ todo' \in [Thread -> Program]
         /\ \A u \in Thread : u # t => todo'[u] = todo[u]
         /\ todo'[t] = << >>
<1>0. history \in Nat
  BY DEF Domains
<1>1. Does(t, "close") /\ Closing(todo[t])
  BY Whereabouts DEF CloseTurn
<1>2. todo[t] # << >> /\ Tail(todo[t]) = << >>
  BY <1>0, <1>1, Starting DEF Closing, Starts
<1>3. /\ todo'[t] = << >> /\ todo' \in [Thread -> Program]
      /\ \A u \in Thread : u # t => todo'[u] = todo[u]
  BY <1>2, Tailed DEF CloseTurn
<1> QED BY <1>1, <1>3

(* The handler of a reply, from its first instruction on.                  *)
LEMMA Pending ==
  ASSUME Domains, NEW j \in DOMAIN got, got[j].kind = "exec", NEW r \in BOOLEAN
  PROVE  LET e == [do |-> "claim", id |-> got[j].id, result |-> r]
         IN  /\ got[j].id \in Nat /\ got[j].stage \in Middle /\ <<e>> \in Program
             /\ Starts(<<e>>, e, << >>)
             /\ Starts(Do("store") \o <<e>>, [do |-> "store"], <<e>>)
             /\ Do("store") \o <<e>> \in Program
<1> DEFINE e == [do |-> "claim", id |-> got[j].id, result |-> r]
<1>0. history \in Nat
  BY DEF Domains
<1>1. got[j].id \in Nat /\ got[j].stage \in Middle
  <2>1. got[j] \in Frame
    BY LenProperties, ElementOfSeq DEF Domains
  <2> QED BY <2>1 DEF Frame
<1>2. <<e>> \in Program /\ Starts(<<e>>, e, << >>)
  BY <1>1, Instructions, One DEF Starts
<1>3. Do("store") \in Program /\ Starts(Do("store") \o <<e>>, [do |-> "store"], <<e>>)
  BY <1>0, <1>2, Starting, Simple
<1>4. Do("store") \o <<e>> \in Program
  BY <1>2, <1>3, Chained
<1> QED BY <1>1, <1>2, <1>3, <1>4

LEMMA ClaimMoves ==
  ASSUME Domains, Programs, NEW t \in Thread, Claim(t)
  PROVE  /\ t.by = "reply" /\ Claiming(todo[t]) /\ ~Drives(t)
         /\ todo' \in [Thread -> Program] /\ \A u \in Thread : u # t => todo'[u] = todo[u]
         /\ \E j \in DOMAIN got, r \in BOOLEAN :
              /\ got[j].kind = "exec" /\ (r => got[j].stage = "tool")
              /\ todo[t] = <<[do |-> "claim", id |-> got[j].id, result |-> r]>>
              /\ \/ /\ pending # 0 /\ pending = got[j].id /\ pending' = 0
                    /\ returned' = (returned \/ r) /\ todo'[t] = Do("advance")
                 \/ todo'[t] = << >> /\ UNCHANGED <<pending, returned>>
<1>0. history \in Nat
  BY DEF Domains
<1>1. Does(t, "claim") /\ t.by = "reply" /\ Claiming(todo[t]) /\ ~Drives(t)
  BY Whereabouts DEF Claim
<1>2. PICK j \in DOMAIN got, r \in BOOLEAN :
        got[j].kind = "exec" /\ (r => got[j].stage = "tool") /\ Claims(todo[t], got[j].id, r)
  BY <1>1 DEF Claiming
<1> DEFINE e == [do |-> "claim", id |-> got[j].id, result |-> r]
<1>3. /\ Starts(<<e>>, e, << >>)
      /\ Starts(Do("store") \o <<e>>, [do |-> "store"], <<e>>)
  BY <1>2, Pending
<1>4. todo[t] = <<e>>
  <2>1. todo[t] = <<e>> \/ todo[t] = Do("store") \o <<e>>
    BY <1>2 DEF Claims
  <2>2. Head(todo[t]).do = "claim"
    BY <1>1 DEF Does, Next1
  <2>3. todo[t] # Do("store") \o <<e>>
    BY <1>3, <2>2 DEF Starts
  <2> QED BY <2>1, <2>3
<1>5. todo[t] # << >> /\ Head(todo[t]) = e /\ Tail(todo[t]) = << >>
  BY <1>3, <1>4 DEF Starts
<1>6. Next1(t).id = got[j].id /\ Next1(t).result = r
  BY <1>5 DEF Next1
<1>7. CASE Current(got[j].id) /\ pending' = 0 /\ returned' = (returned \/ r) /\ Then(t, Do("advance"))
  <2>1. Do("advance") \in Program
    BY Simple
  <2>2. /\ todo'[t] = Do("advance") \o << >> /\ todo' \in [Thread -> Program]
        /\ \A u \in Thread : u # t => todo'[u] = todo[u]
    BY <1>5, <1>7, <2>1, NextProgram
  <2>3. todo'[t] = Do("advance")
    BY <2>1, <2>2, Nothing
  <2> QED BY <1>1, <1>2, <1>4, <1>7, <2>2, <2>3 DEF Current
<1>8. CASE ~Current(got[j].id) /\ Then(t, << >>) /\ UNCHANGED <<pending, returned>>
  <2>1. /\ todo'[t] = << >> /\ todo' \in [Thread -> Program]
        /\ \A u \in Thread : u # t => todo'[u] = todo[u]
    BY <1>5, <1>8, Tailed
  <2> QED BY <1>1, <1>2, <1>4, <1>8, <2>1
<1> QED BY <1>6, <1>7, <1>8 DEF Claim

LEMMA StoreMoves ==
  ASSUME Domains, Programs, NEW t \in Thread, Store(t)
  PROVE  /\ t.by = "reply" /\ Claiming(todo[t]) /\ ~Drives(t)
         /\ todo' \in [Thread -> Program] /\ \A u \in Thread : u # t => todo'[u] = todo[u]
         /\ \E j \in DOMAIN got :
              /\ got[j].kind = "exec" /\ got[j].stage = "tool"
              /\ todo'[t] = <<[do |-> "claim", id |-> got[j].id, result |-> TRUE]>>
         /\ Claiming(todo[t])'
<1>1. Does(t, "store") /\ t.by = "reply" /\ Claiming(todo[t]) /\ ~Drives(t)
  BY Whereabouts DEF Store
<1>2. PICK j \in DOMAIN got, r \in BOOLEAN :
        got[j].kind = "exec" /\ (r => got[j].stage = "tool") /\ Claims(todo[t], got[j].id, r)
  BY <1>1 DEF Claiming
<1> DEFINE e == [do |-> "claim", id |-> got[j].id, result |-> r]
<1>3. /\ Starts(<<e>>, e, << >>)
      /\ Starts(Do("store") \o <<e>>, [do |-> "store"], <<e>>)
  BY <1>2, Pending
<1>4. todo[t] = Do("store") \o <<e>> /\ r
  <2>1. todo[t] = <<e>> \/ (todo[t] = Do("store") \o <<e>> /\ r)
    BY <1>2 DEF Claims
  <2>2. Head(todo[t]).do = "store"
    BY <1>1 DEF Does, Next1
  <2>3. todo[t] # <<e>>
    BY <1>3, <2>2 DEF Starts
  <2> QED BY <2>1, <2>3
<1>5. todo[t] # << >> /\ Tail(todo[t]) = <<e>>
  BY <1>3, <1>4 DEF Starts
<1>6. /\ todo'[t] = <<e>> /\ todo' \in [Thread -> Program]
      /\ \A u \in Thread : u # t => todo'[u] = todo[u]
  BY <1>5, Tailed DEF Store
<1>7. Claiming(todo[t])'
  <2>1. got' = got
    BY DEF Store, clientVars
  <2> QED BY <1>2, <1>6, <2>1 DEF Claiming, Claims
<1> QED BY <1>1, <1>2, <1>4, <1>6, <1>7

LEMMA ReplyMoves ==
  ASSUME Domains, NEW i \in 1 .. plan.slots, NEW j \in DOMAIN got, NEW r \in BOOLEAN,
         Reply(i, got[j], r)
  PROVE  /\ Handler(i) \in Thread /\ Handler(i).by = "reply" /\ todo[Handler(i)] = << >>
         /\ todo' \in [Thread -> Program]
         /\ \A u \in Thread : u # Handler(i) => todo'[u] = todo[u]
         /\ todo'[Handler(i)] = HandleReply(got[j].id, r)
         /\ got[j].kind = "exec" /\ (r => got[j].stage = "tool")
         /\ Claiming(todo[Handler(i)])'
<1>1. i \in 1 .. Slots
  <2>1. plan \in Plan
    BY PlansAssumption DEF Domains
  <2>2. plan.slots \in 1 .. Slots
    BY <2>1 DEF Plan
  <2> QED BY <2>2, SlotsAssumption
<1>2. Handler(i) \in Thread /\ Handler(i).by = "reply"
  BY <1>1 DEF Handler, Thread
<1>3. got[j].kind = "exec" /\ (r => got[j].stage = "tool") /\ todo[Handler(i)] = << >> /\ got' = got
  BY DEF Reply
<1> DEFINE e == [do |-> "claim", id |-> got[j].id, result |-> r]
<1>4. <<e>> \in Program /\ Do("store") \o <<e>> \in Program
  BY <1>3, Pending
<1>5. HandleReply(got[j].id, r) = IF r THEN Do("store") \o <<e>> ELSE <<e>>
  BY <1>4, Nothing DEF HandleReply
<1>6. HandleReply(got[j].id, r) \in Program
  BY <1>4, <1>5
<1>7. todo' = [todo EXCEPT ![Handler(i)] = HandleReply(got[j].id, r)]
  BY DEF Reply
<1>8. /\ todo' \in [Thread -> Program] /\ todo'[Handler(i)] = HandleReply(got[j].id, r)
      /\ \A u \in Thread : u # Handler(i) => todo'[u] = todo[u]
  BY <1>2, <1>6, <1>7 DEF Domains
<1>9. Claiming(todo[Handler(i)])'
  BY <1>3, <1>5, <1>8 DEF Claiming, Claims
<1> QED BY <1>2, <1>3, <1>8, <1>9

LEMMA RequestMoves ==
  ASSUME Domains, Led, execID <= Number(stage), RunRequest
  PROVE  /\ todo' \in [Thread -> Program] /\ Run \in Thread
         /\ stage = "" /\ pending = 0 /\ execID = 0 /\ begun'
         /\ \A u \in Thread : todo[u] = << >> /\ (u # Run => todo'[u] = todo[u])
         /\ todo'[Run] = Left("history", 0) \o Into("hook:prompt")
         /\ Fetching(todo[Run])' \/ (history = 0 /\ todo'[Run] = Into("hook:prompt") /\ Entering(todo[Run])')
<1>0. history \in Nat /\ UNCHANGED <<plan, history, asked, stage, pending>>
  BY DEF Domains, RunRequest, choiceVars, sessionVars, historyVars
<1>1. Run \in Thread
  BY DEF Run, Thread
<1>2. stage = "" /\ \A u \in Thread : todo[u] = << >>
  BY DEF Led, RunRequest
<1>3. execID = 0 /\ pending = 0
  <2>1. Number(stage) = 0
    BY <1>2 DEF Number
  <2>2. execID \in 0 .. 5 /\ pending \in {0, execID}
    BY DEF Domains
  <2> QED BY <2>1, <2>2
<1>4. "hook:prompt" \in Stage /\ Into("hook:prompt") \in Program /\ "history" \in Series /\ Count("history") = history
  BY <1>0, Composed DEF Stage, Series, Count
<1>5. Left("history", 0) \in Program
  BY <1>0, <1>4, Composed
<1>6. Left("history", 0) \o Into("hook:prompt") \in Program
  BY <1>4, <1>5, Chained
<1>7. todo' = [todo EXCEPT ![Run] = Left("history", 0) \o Into("hook:prompt")]
  BY <1>0, Begins DEF RunRequest
<1>8. /\ todo' \in [Thread -> Program] /\ todo'[Run] = Left("history", 0) \o Into("hook:prompt")
      /\ \A u \in Thread : u # Run => todo'[u] = todo[u]
  BY <1>1, <1>6, <1>7 DEF Domains
<1>9. CASE history = 0
  <2>1. todo'[Run] = Into("hook:prompt")
    <3>1. Left("history", Count("history")) \o Into("hook:prompt") = Into("hook:prompt")
      BY <1>0, <1>4, Starting
    <3> QED BY <1>4, <1>8, <1>9, <3>1
  <2>2. <<stage, "hook:prompt">> \in Turn!Order /\ stage \notin Middle
    BY <1>2 DEF Turn!Order, Middle
  <2>3. Entering(todo[Run])'
    BY <1>0, <1>1, <1>3, <1>4, <2>1, <2>2, Entered
  <2> QED BY <1>1, <1>2, <1>3, <1>8, <1>9, <2>1, <2>3 DEF RunRequest
<1>10. CASE history # 0
  <2>1. Left("history", 0)' = Left("history", 0) /\ Into("hook:prompt")' = Into("hook:prompt")
    BY <1>0, Unmoved
  <2>2. 0 \in 0 .. history /\ 0 < history
    BY <1>0, <1>10
  <2>3. \E k \in 0 .. history : k < history /\ todo'[Run] = Left("history", k)' \o Into("hook:prompt")'
    BY <1>8, <2>1, <2>2
  <2>4. Fetching(todo[Run])'
    BY <1>0, <1>2, <1>3, <2>3 DEF Fetching
  <2> QED BY <1>1, <1>2, <1>3, <1>8, <2>4 DEF RunRequest
<1> QED BY <1>9, <1>10

LEMMA Numbers ==
  /\ \A s \in Middle : Number(s) \in 1 .. 5
  /\ \A s \in Stage : Number(s) \in 0 .. 6
  /\ \A a, b : <<a, b>> \in Turn!Order => Number(a) < Number(b) /\ a \in Stage /\ b \in Stage \ {""}
<1>1. \A s : /\ s = "" => Number(s) = 0
             /\ s = "hook:prompt" => Number(s) = 1
             /\ s = "context" => Number(s) = 2
             /\ s = "tool" => Number(s) = 3
             /\ s = "hook:compact" => Number(s) = 4
             /\ s = "hook:stop" => Number(s) = 5
             /\ s = "done" => Number(s) = 6
  BY DEF Number
<1>2. ASSUME NEW s \in Stage PROVE Number(s) \in 0 .. 6 /\ (s \in Middle => Number(s) \in 1 .. 5)
  <2>1. \/ Number(s) = 0 \/ Number(s) = 1 \/ Number(s) = 2 \/ Number(s) = 3
        \/ Number(s) = 4 \/ Number(s) = 5 \/ Number(s) = 6
    BY <1>1 DEF Stage
  <2>2. s \in Middle => \/ Number(s) = 1 \/ Number(s) = 2 \/ Number(s) = 3
                        \/ Number(s) = 4 \/ Number(s) = 5
    BY <1>1 DEF Middle
  <2> QED BY <2>1, <2>2
<1>3. Middle \subseteq Stage
  BY DEF Middle, Stage
<1>4. ASSUME NEW a, NEW b, <<a, b>> \in Turn!Order
      PROVE  Number(a) < Number(b) /\ a \in Stage /\ b \in Stage \ {""}
  <2>1. \/ (a = "" /\ b = "hook:prompt") \/ (a = "hook:prompt" /\ b = "context")
        \/ (a = "context" /\ b = "tool") \/ (a = "context" /\ b = "hook:compact")
        \/ (a = "tool" /\ b = "hook:compact") \/ (a = "hook:compact" /\ b = "hook:stop")
        \/ (a = "hook:stop" /\ b = "done")
    BY <1>4 DEF Turn!Order
  <2>2. a \in Stage /\ b \in Stage \ {""}
    BY <2>1 DEF Stage
  <2>3. \/ (Number(a) = 0 /\ Number(b) = 1) \/ (Number(a) = 1 /\ Number(b) = 2)
        \/ (Number(a) = 2 /\ Number(b) = 3) \/ (Number(a) = 2 /\ Number(b) = 4)
        \/ (Number(a) = 3 /\ Number(b) = 4) \/ (Number(a) = 4 /\ Number(b) = 5)
        \/ (Number(a) = 5 /\ Number(b) = 6)
    BY <1>1, <2>1
  <2>4. Number(a) < Number(b)
    BY <2>3
  <2> QED BY <2>2, <2>4
<1> QED BY <1>2, <1>3, <1>4

---------------------------------------------------------------------------
(***************************************************************************)
(* What a step leaves where it was.                                        *)
(***************************************************************************)
Heads ==
  \A t \in Thread :
    /\ AtSend(todo[t]) => todo[t] # << >> /\ Head(todo[t]).do = "send"
    /\ Entering(todo[t]) => todo[t] # << >> /\ Head(todo[t]).do = "enter"
    /\ Awaiting(todo[t]) => todo[t] # << >> /\ Head(todo[t]).do = "await"
    /\ Asking(todo[t]) => todo[t] # << >> /\ Head(todo[t]).do = "ask"
    /\ Advancing(todo[t]) => todo[t] # << >> /\ Head(todo[t]).do = "advance"
    /\ Deciding(todo[t]) => todo[t] # << >> /\ Head(todo[t]).do = "decide"
    /\ Answering(todo[t]) => todo[t] # << >> /\ Head(todo[t]).do = "answer"
    /\ Saving(todo[t]) => todo[t] # << >> /\ Head(todo[t]).do = "save"
    /\ Closing(todo[t]) => todo[t] # << >> /\ Head(todo[t]).do = "close"
    /\ Claiming(todo[t]) => todo[t] # << >> /\ Head(todo[t]).do \in {"store", "claim"}

LEMMA Headed == Domains => Heads
  BY Places, Claimants DEF Heads

LEMMA HeadedNext == Domains' => Heads'
  BY Headed, PTL

(* Whoever drives is in place, and the other way round.                    *)
Driven == \A t \in Thread : Drives(t) <=> InPlace(todo[t])

LEMMA DrivenNow == Domains /\ Programs => Driven
  BY Whereabouts DEF Driven

LEMMA DrivenNext == Domains' /\ Programs' => Driven'
  BY DrivenNow, PTL

(* A place depends on the state of the turn alone.                         *)
SamePlace(u) ==
  /\ Fetching(todo[u])' <=> Fetching(todo[u])
  /\ Entering(todo[u])' <=> Entering(todo[u])
  /\ Answering(todo[u])' <=> Answering(todo[u])
  /\ Replying(todo[u])' <=> Replying(todo[u])
  /\ Awaiting(todo[u])' <=> Awaiting(todo[u])
  /\ Naming(todo[u])' <=> Naming(todo[u])
  /\ Pinning(todo[u])' <=> Pinning(todo[u])
  /\ Asking(todo[u])' <=> Asking(todo[u])
  /\ Advancing(todo[u])' <=> Advancing(todo[u])
  /\ Deciding(todo[u])' <=> Deciding(todo[u])
  /\ Saving(todo[u])' <=> Saving(todo[u])
  /\ Storing(todo[u])' <=> Storing(todo[u])
  /\ Sealing(todo[u])' <=> Sealing(todo[u])
  /\ Leaving(todo[u])' <=> Leaving(todo[u])
  /\ Closing(todo[u])' <=> Closing(todo[u])

LEMMA Stays ==
  ASSUME UNCHANGED Settled, NEW u \in Thread, todo'[u] = todo[u]
  PROVE  SamePlace(u) /\ (InPlace(todo[u])' <=> InPlace(todo[u])) /\ (Unsent(todo[u])' <=> Unsent(todo[u]))
<1>0. UNCHANGED <<stage, pending, asked, plan, history>>
  BY DEF Settled
<1>1. /\ \A s : Into(s)' = Into(s) /\ Pinned(s)' = Pinned(s) /\ Asks(s)' = Asks(s) /\ First(s)' = First(s)
      /\ \A c, k : Left(c, k)' = Left(c, k)
  BY <1>0, Unmoved
<1>2. Fetching(todo[u])' <=> Fetching(todo[u])
  BY <1>0, <1>1 DEF Fetching
<1>3. Entering(todo[u])' <=> Entering(todo[u])
  BY <1>0, <1>1 DEF Entering
<1>4. Answering(todo[u])' <=> Answering(todo[u])
  BY <1>0, <1>1 DEF Answering
<1>5. Replying(todo[u])' <=> Replying(todo[u])
  BY <1>0, <1>1 DEF Replying
<1>6. Awaiting(todo[u])' <=> Awaiting(todo[u])
  BY <1>0, <1>1 DEF Awaiting
<1>7. Naming(todo[u])' <=> Naming(todo[u])
  BY <1>0, <1>1 DEF Naming
<1>8. Pinning(todo[u])' <=> Pinning(todo[u])
  BY <1>0, <1>1 DEF Pinning
<1>9. Asking(todo[u])' <=> Asking(todo[u])
  BY <1>0, <1>1 DEF Asking, Question
<1>10. Advancing(todo[u])' <=> Advancing(todo[u])
  BY <1>0, <1>1 DEF Advancing
<1>11. Deciding(todo[u])' <=> Deciding(todo[u])
  BY <1>0, <1>1 DEF Deciding
<1>12. Saving(todo[u])' <=> Saving(todo[u])
  BY <1>0, <1>1 DEF Saving, Farewell
<1>13. Storing(todo[u])' <=> Storing(todo[u])
  BY <1>0, <1>1 DEF Storing, Farewell
<1>14. Sealing(todo[u])' <=> Sealing(todo[u])
  BY <1>0, <1>1 DEF Sealing, Farewell
<1>15. Leaving(todo[u])' <=> Leaving(todo[u])
  BY <1>0, <1>1 DEF Leaving, Farewell
<1>16. Closing(todo[u])' <=> Closing(todo[u])
  BY <1>0, <1>1 DEF Closing
<1>17. SamePlace(u)
  BY <1>2, <1>3, <1>4, <1>5, <1>6, <1>7, <1>8, <1>9, <1>10, <1>11, <1>12, <1>13, <1>14, <1>15, <1>16
     DEF SamePlace
<1>18. Unsent(todo[u])' <=> Unsent(todo[u])
  BY <1>7, <1>8, <1>9 DEF Unsent
<1>19. InPlace(todo[u])' <=> InPlace(todo[u])
  BY <1>2, <1>3, <1>4, <1>5, <1>6, <1>10, <1>11, <1>12, <1>13, <1>14, <1>15, <1>16, <1>18 DEF InPlace
<1> QED BY <1>17, <1>18, <1>19

(* What a client received it keeps.                                        *)
Received == got' = got \/ \E f \in Frame : got' = Append(got, f)

LEMMA ClaimKept ==
  ASSUME Domains, Received, NEW u \in Thread, todo'[u] = todo[u], Claiming(todo[u])
  PROVE  Claiming(todo[u])'
<1>1. PICK j \in DOMAIN got, r \in BOOLEAN :
        got[j].kind = "exec" /\ (r => got[j].stage = "tool") /\ Claims(todo[u], got[j].id, r)
  BY DEF Claiming
<1>2. j \in DOMAIN got' /\ got'[j] = got[j]
  <2>1. got \in Seq(Frame)
    BY DEF Domains
  <2>2. CASE got' = got
    BY <2>2
  <2>3. ASSUME NEW f \in Frame, got' = Append(got, f) PROVE j \in DOMAIN got' /\ got'[j] = got[j]
    BY <2>1, <2>3, AppendProperties, LenProperties
  <2> QED BY <2>2, <2>3 DEF Received
<1>3. Claims(todo'[u], got'[j].id, r)
  BY <1>1, <1>2 DEF Claims
<1> QED BY <1>1, <1>2, <1>3 DEF Claiming

(* One thread drives, or takes over where none did.                        *)
LEMMA Driver ==
  ASSUME Domains, Domains', Programs, Received, NEW t \in Thread,
         \A u \in Thread : u # t => ~Drives(u) /\ todo'[u] = todo[u],
         InPlace(todo[t])' \/ todo'[t] = << >>
  PROVE  /\ Programs' /\ OneDriver'
         /\ Drives(t)' <=> InPlace(todo[t])'
         /\ \A u \in Thread : u # t => ~Drives(u)' /\ ~InPlace(todo[u])'
<1>1. ASSUME NEW u \in Thread, u # t PROVE ~Drives(u)' /\ (todo'[u] = << >> \/ (u.by = "reply" /\ Claiming(todo[u])'))
  <2>1. ~Drives(u) /\ todo'[u] = todo[u]
    BY <1>1
  <2>2. ~Drives(u)'
    BY <2>1 DEF Drives
  <2>3. ~InPlace(todo[u])
    BY <2>1, Whereabouts
  <2>4. todo[u] = << >> \/ (u.by = "reply" /\ Claiming(todo[u]))
    BY <2>3 DEF Programs
  <2> QED BY <2>1, <2>2, <2>4, ClaimKept
<1>2. Programs'
  BY <1>1 DEF Programs
<1>3. OneDriver'
  BY <1>1 DEF OneDriver
<1>4. Driven'
  BY <1>2, DrivenNext
<1> QED BY <1>1, <1>2, <1>3, <1>4 DEF Driven

(* Nobody who drives moves; a handler may.                                 *)
Apart(u) ==
  \/ todo'[u] = todo[u]
  \/ ~Drives(u) /\ u.by = "reply" /\ (todo'[u] = << >> \/ Claiming(todo[u])')

LEMMA Bystander ==
  ASSUME Domains, Domains', Programs, OneDriver, Received, UNCHANGED Settled, \A u \in Thread : Apart(u)
  PROVE  /\ Programs' /\ OneDriver'
         /\ \A u \in Thread : /\ Drives(u)' <=> Drives(u)
                              /\ SamePlace(u) /\ (Unsent(todo[u])' <=> Unsent(todo[u]))
<1>1. Heads /\ Heads'
  BY Headed, HeadedNext
<1>2. \A u \in Thread : Drives(u) <=> InPlace(todo[u])
  BY Whereabouts
<1>3. ASSUME NEW u \in Thread, todo'[u] = todo[u]
      PROVE  /\ \/ todo'[u] = << >> \/ InPlace(todo[u])'
                \/ u.by = "reply" /\ Claiming(todo[u])'
             /\ Drives(u)' <=> Drives(u)
  BY <1>3, Stays, ClaimKept DEF Programs, Drives
<1>4. ASSUME NEW u \in Thread, ~Drives(u), u.by = "reply", todo'[u] = << >> \/ Claiming(todo[u])'
      PROVE  ~Drives(u)'
  BY <1>1, <1>4 DEF Heads, Drives
<1>5. Programs'
  BY <1>3 DEF Apart, Programs
<1>6. \A u \in Thread : Drives(u)' <=> Drives(u)
  BY <1>3, <1>4 DEF Apart
<1>7. OneDriver'
  BY <1>6 DEF OneDriver
<1>8. \A u \in Thread : Drives(u)' <=> InPlace(todo[u])'
  BY <1>5, DrivenNext DEF Driven
<1>9. ASSUME NEW u \in Thread PROVE SamePlace(u) /\ (Unsent(todo[u])' <=> Unsent(todo[u]))
  <2>1. CASE todo'[u] = todo[u]
    BY <2>1, Stays
  <2>2. CASE ~Drives(u)
    <3>1. ~InPlace(todo[u]) /\ ~InPlace(todo[u])'
      BY <2>2, <1>2, <1>6, <1>8
    <3> QED BY <3>1 DEF InPlace, SamePlace, Unsent
  <2> QED BY <2>1, <2>2 DEF Apart
<1> QED BY <1>5, <1>6, <1>7, <1>9

---------------------------------------------------------------------------
(***************************************************************************)
(* What the client received and what is queued for it.                     *)
(***************************************************************************)
LEMMA Streamed ==
  ASSUME Domains
  PROVE  /\ Stream \in Seq(Frame) /\ Len(Stream) = Len(got) + Len(frames)
         /\ \A j \in 1 .. Len(Stream) :
              Stream[j] = IF j <= Len(got) THEN got[j] ELSE frames[j - Len(got)]
         /\ Len(got) \in Nat /\ Len(frames) \in Nat /\ DOMAIN Stream = 1 .. Len(Stream)
         /\ DOMAIN got = 1 .. Len(got)
  BY ConcatProperties, LenProperties DEF Domains, Stream

Grown(f) == Len(Stream') = Len(Stream) + 1 /\ Stream'[Len(Stream) + 1] = f
            /\ \A j \in 1 .. Len(Stream) : Stream'[j] = Stream[j]
Thinned ==
  \E n \in Nat : /\ n < Len(Stream) /\ Len(Stream') = Len(Stream) - 1
                 /\ \A j \in 1 .. Len(Stream) - 1 : Stream'[j] = Stream[IF j <= n THEN j ELSE j + 1]

LEMMA Queued ==
  ASSUME Domains, NEW f \in Frame, got' = got, frames' = Append(frames, f)
  PROVE  Stream' = Append(Stream, f) /\ Grown(f) /\ frames' \in Seq(Frame) /\ Len(frames') = Len(frames) + 1
<1>1. frames \in Seq(Frame) /\ got \in Seq(Frame)
  BY DEF Domains
<1>2. got \o Append(frames, f) = Append(got \o frames, f)
  BY <1>1, ConcatProperties, AppendProperties, LenProperties
<1>3. Stream' = Append(Stream, f)
  BY <1>2 DEF Stream
<1>4. Stream \in Seq(Frame)
  BY Streamed
<1> QED BY <1>1, <1>3, <1>4, AppendProperties, LenProperties DEF Grown

LEMMA Written ==
  ASSUME Domains, frames # << >>, got' = Append(got, Head(frames)), frames' = Tail(frames)
  PROVE  Stream' = Stream /\ Received /\ got' \in Seq(Frame) /\ frames' \in Seq(Frame)
         /\ Len(frames') = Len(frames) - 1
<1>1. frames \in Seq(Frame) /\ got \in Seq(Frame)
  BY DEF Domains
<1>2. Head(frames) \in Frame /\ Tail(frames) \in Seq(Frame) /\ Len(Tail(frames)) = Len(frames) - 1
  BY <1>1, HeadTailProperties
<1>3. Append(got, Head(frames)) \o Tail(frames) = got \o frames
  <2> DEFINE a == Append(got, Head(frames)) \o Tail(frames)
             b == got \o frames
  <2>1. /\ Append(got, Head(frames)) \in Seq(Frame) /\ Len(Append(got, Head(frames))) = Len(got) + 1
        /\ \A i \in 1 .. Len(got) : Append(got, Head(frames))[i] = got[i]
        /\ Append(got, Head(frames))[Len(got) + 1] = Head(frames)
    BY <1>1, <1>2, AppendProperties
  <2>2. Len(got) \in Nat /\ Len(frames) \in Nat /\ Len(frames) >= 1 /\ Head(frames) = frames[1]
    BY <1>1, LenProperties, EmptySeq
  <2>3. \A i \in 1 .. Len(frames) - 1 : Tail(frames)[i] = frames[i + 1]
    BY <1>1, <1>2, HeadTailProperties
  <2>4. a \in Seq(Frame) /\ Len(a) = Len(got) + Len(frames)
    BY <1>1, <1>2, <2>1, <2>2, ConcatProperties
  <2>5. b \in Seq(Frame) /\ Len(b) = Len(got) + Len(frames)
    BY <1>1, ConcatProperties
  <2>6. ASSUME NEW i \in 1 .. Len(got) + Len(frames) PROVE a[i] = b[i]
    <3>1. a[i] = IF i <= Len(got) + 1 THEN Append(got, Head(frames))[i] ELSE Tail(frames)[i - (Len(got) + 1)]
      BY <1>2, <2>1, <2>2, ConcatProperties
    <3>2. b[i] = IF i <= Len(got) THEN got[i] ELSE frames[i - Len(got)]
      BY <1>1, ConcatProperties
    <3>3. CASE i <= Len(got)
      BY <2>1, <2>2, <3>1, <3>2, <3>3
    <3>4. CASE i = Len(got) + 1
      BY <2>1, <2>2, <3>1, <3>2, <3>4
    <3>5. CASE i > Len(got) + 1
      <4>1. i - (Len(got) + 1) \in 1 .. Len(frames) - 1 /\ (i - (Len(got) + 1)) + 1 = i - Len(got)
        BY <2>2, <3>5
      <4> QED BY <2>2, <2>3, <3>1, <3>2, <3>5, <4>1
    <3> QED BY <2>2, <3>3, <3>4, <3>5
  <2> HIDE DEF a, b
  <2>7. a = b
    BY <2>4, <2>5, <2>6, SeqEqual
  <2> QED BY <2>7 DEF a, b
<1>4. Stream' = Stream
  BY <1>3 DEF Stream
<1>5. got' \in Seq(Frame)
  BY <1>1, <1>2, AppendProperties
<1> QED BY <1>2, <1>4, <1>5 DEF Received

LEMMA Dropped ==
  ASSUME Domains, Domains', frames # << >>, got' = got, frames' = Tail(frames)
  PROVE  Thinned
<1>1. frames \in Seq(Frame) /\ got \in Seq(Frame)
  BY DEF Domains
<1>2. /\ Tail(frames) \in Seq(Frame) /\ Len(Tail(frames)) = Len(frames) - 1
      /\ \A i \in 1 .. Len(frames) - 1 : Tail(frames)[i] = frames[i + 1]
  BY <1>1, HeadTailProperties
<1>3. Len(got) \in Nat /\ Len(frames) \in Nat /\ Len(frames) >= 1
  BY <1>1, LenProperties, EmptySeq
<1>4. Len(Stream) = Len(got) + Len(frames)
      /\ \A j \in 1 .. Len(Stream) : Stream[j] = IF j <= Len(got) THEN got[j] ELSE frames[j - Len(got)]
  BY Streamed
<1>5. Stream' = got \o Tail(frames)
  BY DEF Stream
<1>6. Len(Stream') = Len(Stream) - 1
      /\ \A j \in 1 .. Len(Stream) - 1 :
           Stream'[j] = IF j <= Len(got) THEN got[j] ELSE Tail(frames)[j - Len(got)]
  BY <1>1, <1>2, <1>3, <1>4, <1>5, ConcatProperties
<1>7. ASSUME NEW j \in 1 .. Len(Stream) - 1
      PROVE  Stream'[j] = Stream[IF j <= Len(got) THEN j ELSE j + 1]
  <2>1. CASE j <= Len(got)
    BY <1>3, <1>4, <1>6, <2>1
  <2>2. CASE j > Len(got)
    <3>1. j - Len(got) \in 1 .. Len(frames) - 1 /\ (j - Len(got)) + 1 = (j + 1) - Len(got)
      BY <1>3, <1>4, <2>2
    <3>2. Stream'[j] = frames[(j + 1) - Len(got)]
      BY <1>2, <1>3, <1>6, <2>2, <3>1
    <3>3. Stream[j + 1] = frames[(j + 1) - Len(got)]
      BY <1>3, <1>4, <2>2
    <3> QED BY <1>3, <2>2, <3>2, <3>3
  <2> QED BY <1>3, <2>1, <2>2
<1>8. Len(got) < Len(Stream)
  BY <1>3, <1>4
<1> QED BY <1>3, <1>6, <1>7, <1>8 DEF Thinned

---------------------------------------------------------------------------
(***************************************************************************)
(* The parts of the invariant, kept by steps that do not touch them.       *)
(***************************************************************************)
SameTimers ==
  Len(timers') = Len(timers) /\ \A i \in 1 .. Len(timers) : timers'[i].stage = timers[i].stage
NoneRevived == \A i \in 1 .. Len(timers) : timers'[i].at # "over" => timers[i].at # "over"

LEMMA TimerDomains ==
  ASSUME Domains
  PROVE  DOMAIN timers = 1 .. Len(timers) /\ Len(timers) \in Nat
         /\ \A i \in 1 .. Len(timers) : timers[i] \in Fallback
  BY LenProperties, ElementOfSeq DEF Domains

LEMMA Listed ==
  ASSUME NEW n \in Nat, NEW w \in [1 .. n -> Fallback]
  PROVE  w \in Seq(Fallback) /\ Len(w) = n
  BY IsASeq, LenProperties

LEMMA TimerDomainsNext ==
  ASSUME Domains'
  PROVE  DOMAIN timers' = 1 .. Len(timers') /\ Len(timers') \in Nat
  BY LenProperties DEF Domains

LEMMA CountedKept ==
  ASSUME Domains, Domains', Counted, UNCHANGED <<stage, asked, plan, execID>>, pending' \in {0, pending},
         SameTimers, \A u \in Thread : Unsent(todo[u])' => Unsent(todo[u])
  PROVE  Counted'
<1>1. \A s : Asks(s)' = Asks(s)
  BY DEF Asks
<1>2. /\ DOMAIN timers = 1 .. Len(timers) /\ DOMAIN timers' = 1 .. Len(timers)
      /\ Len(timers') = Len(timers) /\ \A i \in 1 .. Len(timers) : timers'[i].stage = timers[i].stage
  BY TimerDomains, TimerDomainsNext DEF SameTimers
<1>3. (execID <= Number(stage) /\ Len(timers) <= execID)'
  BY <1>2 DEF Counted, Number
<1>4. (stage \in Middle \ asked => execID < Number(stage))'
  BY DEF Counted, Number
<1>5. (asked \subseteq {s \in Middle : Asks(s) /\ Number(s) <= Number(stage)})'
  BY <1>1 DEF Counted, Number
<1>6. (pending # 0 => stage \in asked)'
  BY DEF Counted
<1>7. (\A i \in DOMAIN timers : timers[i].stage \in asked)'
  BY <1>2 DEF Counted
<1>8. (\A i, j \in DOMAIN timers : timers[i].stage = timers[j].stage => i = j)'
  BY <1>2 DEF Counted
<1>9. (\A t \in Thread :
         Unsent(todo[t]) =>
           Len(timers) < execID /\ \A i \in DOMAIN timers : timers[i].stage # stage)'
  BY <1>2 DEF Counted
<1> QED BY <1>3, <1>4, <1>5, <1>6, <1>7, <1>8, <1>9 DEF Counted

LEMMA IssuedKept ==
  ASSUME Domains, Domains', Issued, execID' = execID, pending' \in {0, pending},
         \A u \in Thread : Unsent(todo[u])' => Unsent(todo[u]),
         \/ Stream' = Stream
         \/ Thinned
         \/ \E f \in Frame : f.kind # "exec" /\ Grown(f) /\ (pending' # 0 => \E u \in Thread : Unsent(todo[u]))
  PROVE  Issued'
<1>0. Len(Stream) \in Nat /\ DOMAIN Stream = 1 .. Len(Stream) /\ DOMAIN Stream' = 1 .. Len(Stream')
      /\ execID \in Nat
  <2>1. DOMAIN Stream = 1 .. Len(Stream) /\ Len(Stream) \in Nat
    BY Streamed, LenProperties
  <2>2. DOMAIN Stream' = 1 .. Len(Stream')
    <3>1. got' \in Seq(Frame) /\ frames' \in Seq(Frame)
      BY DEF Domains
    <3>2. Stream' \in Seq(Frame)
      BY <3>1, ConcatProperties DEF Stream
    <3> QED BY <3>2, LenProperties
  <2> QED BY <2>1, <2>2 DEF Domains
<1>1. ASSUME NEW j \in 1 .. Len(Stream'), NEW k \in 1 .. Len(Stream), Stream'[j] = Stream[k],
             k = Len(Stream) => j = Len(Stream'),
             Stream'[j].kind = "exec"
      PROVE  /\ Stream'[j].id \in 1 .. execID'
             /\ \A t \in Thread : Unsent(todo[t])' => Stream'[j].id < execID'
             /\ pending' # 0 /\ Stream'[j].id = execID' => j = Len(Stream')
  <2>1. /\ Stream[k].id \in 1 .. execID
        /\ \A t \in Thread : Unsent(todo[t]) => Stream[k].id < execID
        /\ pending # 0 /\ Stream[k].id = execID => k = Len(Stream)
    BY <1>0, <1>1 DEF Issued
  <2>2. pending' # 0 => pending # 0
    OBVIOUS
  <2> QED BY <1>1, <2>1, <2>2
<1>2. CASE Stream' = Stream
  BY <1>0, <1>1, <1>2 DEF Issued
<1>3. CASE Thinned
  <2>1. PICK n \in Nat : /\ n < Len(Stream) /\ Len(Stream') = Len(Stream) - 1
                         /\ \A j \in 1 .. Len(Stream) - 1 : Stream'[j] = Stream[IF j <= n THEN j ELSE j + 1]
    BY <1>3 DEF Thinned
  <2> SUFFICES ASSUME NEW j \in 1 .. Len(Stream'), Stream'[j].kind = "exec"
               PROVE  /\ Stream'[j].id \in 1 .. execID'
                      /\ \A t \in Thread : Unsent(todo[t])' => Stream'[j].id < execID'
                      /\ pending' # 0 /\ Stream'[j].id = execID' => j = Len(Stream')
    BY <1>0 DEF Issued
  <2>0. Len(Stream') = Len(Stream) - 1
    BY <2>1
  <2>2. j \in 1 .. Len(Stream) - 1
    BY <2>0
  <2>3. CASE j <= n
    <3>1. Stream'[j] = Stream[j] /\ j \in 1 .. Len(Stream) /\ j # Len(Stream)
      BY <1>0, <2>1, <2>2, <2>3
    <3> QED BY <3>1, <1>1
  <2>4. CASE ~(j <= n)
    <3>1. Stream'[j] = Stream[j + 1] /\ j + 1 \in 1 .. Len(Stream)
      BY <1>0, <2>1, <2>2, <2>4
    <3>2. j + 1 = Len(Stream) => j = Len(Stream')
      <4>1. j \in Int /\ Len(Stream) \in Int
        BY <1>0, <2>2
      <4> QED BY <4>1, <2>0
    <3> QED BY <3>1, <3>2, <1>1
  <2> QED BY <2>3, <2>4
<1>4. ASSUME NEW f \in Frame, f.kind # "exec", Grown(f), pending' # 0 => \E u \in Thread : Unsent(todo[u])
      PROVE  Issued'
  <2>1. /\ Len(Stream') = Len(Stream) + 1 /\ Stream'[Len(Stream) + 1] = f
        /\ \A j \in 1 .. Len(Stream) : Stream'[j] = Stream[j]
    BY <1>4 DEF Grown
  <2> SUFFICES ASSUME NEW j \in 1 .. Len(Stream'), Stream'[j].kind = "exec"
               PROVE  /\ Stream'[j].id \in 1 .. execID'
                      /\ \A t \in Thread : Unsent(todo[t])' => Stream'[j].id < execID'
                      /\ pending' # 0 /\ Stream'[j].id = execID' => j = Len(Stream')
    BY <1>0 DEF Issued
  <2>2. j # Len(Stream) + 1
    BY <1>4, <2>1
  <2>3. j \in 1 .. Len(Stream) /\ Stream'[j] = Stream[j]
    BY <1>0, <2>1, <2>2
  <2>4. /\ Stream[j].id \in 1 .. execID
        /\ \A t \in Thread : Unsent(todo[t]) => Stream[j].id < execID
    BY <1>0, <2>3 DEF Issued
  <2>5. pending' # 0 => Stream[j].id # execID
    BY <1>0, <1>4, <2>4
  <2> QED BY <2>3, <2>4, <2>5
<1> QED BY <1>2, <1>3, <1>4

LEMMA HeardKept ==
  ASSUME Domains, Domains', Heard, stage' = stage, SameTimers, NoneRevived, frames = << >> => frames' = << >>,
         \A u \in Thread : /\ Advancing(todo[u])' => Advancing(todo[u])
                           /\ Answering(todo[u])' => Answering(todo[u])
                           /\ Replying(todo[u])' => Replying(todo[u]) \/ Answering(todo[u])
  PROVE  Heard'
<1>1. /\ DOMAIN timers = 1 .. Len(timers) /\ DOMAIN timers' = 1 .. Len(timers)
      /\ \A i \in 1 .. Len(timers) : timers'[i].stage = timers[i].stage
                                     /\ (timers'[i].at # "over" => timers[i].at # "over")
  BY TimerDomains, TimerDomainsNext DEF SameTimers, NoneRevived
<1>2. ASSUME NEW u \in Thread, Advancing(todo[u])' \/ Answering(todo[u])' \/ Replying(todo[u])',
             NEW i \in DOMAIN timers', timers'[i].stage = stage', timers'[i].at # "over"
      PROVE  frames' = << >>
  <2>1. Advancing(todo[u]) \/ Answering(todo[u]) \/ Replying(todo[u])
    BY <1>2
  <2>2. i \in DOMAIN timers /\ timers[i].stage = stage /\ timers[i].at # "over"
    BY <1>1, <1>2
  <2>3. frames = << >>
    BY <2>1, <2>2 DEF Heard
  <2> QED BY <2>3
<1> QED BY <1>2 DEF Heard

---------------------------------------------------------------------------
(***************************************************************************)
(* The kinds of steps: a handler or nobody moves, the driver moves on, an  *)
(* ask is settled.                                                         *)
(***************************************************************************)
LEMMA Active ==
  ASSUME Control, NEW t \in Thread
  PROVE  /\ todo[t] # << >> => begun
         /\ Drives(t) => InPlace(todo[t]) /\ begun
         /\ Drives(t) => \A u \in Thread : u # t => ~Drives(u)
         /\ pending # 0 /\ Drives(t) => Unsent(todo[t])
         /\ ~Drives(t) => ~InPlace(todo[t]) /\ ~Unsent(todo[t])
<1>1. Drives(t) <=> InPlace(todo[t])
  BY Whereabouts DEF Control
<1>2. todo[t] # << >> => begun
  BY DEF Control, Led, Domains
<1>3. Drives(t) => \A u \in Thread : u # t => ~Drives(u)
  BY DEF Control, OneDriver
<1>4. pending # 0 /\ InPlace(todo[t]) => Unsent(todo[t])
  BY DEF InPlace, Fetching, Entering, Answering, Replying, Awaiting, Advancing, Deciding,
         Saving, Storing, Sealing, Leaving, Closing
<1>5. Unsent(todo[t]) => InPlace(todo[t])
  BY DEF InPlace
<1>6. Drives(t) => todo[t] # << >>
  BY DEF Drives
<1> QED BY <1>1, <1>2, <1>3, <1>4, <1>5, <1>6

(* The step is no part of the turn, and moves nobody in it.                *)
Aside ==
  /\ UNCHANGED Settled
  /\ \A u \in Thread : SamePlace(u) /\ (InPlace(todo[u]) => todo'[u] = todo[u])

LEMMA BystanderControl ==
  ASSUME Control, Domains', Received, UNCHANGED Settled, execID' = execID, begun' = begun,
         SameTimers, NoneRevived, frames = << >> => frames' = << >>,
         \A u \in Thread : Apart(u),
         ~begun => \A u \in Thread : todo'[u] = todo[u],
         Stream' = Stream \/ Thinned
  PROVE  Control' /\ Aside
<1>1. Domains /\ Programs /\ OneDriver /\ Led /\ Counted /\ Issued /\ Heard
      /\ UNCHANGED <<stage, pending, asked, plan, history>>
  BY DEF Control, Settled
<1>2. /\ Programs' /\ OneDriver'
      /\ \A u \in Thread : /\ Drives(u)' <=> Drives(u)
                           /\ SamePlace(u) /\ (Unsent(todo[u])' <=> Unsent(todo[u]))
  BY <1>1, Bystander
<1>3. Led'
  <2>1. (stage \in Middle /\ pending = 0 => \E t \in Thread : Drives(t))'
    BY <1>1, <1>2 DEF Led
  <2>2. (~begun => stage = "" /\ \A t \in Thread : todo[t] = << >>)'
    BY <1>1 DEF Led
  <2> QED BY <2>1, <2>2 DEF Led
<1>4. Counted'
  <2>1. pending' \in {0, pending} /\ UNCHANGED <<stage, asked, plan, execID>>
    BY <1>1
  <2> QED BY <1>1, <1>2, <2>1, CountedKept
<1>5. Issued'
  <2>1. pending' \in {0, pending}
    BY <1>1
  <2> QED BY <1>1, <1>2, <2>1, IssuedKept
<1>6. Heard'
  BY <1>1, <1>2, HeardKept DEF SamePlace
<1>7. \A u \in Thread : InPlace(todo[u]) => todo'[u] = todo[u]
  BY <1>1, Whereabouts DEF Apart
<1> QED BY <1>2, <1>3, <1>4, <1>5, <1>6, <1>7 DEF Control, Aside

(* The driver moves on, without a frame.                                   *)
LEMMA QuietControl ==
  ASSUME Control, Domains', UNCHANGED Settled, execID' = execID, begun' = begun, got' = got,
         frames' = frames, timers' = timers, NEW t \in Thread, Drives(t), pending = 0,
         \A u \in Thread : u # t => todo'[u] = todo[u],
         \/ InPlace(todo[t])'
         \/ todo'[t] = << >> /\ stage \notin Middle,
         ~Advancing(todo[t])', Answering(todo[t])' => Advancing(todo[t]),
         Replying(todo[t])' => Answering(todo[t])
  PROVE  Control'
<1>1. Domains /\ Programs /\ OneDriver /\ Led /\ Counted /\ Issued /\ Heard
      /\ UNCHANGED <<stage, pending, asked, plan, history>>
  BY DEF Control, Settled
<1>2. begun /\ \A u \in Thread : u # t => ~Drives(u)
  BY Active
<1>3. /\ Programs' /\ OneDriver' /\ (Drives(t)' <=> InPlace(todo[t])')
      /\ \A u \in Thread : u # t => ~Drives(u)' /\ ~InPlace(todo[u])'
  BY <1>1, <1>2, Driver DEF Received
<1>4. Led'
  BY <1>1, <1>2, <1>3 DEF Led
<1>5. \A u \in Thread : ~Unsent(todo[u])'
  BY <1>1 DEF Unsent, Naming, Pinning, Asking
<1>6. SameTimers /\ NoneRevived
  BY <1>1, TimerDomains DEF SameTimers, NoneRevived
<1>7. Counted'
  <2>1. pending' \in {0, pending} /\ UNCHANGED <<stage, asked, plan, execID>>
    BY <1>1
  <2> QED BY <1>1, <1>5, <1>6, <2>1, CountedKept
<1>8. Issued'
  <2>1. pending' \in {0, pending} /\ Stream' = Stream
    BY <1>1 DEF Stream
  <2> QED BY <1>1, <1>5, <2>1, IssuedKept
<1>9. Heard'
  <2>1. ASSUME NEW u \in Thread, Advancing(todo[u])' \/ Answering(todo[u])' \/ Replying(todo[u])'
        PROVE  u = t /\ (Advancing(todo[u]) \/ Answering(todo[u]))
    BY <1>3, <2>1 DEF InPlace
  <2>2. ASSUME NEW u \in Thread, Advancing(todo[u])' \/ Answering(todo[u])' \/ Replying(todo[u])',
               NEW i \in DOMAIN timers', timers'[i].stage = stage', timers'[i].at # "over"
        PROVE  frames' = << >>
    <3>1. Advancing(todo[u]) \/ Answering(todo[u])
      BY <2>1, <2>2
    <3>2. i \in DOMAIN timers /\ timers[i].stage = stage /\ timers[i].at # "over"
      BY <1>1, <2>2
    <3> QED BY <1>1, <3>1, <3>2 DEF Heard
  <2> QED BY <2>2 DEF Heard
<1> QED BY <1>3, <1>4, <1>7, <1>8, <1>9 DEF Control

(* An open ask is settled, by a reply or by the timer.                     *)
LEMMA SettleControl ==
  ASSUME Control, Domains', UNCHANGED <<stage, asked, plan, history, execID, begun, got, frames>>,
         SameTimers, NEW t \in Thread, pending # 0, pending' = 0, stage \in Middle, begun,
         \A u \in Thread : ~Drives(u) /\ (u # t => todo'[u] = todo[u]),
         todo'[t] = Do("advance"),
         \A i \in 1 .. Len(timers) : timers'[i].stage = stage /\ timers'[i].at # "over" => frames = << >>
  PROVE  Control' /\ Advancing(todo[t])'
<1>1. Domains /\ Programs /\ OneDriver /\ Led /\ Counted /\ Issued /\ Heard
  BY DEF Control
<1>2. stage \in asked /\ Asks(stage)
  BY <1>1 DEF Counted
<1>3. Advancing(todo[t])'
  <2>1. Asks(stage)' = Asks(stage)
    BY DEF Asks
  <2> QED BY <1>2, <2>1 DEF Advancing
<1>4. InPlace(todo[t])'
  BY <1>3 DEF InPlace
<1>5. /\ Programs' /\ OneDriver' /\ (Drives(t)' <=> InPlace(todo[t])')
      /\ \A u \in Thread : u # t => ~Drives(u)' /\ ~InPlace(todo[u])'
  BY <1>1, <1>4, Driver DEF Received
<1>6. Led'
  BY <1>4, <1>5 DEF Led
<1>7. \A u \in Thread : ~Unsent(todo[u])'
  BY DEF Unsent, Naming, Pinning, Asking
<1>8. Counted'
  BY <1>1, <1>7, CountedKept
<1>9. Issued'
  <2>1. Stream' = Stream
    BY DEF Stream
  <2> QED BY <1>1, <1>7, <2>1, IssuedKept
<1>10. Heard'
  <2>1. DOMAIN timers' = 1 .. Len(timers)
    BY TimerDomainsNext DEF SameTimers
  <2>2. ASSUME NEW i \in DOMAIN timers', timers'[i].stage = stage', timers'[i].at # "over"
        PROVE  frames' = << >>
    BY <2>1, <2>2
  <2> QED BY <2>2 DEF Heard
<1> QED BY <1>3, <1>5, <1>6, <1>8, <1>9, <1>10 DEF Control

---------------------------------------------------------------------------
(***************************************************************************)
(* Every step keeps the invariant.                                         *)
(***************************************************************************)
LEMMA EnterControl ==
  ASSUME Control, NEW t \in Thread, EnterStage(t)
  PROVE  Control' /\ \/ stage' = "done" /\ Saving(todo[t])'
                     \/ stage' \in Middle /\ (Awaiting(todo[t])' \/ Advancing(todo[t])')
<1>1. Domains /\ Programs /\ OneDriver /\ Led /\ Counted /\ Issued /\ Heard
  BY DEF Control
<1>2. PICK s \in Stage :
        /\ Entering(todo[t]) /\ todo[t] = Into(s) /\ <<stage, s>> \in Turn!Order /\ pending = 0
        /\ stage' = s /\ todo'[t] = Leg(s) /\ todo' \in [Thread -> Program]
        /\ \A u \in Thread : u # t => todo'[u] = todo[u]
  BY <1>1, EnterMoves
<1>3. /\ UNCHANGED <<execID, pending, toolOut, tool, answers, frames, closed, sse, timers, plan, history>>
      /\ UNCHANGED <<begun, got, replied, strays, streams, asked, called, returned, lost>>
  BY DEF EnterStage, streamVars, choiceVars, clientVars, historyVars
<1>4. Domains'
  BY <1>1, <1>2, <1>3 DEF Domains
<1>5. Number(stage) < Number(s) /\ Number(s) \in 0 .. 6 /\ Number(stage) \in 0 .. 6
  <2>1. stage \in Stage
    BY <1>1 DEF Domains
  <2>2. Number(stage) < Number(s)
    BY <1>2, Numbers
  <2> QED BY <2>1, <2>2, Numbers
<1>18. s # ""
  BY <1>2, Numbers
<1>6. s \notin asked
  <2>1. \A x \in asked : Number(x) <= Number(stage)
    BY <1>1 DEF Counted
  <2>2. s \in asked => Number(s) <= Number(stage)
    BY <2>1
  <2> QED BY <1>5, <2>2
<1>7. Drives(t) /\ begun /\ \A u \in Thread : u # t => ~Drives(u)
  <2>1. InPlace(todo[t])
    BY <1>2 DEF InPlace
  <2>2. Drives(t)
    BY <1>1, <2>1, Whereabouts
  <2> QED BY <2>2, Active
<1>8. /\ s = "done" => Saving(todo[t])'
      /\ s # "done" /\ Asks(s) => Awaiting(todo[t])'
      /\ s # "done" /\ ~Asks(s) => Advancing(todo[t])'
  BY <1>1, <1>2, <1>3, <1>4, <1>6, <1>18, Legs
<1>9. InPlace(todo[t])'
  BY <1>8 DEF InPlace
<1>10. /\ Programs' /\ OneDriver' /\ (Drives(t)' <=> InPlace(todo[t])')
       /\ \A u \in Thread : u # t => ~Drives(u)' /\ ~InPlace(todo[u])'
  BY <1>1, <1>2, <1>3, <1>4, <1>7, <1>9, Driver DEF Received
<1>11. Led'
  BY <1>3, <1>7, <1>9, <1>10 DEF Led
<1>12. \A s2 : Asks(s2)' = Asks(s2)
  BY <1>3 DEF Asks
<1>13. \A u \in Thread : ~Unsent(todo[u])'
  BY <1>2, <1>3 DEF Unsent, Naming, Pinning, Asking
<1>14. Counted'
  <2>0. Number(stage)' = Number(s) /\ Number(stage) < Number(s)
    BY <1>2, <1>5 DEF Number
  <2>1. execID' < Number(stage)' /\ Len(timers') <= execID'
    <3>1. execID <= Number(stage) /\ Len(timers) <= execID /\ execID \in 0 .. 5
      BY <1>1 DEF Counted, Domains
    <3> QED BY <1>3, <1>5, <2>0, <3>1
  <2>2. (asked \subseteq {x \in Middle : Asks(x) /\ Number(x) <= Number(stage)})'
    <3>1. \A x \in asked : x \in Middle /\ Asks(x) /\ Number(x) <= Number(stage)
      BY <1>1 DEF Counted
    <3>2. \A x \in asked : Number(x) \in 1 .. 5
      BY <3>1, Numbers
    <3>3. \A x \in asked : x \in Middle /\ Asks(x)' /\ Number(x) <= Number(stage)'
      BY <1>5, <1>12, <2>0, <3>1, <3>2
    <3>4. \A x : Number(x)' = Number(x)
      BY DEF Number
    <3> QED BY <1>3, <3>3, <3>4
  <2>3. execID' <= Number(stage)'
    <3>1. execID' \in Int /\ Number(stage)' \in Int
      BY <1>3, <1>1, <1>5, <2>0 DEF Domains
    <3> QED BY <2>1, <3>1
  <2> QED BY <1>1, <1>2, <1>3, <1>13, <2>1, <2>2, <2>3 DEF Counted
<1>15. Issued'
  <2>1. Stream' = Stream
    BY <1>3 DEF Stream
  <2> QED BY <1>1, <1>3, <1>4, <1>13, <2>1, IssuedKept
<1>16. Heard'
  <2>1. \A i \in DOMAIN timers : timers[i].stage # s
    BY <1>1, <1>6 DEF Counted
  <2> QED BY <1>2, <1>3, <2>1 DEF Heard
<1>17. s # "done" => s \in Middle
  BY <1>18 DEF Stage, Middle
<1> QED BY <1>2, <1>4, <1>8, <1>10, <1>11, <1>14, <1>15, <1>16, <1>17 DEF Control

(* There are ids enough: an await never waits for one.                     *)
LEMMA AwaitFree ==
  ASSUME Control, NEW t \in Thread, Does(t, "await")
  PROVE  execID + 1 \in Exec /\ execID < Number(stage) /\ stage \in Middle /\ stage \notin asked /\ pending = 0
<1>1. Awaiting(todo[t])
  BY Whereabouts DEF Control
<1>2. stage \in Middle /\ stage \notin asked /\ pending = 0
  BY <1>1 DEF Awaiting
<1>3. execID < Number(stage) /\ Number(stage) \in 1 .. 5 /\ execID \in 0 .. 5
  BY <1>2, Numbers DEF Control, Counted, Domains
<1> QED BY <1>2, <1>3 DEF Exec

LEMMA AwaitControl ==
  ASSUME Control, NEW t \in Thread, Await(t)
  PROVE  Control'
<1>1. Domains /\ Programs /\ OneDriver /\ Led /\ Counted /\ Issued /\ Heard
  BY DEF Control
<1>2. /\ Awaiting(todo[t]) /\ stage \in Middle /\ stage \notin asked /\ pending = 0 /\ Asks(stage)
      /\ todo'[t] = First(stage) /\ todo' \in [Thread -> Program]
      /\ \A u \in Thread : u # t => todo'[u] = todo[u]
      /\ execID' = execID + 1 /\ pending' = execID + 1 /\ asked' = asked \cup {stage}
      /\ IF stage = "tool" THEN Naming(todo[t])' ELSE Asking(todo[t])'
  BY <1>1, AwaitMoves
<1>3. /\ UNCHANGED <<stage, toolOut, tool, answers, frames, closed, sse, timers, plan, history>>
      /\ UNCHANGED <<begun, got, replied, strays, streams, called, returned, lost>>
  BY DEF Await, streamVars, choiceVars, clientVars
<1>4. execID + 1 \in 1 .. 5 /\ execID < Number(stage) /\ execID \in 0 .. 5
      /\ Number(stage) \in 1 .. 5
  <2>1. Does(t, "await")
    BY DEF Await
  <2> QED BY <1>1, <1>2, <2>1, AwaitFree, Numbers DEF Exec, Domains
<1>5. Domains'
  BY <1>1, <1>2, <1>3, <1>4 DEF Domains
<1>6. Drives(t) /\ begun /\ \A u \in Thread : u # t => ~Drives(u)
  <2>1. InPlace(todo[t])
    BY <1>2 DEF InPlace
  <2>2. Drives(t)
    BY <1>1, <2>1, Whereabouts
  <2> QED BY <2>2, Active
<1>7. InPlace(todo[t])'
  BY <1>2 DEF InPlace, Unsent
<1>8. /\ Programs' /\ OneDriver' /\ (Drives(t)' <=> InPlace(todo[t])')
      /\ \A u \in Thread : u # t => ~Drives(u)' /\ ~InPlace(todo[u])'
  BY <1>1, <1>2, <1>3, <1>5, <1>6, <1>7, Driver DEF Received
<1>9. pending' # 0
  BY <1>2, <1>4
<1>10. Led'
  BY <1>3, <1>6, <1>9 DEF Led
<1>11. Counted'
  <2>1. \A x : Asks(x)' = Asks(x) /\ Number(x)' = Number(x)
    BY <1>3 DEF Asks, Number
  <2>2. execID' <= Number(stage)' /\ Len(timers') < execID' /\ Len(timers') <= execID'
    <3>1. Len(timers) <= execID /\ Len(timers) \in Nat
      BY <1>1, TimerDomains DEF Counted
    <3>2. Number(stage)' = Number(stage)
      BY <1>3 DEF Number
    <3> QED BY <1>2, <1>3, <1>4, <3>1, <3>2
  <2>3. (stage \in Middle \ asked => execID < Number(stage))'
    BY <1>2, <1>3
  <2>4. (asked \subseteq {x \in Middle : Asks(x) /\ Number(x) <= Number(stage)})'
    <3>1. \A x \in asked : x \in Middle /\ Asks(x) /\ Number(x) <= Number(stage)
      BY <1>1 DEF Counted
    <3>2. \A x \in asked' : x \in Middle /\ Asks(x) /\ Number(x) <= Number(stage)
      BY <1>2, <1>4, <3>1
    <3>3. Number(stage)' = Number(stage)
      BY <1>3 DEF Number
    <3> QED BY <2>1, <3>2, <3>3
  <2>5. (pending # 0 => stage \in asked)'
    BY <1>2, <1>3
  <2>6. (\A i \in DOMAIN timers : timers[i].stage \in asked)'
    BY <1>1, <1>2, <1>3 DEF Counted
  <2>7. (\A i, j \in DOMAIN timers : timers[i].stage = timers[j].stage => i = j)'
    BY <1>1, <1>3 DEF Counted
  <2>8. \A i \in DOMAIN timers' : timers'[i].stage # stage'
    BY <1>1, <1>2, <1>3 DEF Counted
  <2> QED BY <2>2, <2>3, <2>4, <2>5, <2>6, <2>7, <2>8 DEF Counted
<1>12. Issued'
  <2>1. Stream' = Stream
    BY <1>3 DEF Stream
  <2>2. ASSUME NEW j \in DOMAIN Stream, Stream[j].kind = "exec"
        PROVE  Stream[j].id \in 1 .. execID' /\ Stream[j].id < execID'
    <3>1. Stream[j].id \in 1 .. execID
      BY <1>1, <2>2 DEF Issued
    <3> QED BY <1>2, <1>4, <3>1
  <2>3. ASSUME NEW j \in DOMAIN Stream, Stream[j].kind = "exec"
        PROVE  Stream[j].id # execID'
    <3>1. Stream[j].id \in 1 .. execID
      BY <1>1, <2>3 DEF Issued
    <3> QED BY <1>2, <1>4, <3>1
  <2> QED BY <2>1, <2>2, <2>3 DEF Issued
<1>13. Heard'
  <2>1. \A i \in DOMAIN timers : timers[i].stage # stage
    BY <1>1, <1>2 DEF Counted
  <2> QED BY <1>3, <2>1 DEF Heard
<1> QED BY <1>5, <1>8, <1>10, <1>11, <1>12, <1>13 DEF Control

(* What goes out is a frame; only an ask carries an id.                    *)
LEMMA Goes ==
  ASSUME Control, NEW t \in Thread, Sending(t)
  PROVE  /\ Outgoing(t) \in Frame /\ todo[t] # << >> /\ Drives(t)
         /\ Does(t, "ask") => /\ Asking(todo[t]) /\ Outgoing(t) = AskFor(execID, stage)
                              /\ Next1(t).stage = stage
         /\ ~Does(t, "ask") => Does(t, "send") /\ AtSend(todo[t]) /\ Outgoing(t) = Head(todo[t]).frame
                              /\ Outgoing(t).kind # "exec"
<1>1. Domains /\ Programs /\ execID \in Nat
  BY DEF Control, Domains
<1>2. todo[t] # << >>
  BY DEF Sending, Does
<1>3. ASSUME Does(t, "ask")
      PROVE  /\ Asking(todo[t]) /\ Outgoing(t) = AskFor(execID, stage) /\ Next1(t).stage = stage
             /\ Outgoing(t) \in Frame
  <2>1. Asking(todo[t])
    BY <1>1, <1>3, Whereabouts
  <2>2. todo[t] = Question(stage) /\ stage \in Middle
    BY <2>1 DEF Asking
  <2>3. Next1(t).stage = stage
    <3>1. stage \in Stage /\ history \in Nat
      BY <1>1 DEF Domains
    <3>2. Starts(Question(stage), [do |-> "ask", stage |-> stage], << >>)
      BY <3>1, Starting
    <3>3. Head(todo[t]) = [do |-> "ask", stage |-> stage]
      BY <2>2, <3>2 DEF Starts
    <3> QED BY <3>3 DEF Next1
  <2>4. Outgoing(t) = AskFor(execID, stage)
    BY <1>3, <2>3 DEF Outgoing
  <2> QED BY <1>1, <2>1, <2>2, <2>3, <2>4, Frames
<1>4. ASSUME ~Does(t, "ask")
      PROVE  Does(t, "send") /\ AtSend(todo[t]) /\ Outgoing(t) = Head(todo[t]).frame /\ Outgoing(t) \in Frame
             /\ Outgoing(t).kind # "exec"
  <2>1. Does(t, "send") /\ AtSend(todo[t])
    BY <1>1, <1>4, Whereabouts DEF Sending
  <2>2. Outgoing(t) = Head(todo[t]).frame
    BY <1>4 DEF Outgoing, Next1
  <2> QED BY <1>1, <2>1, <2>2, Sends
<1>5. Drives(t)
  BY <1>2 DEF Sending, Does, Next1, Drives
<1> QED BY <1>2, <1>3, <1>4, <1>5

LEMMA SendingControl ==
  ASSUME Control, NEW t \in Thread, Sending(t), Then(t, << >>), Watched(t),
         UNCHANGED <<sessionVars, closed, sse, choiceVars, clientVars, asked, called, returned>>,
         \/ frames' = frames
         \/ frames' = Append(frames, Outgoing(t)) /\ Len(frames) < Cap,
         lost' \in BOOLEAN
  PROVE  Control'
<1>1. Domains /\ Programs /\ OneDriver /\ Led /\ Counted /\ Issued /\ Heard
  BY DEF Control
<1>2. UNCHANGED <<stage, execID, pending, toolOut, tool, closed, sse, plan, history, begun, got,
                  replied, strays, streams, asked, called, returned>>
      /\ UNCHANGED Settled
  BY DEF sessionVars, choiceVars, clientVars, Settled
<1>3. /\ Outgoing(t) \in Frame /\ todo[t] # << >> /\ Drives(t)
      /\ Does(t, "ask") => /\ Asking(todo[t]) /\ Outgoing(t) = AskFor(execID, stage)
                           /\ Next1(t).stage = stage
      /\ ~Does(t, "ask") => /\ Does(t, "send") /\ AtSend(todo[t]) /\ Outgoing(t) = Head(todo[t]).frame
                            /\ Outgoing(t).kind # "exec"
  BY Goes
<1>4. /\ todo' \in [Thread -> Program] /\ todo'[t] = Tail(todo[t])
      /\ \A u \in Thread : u # t => todo'[u] = todo[u]
      /\ Fetching(todo[t]) => Fetching(todo[t])' \/ Entering(todo[t])'
      /\ Replying(todo[t]) => Entering(todo[t])'
      /\ Naming(todo[t]) => Naming(todo[t])' \/ Pinning(todo[t])'
      /\ Pinning(todo[t]) => Asking(todo[t])'
      /\ Asking(todo[t]) => todo'[t] = << >>
      /\ Storing(todo[t]) => Storing(todo[t])' \/ Sealing(todo[t])'
      /\ Sealing(todo[t]) => Leaving(todo[t])'
      /\ Leaving(todo[t]) => Closing(todo[t])'
  BY <1>1, <1>2, SendMoves
<1>5. begun /\ \A u \in Thread : u # t => ~Drives(u)
  BY <1>3, Active
<1>6. frames' \in Seq(Frame) /\ Len(frames') <= Cap
  <2>1. frames \in Seq(Frame) /\ Len(frames) <= Cap /\ Len(frames) \in Nat /\ Cap \in Nat
    BY <1>1, CapAssumption, LenProperties DEF Domains
  <2>2. CASE frames' = Append(frames, Outgoing(t)) /\ Len(frames) < Cap
    BY <1>3, <2>1, <2>2, AppendProperties
  <2> QED BY <2>1, <2>2
<1>7. Stream' = Stream \/ Grown(Outgoing(t))
  BY <1>1, <1>2, <1>3, Queued DEF Stream
<1>8. CASE Does(t, "ask")
  <2>1. Asking(todo[t]) /\ Outgoing(t) = AskFor(execID, stage) /\ todo'[t] = << >> /\ Unsent(todo[t])
    BY <1>3, <1>4, <1>8 DEF Unsent
  <2>2. stage \in Middle /\ pending # 0
    BY <2>1 DEF Asking
  <2> DEFINE w == [stage |-> stage, waitingOn |-> 0, at |-> "start"]
  <2>3. timers' = Append(timers, w)
    BY <1>3, <1>8 DEF Watched
  <2>4. w \in Fallback /\ w.stage = stage
    BY <2>2 DEF Fallback
  <2> HIDE DEF w
  <2>5. /\ timers' \in Seq(Fallback)
        /\ Len(timers') = Len(timers) + 1 /\ timers'[Len(timers) + 1] = w
        /\ \A i \in 1 .. Len(timers) : timers'[i] = timers[i]
    BY <1>1, <2>3, <2>4, AppendProperties DEF Domains
  <2>6. Domains'
    BY <1>1, <1>2, <1>4, <1>6, <2>5 DEF Domains
  <2>7. /\ Programs' /\ OneDriver' /\ \A u \in Thread : u # t => ~Drives(u)' /\ ~InPlace(todo[u])'
        /\ (Drives(t)' <=> InPlace(todo[t])')
    BY <1>1, <1>2, <1>4, <1>5, <2>1, <2>6, Driver DEF Received
  <2>8. ~InPlace(todo[t])'
    BY <2>1, <2>7 DEF Drives
  <2>9. \A u \in Thread : ~InPlace(todo[u])' /\ ~Unsent(todo[u])'
    BY <2>7, <2>8 DEF InPlace
  <2>10. Led'
    BY <1>2, <1>5, <2>2 DEF Led
  <2>11. Counted'
    <3>1. \A x : Asks(x)' = Asks(x) /\ Number(x)' = Number(x)
      BY <1>2 DEF Asks, Number
    <3>2. Number(stage)' = Number(stage)
      BY <1>2 DEF Number
    <3>3. DOMAIN timers = 1 .. Len(timers) /\ DOMAIN timers' = 1 .. Len(timers) + 1 /\ Len(timers) \in Nat
      BY <1>1, <2>5, <2>6, TimerDomains, TimerDomainsNext
    <3>4. Len(timers) < execID /\ \A i \in 1 .. Len(timers) : timers[i].stage # stage
      BY <1>1, <2>1, <3>3 DEF Counted
    <3>5. Len(timers') <= execID'
      BY <1>1, <1>2, <2>5, <3>3, <3>4 DEF Domains
    <3>6. (\A i \in DOMAIN timers : timers[i].stage \in asked)'
      <4>1. stage \in asked /\ \A i \in 1 .. Len(timers) : timers[i].stage \in asked
        BY <1>1, <2>2, <3>3 DEF Counted
      <4>2. ASSUME NEW i \in DOMAIN timers' PROVE timers'[i].stage \in asked
        <5>1. CASE i = Len(timers) + 1
          BY <2>4, <2>5, <4>1, <5>1
        <5>2. CASE i \in 1 .. Len(timers)
          BY <2>5, <4>1, <5>2
        <5> QED BY <3>3, <5>1, <5>2
      <4> QED BY <1>2, <4>2
    <3>7. (\A i, j \in DOMAIN timers : timers[i].stage = timers[j].stage => i = j)'
      <4>1. \A i, j \in 1 .. Len(timers) : timers[i].stage = timers[j].stage => i = j
        BY <1>1, <3>3 DEF Counted
      <4>2. ASSUME NEW i \in DOMAIN timers', NEW j \in DOMAIN timers', timers'[i].stage = timers'[j].stage
            PROVE  i = j
        <5>1. i = Len(timers) + 1 \/ i \in 1 .. Len(timers)
          BY <3>3
        <5>2. j = Len(timers) + 1 \/ j \in 1 .. Len(timers)
          BY <3>3
        <5>3. timers'[Len(timers) + 1].stage = stage
          BY <2>4, <2>5
        <5>4. CASE i = Len(timers) + 1 /\ j \in 1 .. Len(timers)
          BY <2>5, <3>4, <4>2, <5>3, <5>4
        <5>5. CASE j = Len(timers) + 1 /\ i \in 1 .. Len(timers)
          BY <2>5, <3>4, <4>2, <5>3, <5>5
        <5>6. CASE i \in 1 .. Len(timers) /\ j \in 1 .. Len(timers)
          BY <2>5, <4>1, <4>2, <5>6
        <5> QED BY <5>1, <5>2, <5>4, <5>5, <5>6
      <4> QED BY <4>2
    <3>8. (execID <= Number(stage))' /\ (stage \in Middle \ asked => execID < Number(stage))'
          /\ (pending # 0 => stage \in asked)'
      BY <1>1, <1>2, <3>2 DEF Counted
    <3>9. (asked \subseteq {x \in Middle : Asks(x) /\ Number(x) <= Number(stage)})'
      BY <1>1, <1>2, <3>1, <3>2 DEF Counted
    <3> QED BY <2>9, <3>5, <3>6, <3>7, <3>8, <3>9 DEF Counted
  <2>12. Issued'
    <3>1. execID \in 1 .. 5 /\ execID' = execID
      BY <1>1, <1>2, <2>2 DEF Domains
    <3>2. \A j \in DOMAIN Stream : Stream[j].kind = "exec" => Stream[j].id \in 1 .. execID /\ Stream[j].id < execID
      BY <1>1, <2>1 DEF Issued
    <3>3. CASE Stream' = Stream
      <4>1. ASSUME NEW j \in DOMAIN Stream, Stream[j].kind = "exec"
            PROVE  Stream[j].id \in 1 .. execID /\ Stream[j].id # execID
        BY <3>1, <3>2, <4>1
      <4> QED BY <2>9, <3>1, <3>3, <4>1 DEF Issued
    <3>4. CASE Grown(Outgoing(t))
      <4>1. /\ Len(Stream') = Len(Stream) + 1 /\ Stream'[Len(Stream) + 1] = AskFor(execID, stage)
            /\ \A j \in 1 .. Len(Stream) : Stream'[j] = Stream[j]
        BY <2>1, <3>4 DEF Grown
      <4>2. Len(Stream) \in Nat /\ DOMAIN Stream = 1 .. Len(Stream) /\ DOMAIN Stream' = 1 .. Len(Stream) + 1
        <5>1. got' \in Seq(Frame) /\ frames' \in Seq(Frame)
          BY <2>6 DEF Domains
        <5>2. Stream' \in Seq(Frame)
          BY <5>1, ConcatProperties DEF Stream
        <5>3. DOMAIN Stream' = 1 .. Len(Stream')
          BY <5>2, LenProperties
        <5>4. Len(Stream) \in Nat /\ DOMAIN Stream = 1 .. Len(Stream)
          BY <1>1, Streamed, LenProperties
        <5> QED BY <4>1, <5>3, <5>4
      <4>3. ASSUME NEW j \in DOMAIN Stream', Stream'[j].kind = "exec"
            PROVE  Stream'[j].id \in 1 .. execID /\ (Stream'[j].id = execID => j = Len(Stream'))
        <5>1. CASE j = Len(Stream) + 1
          <6>1. Stream'[j].id = execID
            BY <4>1, <5>1 DEF AskFor
          <6> QED BY <3>1, <4>1, <5>1, <6>1
        <5>2. CASE j \in 1 .. Len(Stream)
          <6>1. Stream'[j] = Stream[j] /\ Stream[j].kind = "exec"
            BY <4>1, <4>3, <5>2
          <6>2. Stream[j].id \in 1 .. execID /\ Stream[j].id < execID
            BY <3>2, <4>2, <5>2, <6>1
          <6> QED BY <3>1, <6>1, <6>2
        <5> QED BY <4>2, <5>1, <5>2
      <4> QED BY <2>9, <3>1, <4>3 DEF Issued
    <3> QED BY <1>7, <3>3, <3>4
  <2>13. Heard'
    BY <2>9 DEF Heard, InPlace
  <2> QED BY <2>6, <2>7, <2>10, <2>11, <2>12, <2>13 DEF Control
<1>9. CASE ~Does(t, "ask")
  <2>1. AtSend(todo[t]) /\ Outgoing(t).kind # "exec" /\ timers' = timers
    BY <1>3, <1>9 DEF Watched
  <2>2. Domains'
    BY <1>1, <1>2, <1>4, <1>6, <2>1 DEF Domains
  <2>3. \/ Fetching(todo[t])' \/ Entering(todo[t])' \/ Naming(todo[t])' \/ Pinning(todo[t])' \/ Asking(todo[t])'
        \/ Storing(todo[t])' \/ Sealing(todo[t])' \/ Leaving(todo[t])' \/ Closing(todo[t])'
    BY <1>4, <2>1 DEF AtSend
  <2>4. InPlace(todo[t])'
    BY <2>3 DEF InPlace, Unsent
  <2>5. /\ Programs' /\ OneDriver' /\ (Drives(t)' <=> InPlace(todo[t])')
        /\ \A u \in Thread : u # t => ~Drives(u)' /\ ~InPlace(todo[u])'
    BY <1>1, <1>2, <1>4, <1>5, <2>2, <2>4, Driver DEF Received
  <2>6. Led'
    BY <1>2, <1>5, <2>4, <2>5 DEF Led
  <2>7. pending # 0 => Unsent(todo[t])
    BY <1>3, Active
  <2>8. \A u \in Thread : Unsent(todo[u])' => Unsent(todo[u])
    <3>1. ASSUME NEW u \in Thread, Unsent(todo[u])' PROVE u = t /\ pending # 0
      <4>1. InPlace(todo[u])' /\ pending' # 0
        BY <3>1 DEF InPlace, Unsent, Naming, Pinning, Asking
      <4> QED BY <1>2, <2>5, <4>1
    <3> QED BY <2>7, <3>1
  <2>9. SameTimers /\ pending' \in {0, pending}
    BY <1>2, <2>1 DEF SameTimers
  <2>10. Counted'
    BY <1>1, <1>2, <2>2, <2>8, <2>9, CountedKept
  <2>11. Issued'
    <3>1. pending' # 0 => \E u \in Thread : Unsent(todo[u])
      BY <1>2, <2>7
    <3> QED BY <1>1, <1>2, <1>3, <1>7, <2>1, <2>2, <2>8, <2>9, <3>1, IssuedKept
  <2>12. Heard'
    <3>1. \A u \in Thread : u # t => ~Advancing(todo[u])' /\ ~Answering(todo[u])' /\ ~Replying(todo[u])'
      BY <2>5 DEF InPlace
    <3>2. ~Advancing(todo[t])' /\ ~Answering(todo[t])'
      <4>1. Heads'
        BY <2>2, HeadedNext
      <4>2. Head(todo'[t]).do \in {"send", "enter", "ask", "close"}
        BY <2>3, <4>1 DEF Heads, AtSend
      <4> QED BY <4>1, <4>2 DEF Heads
    <3>3. ~Replying(todo[t])'
      <4>1. Heads'
        BY <2>2, HeadedNext
      <4>2. CASE Fetching(todo[t])' \/ Naming(todo[t])' \/ Pinning(todo[t])' \/ Storing(todo[t])'
                 \/ Sealing(todo[t])' \/ Leaving(todo[t])'
        BY <4>2 DEF Replying, Fetching, Naming, Pinning, Storing, Sealing, Leaving
      <4>3. CASE Entering(todo[t])' \/ Asking(todo[t])' \/ Closing(todo[t])'
        BY <4>1, <4>3 DEF Heads, AtSend
      <4> QED BY <2>3, <4>2, <4>3
    <3> QED BY <3>1, <3>2, <3>3 DEF Heard
  <2> QED BY <2>2, <2>5, <2>6, <2>10, <2>11, <2>12 DEF Control
<1> QED BY <1>8, <1>9

LEMMA SendFrameControl ==
  ASSUME Control, NEW t \in Thread, SendFrame(t)
  PROVE  Control'
<1>1. \/ frames' = frames
      \/ frames' = Append(frames, Outgoing(t)) /\ Len(frames) < Cap
  BY DEF SendFrame
<1>2. lost' \in BOOLEAN
  BY DEF SendFrame, Control, Domains
<1> QED BY <1>1, <1>2, SendingControl DEF SendFrame

LEMMA GiveUpControl ==
  ASSUME Control, NEW t \in Thread, GiveUp(t)
  PROVE  Control'
<1>1. frames' = frames /\ closed' = closed /\ sse' = sse /\ lost' = TRUE
  BY DEF GiveUp, streamVars
<1> QED BY <1>1, SendingControl DEF GiveUp

LEMMA AdvanceControl ==
  ASSUME Control, NEW t \in Thread, AdvanceTurn(t)
  PROVE  Control'
<1>1. Domains /\ Programs
  BY DEF Control
<1>2. /\ Advancing(todo[t]) /\ stage \in Middle
      /\ todo' \in [Thread -> Program] /\ \A u \in Thread : u # t => todo'[u] = todo[u]
      /\ \/ stage = "context" /\ Deciding(todo[t])'
         \/ stage = "hook:compact" /\ Answering(todo[t])'
         \/ stage \in {"hook:prompt", "tool", "hook:stop"} /\ Entering(todo[t])'
  BY <1>1, AdvanceMoves
<1>3. UNCHANGED <<stage, execID, pending, toolOut, tool, answers, frames, closed, sse, timers, plan, history>>
      /\ UNCHANGED <<begun, got, replied, strays, streams, asked, called, returned, lost>>
  BY DEF AdvanceTurn, sessionVars, streamVars, choiceVars, clientVars, historyVars
<1>4. Domains'
  BY <1>1, <1>2, <1>3 DEF Domains
<1>5. Drives(t) /\ pending = 0
  <2>1. InPlace(todo[t])
    BY <1>2 DEF InPlace
  <2> QED BY <1>1, <1>2, <2>1, Whereabouts DEF Advancing
<1>6. InPlace(todo[t])'
  BY <1>2 DEF InPlace
<1>7. ~Advancing(todo[t])' /\ ~Replying(todo[t])'
  BY <1>2, <1>4, HeadedNext DEF Heads, AtSend
<1>8. UNCHANGED Settled
  BY <1>3 DEF Settled
<1> QED BY <1>2, <1>3, <1>4, <1>5, <1>6, <1>7, <1>8, QuietControl

LEMMA DecideControl ==
  ASSUME Control, NEW t \in Thread, Decide(t)
  PROVE  Control'
<1>1. Domains /\ Programs
  BY DEF Control
<1>2. /\ Deciding(todo[t]) /\ stage = "context"
      /\ todo' \in [Thread -> Program] /\ \A u \in Thread : u # t => todo'[u] = todo[u]
      /\ Entering(todo[t])'
      /\ \/ tool # "none" /\ tool' = "none" /\ called' = tool
         \/ tool = "none" /\ UNCHANGED <<tool, called>>
  BY <1>1, DecideMoves
<1>3. UNCHANGED <<stage, execID, pending, toolOut, answers, frames, closed, sse, timers, plan, history>>
      /\ UNCHANGED <<begun, got, replied, strays, streams, asked, returned, lost>>
  BY DEF Decide, streamVars, choiceVars, clientVars
<1>4. Domains'
  BY <1>1, <1>2, <1>3 DEF Domains
<1>5. Drives(t) /\ pending = 0
  <2>1. InPlace(todo[t])
    BY <1>2 DEF InPlace
  <2> QED BY <1>1, <1>2, <2>1, Whereabouts DEF Deciding
<1>6. InPlace(todo[t])'
  BY <1>2 DEF InPlace
<1>7. ~Advancing(todo[t])' /\ ~Replying(todo[t])' /\ ~Answering(todo[t])'
  BY <1>2, <1>4, HeadedNext DEF Heads, AtSend
<1>8. UNCHANGED Settled
  BY <1>3 DEF Settled
<1> QED BY <1>2, <1>3, <1>4, <1>5, <1>6, <1>7, <1>8, QuietControl

LEMMA AnswerControl ==
  ASSUME Control, NEW t \in Thread, GiveAnswer(t)
  PROVE  Control'
<1>1. Domains /\ Programs
  BY DEF Control
<1>2. /\ Answering(todo[t]) /\ todo' \in [Thread -> Program]
      /\ \A u \in Thread : u # t => todo'[u] = todo[u]
      /\ Replying(todo[t])'
  BY <1>1, AnswerMoves
<1>3. UNCHANGED <<stage, execID, pending, toolOut, tool, frames, closed, sse, timers, plan, history>>
      /\ UNCHANGED <<begun, got, replied, strays, streams, asked, called, returned, lost>>
  BY DEF GiveAnswer, streamVars, choiceVars, clientVars, historyVars
<1>4. Domains'
  BY <1>1, <1>2, <1>3 DEF Domains
<1>5. Drives(t) /\ pending = 0
  <2>1. InPlace(todo[t])
    BY <1>2 DEF InPlace
  <2> QED BY <1>1, <1>2, <2>1, Whereabouts DEF Answering
<1>6. InPlace(todo[t])'
  BY <1>2 DEF InPlace
<1>7. ~Advancing(todo[t])' /\ ~Answering(todo[t])'
  BY <1>2, <1>4, HeadedNext DEF Heads, AtSend
<1>8. UNCHANGED Settled
  BY <1>3 DEF Settled
<1> QED BY <1>2, <1>3, <1>4, <1>5, <1>6, <1>7, <1>8, QuietControl

LEMMA SaveControl ==
  ASSUME Control, NEW t \in Thread, SaveTurn(t)
  PROVE  Control'
<1>1. Domains /\ Programs
  BY DEF Control
<1>2. /\ Saving(todo[t]) /\ todo' \in [Thread -> Program]
      /\ \A u \in Thread : u # t => todo'[u] = todo[u]
      /\ Storing(todo[t])'
  BY <1>1, SaveMoves
<1>3. UNCHANGED <<stage, execID, pending, toolOut, tool, frames, closed, sse, timers, plan, history>>
      /\ UNCHANGED <<begun, got, replied, strays, streams, asked, called, returned, lost>>
  BY DEF SaveTurn, streamVars, choiceVars, clientVars, historyVars
<1>4. Domains'
  BY <1>1, <1>2, <1>3 DEF Domains
<1>5. Drives(t) /\ pending = 0
  <2>1. InPlace(todo[t])
    BY <1>2 DEF InPlace
  <2> QED BY <1>1, <1>2, <2>1, Whereabouts DEF Saving
<1>6. InPlace(todo[t])'
  BY <1>2 DEF InPlace
<1>7. ~Advancing(todo[t])' /\ ~Answering(todo[t])' /\ ~Replying(todo[t])'
  <2>1. ~Replying(todo[t])'
    BY <1>2 DEF Storing, Replying
  <2> QED BY <1>2, <1>4, <2>1, HeadedNext DEF Heads, AtSend
<1>8. UNCHANGED Settled
  BY <1>3 DEF Settled
<1> QED BY <1>2, <1>3, <1>4, <1>5, <1>6, <1>7, <1>8, QuietControl

LEMMA CloseControl ==
  ASSUME Control, NEW t \in Thread, CloseTurn(t)
  PROVE  Control'
<1>1. Domains /\ Programs
  BY DEF Control
<1>2. /\ Closing(todo[t]) /\ todo' \in [Thread -> Program]
      /\ \A u \in Thread : u # t => todo'[u] = todo[u]
      /\ todo'[t] = << >>
  BY <1>1, CloseMoves
<1>3. UNCHANGED <<stage, execID, pending, toolOut, tool, answers, frames, sse, timers, plan, history>>
      /\ UNCHANGED <<begun, got, replied, strays, streams, asked, called, returned, lost>> /\ closed' = TRUE
  BY DEF CloseTurn, sessionVars, choiceVars, clientVars, historyVars
<1>4. Domains'
  BY <1>1, <1>2, <1>3 DEF Domains
<1>5. Drives(t) /\ pending = 0 /\ stage \notin Middle
  <2>1. InPlace(todo[t])
    BY <1>2 DEF InPlace
  <2> QED BY <1>1, <1>2, <2>1, Whereabouts DEF Closing, Middle
<1>6. ~Advancing(todo[t])' /\ ~Answering(todo[t])' /\ ~Replying(todo[t])'
  BY <1>2, <1>4, HeadedNext DEF Heads, AtSend
<1>7. UNCHANGED Settled
  BY <1>3 DEF Settled
<1> QED BY <1>2, <1>3, <1>4, <1>5, <1>6, <1>7, QuietControl

(* The handlers.                                                           *)
LEMMA StoreControl ==
  ASSUME Control, NEW t \in Thread, Store(t)
  PROVE  Control' /\ Aside
<1>1. Domains /\ Programs /\ OneDriver
  BY DEF Control
<1>2. /\ t.by = "reply" /\ ~Drives(t) /\ todo[t] # << >>
      /\ todo' \in [Thread -> Program] /\ \A u \in Thread : u # t => todo'[u] = todo[u]
      /\ Claiming(todo[t])'
  BY <1>1, StoreMoves DEF Store, Does
<1>3. UNCHANGED <<stage, execID, pending, tool, answers, frames, closed, sse, timers, plan, history>>
      /\ UNCHANGED <<begun, got, replied, strays, streams, asked, called, returned, lost>>
      /\ toolOut' \in BOOLEAN
  BY <1>1 DEF Store, streamVars, choiceVars, clientVars, historyVars, Domains
<1>4. Domains'
  BY <1>1, <1>2, <1>3 DEF Domains
<1>5. \A u \in Thread : Apart(u)
  BY <1>2 DEF Apart
<1>6. begun
  BY <1>2, Active
<1>7. UNCHANGED Settled /\ SameTimers /\ NoneRevived /\ Stream' = Stream /\ Received
  BY <1>3 DEF Settled, SameTimers, NoneRevived, Stream, Received
<1> QED BY <1>3, <1>4, <1>5, <1>6, <1>7, BystanderControl

(* The ask that is open when it is answered was the last frame, is out of  *)
(* its sender's hands, and nobody drives.                                  *)
LEMMA Answered ==
  ASSUME Control, NEW j \in DOMAIN got, got[j].kind = "exec", pending # 0, pending = got[j].id
  PROVE  /\ frames = << >> /\ stage \in asked /\ stage \in Middle /\ Asks(stage)
         /\ \A u \in Thread : ~Drives(u)
<1>1. Domains /\ Programs /\ Counted /\ Issued /\ pending = execID
  BY DEF Control, Domains
<1>2. /\ Len(Stream) = Len(got) + Len(frames) /\ Len(got) \in Nat /\ Len(frames) \in Nat
      /\ DOMAIN Stream = 1 .. Len(Stream) /\ DOMAIN got = 1 .. Len(got)
      /\ \A k \in 1 .. Len(Stream) : Stream[k] = IF k <= Len(got) THEN got[k] ELSE frames[k - Len(got)]
  BY <1>1, Streamed
<1>3. j \in DOMAIN Stream /\ Stream[j] = got[j]
  BY <1>2
<1>4. j = Len(Stream) /\ \A u \in Thread : Unsent(todo[u]) => Stream[j].id < execID
  BY <1>1, <1>3 DEF Issued
<1>5. Len(frames) = 0
  BY <1>2, <1>4
<1>6. frames = << >>
  BY <1>1, <1>5, EmptySeq DEF Domains
<1>7. \A u \in Thread : ~Unsent(todo[u])
  <2>1. execID \in 0 .. 5
    BY <1>1 DEF Domains
  <2>2. Stream[j].id = execID
    BY <1>1, <1>3
  <2>3. ~(Stream[j].id < execID)
    BY <2>1, <2>2
  <2> QED BY <1>4, <2>3
<1>8. \A u \in Thread : ~Drives(u)
  BY <1>7, Active
<1> QED BY <1>1, <1>6, <1>8 DEF Counted

LEMMA ClaimControl ==
  ASSUME Control, NEW t \in Thread, Claim(t)
  PROVE  /\ Control'
         /\ \/ UNCHANGED <<pending, returned>> /\ todo'[t] = << >> /\ Aside
            \/ pending # 0 /\ pending' = 0 /\ stage \in Middle /\ frames = << >> /\ Advancing(todo[t])'
               /\ \A u \in Thread : ~Drives(u)
<1>1. Domains /\ Programs /\ OneDriver
  BY DEF Control
<1>2. PICK j \in DOMAIN got, r \in BOOLEAN :
        /\ got[j].kind = "exec"
        /\ \/ /\ pending # 0 /\ pending = got[j].id /\ pending' = 0
              /\ returned' = (returned \/ r) /\ todo'[t] = Do("advance")
           \/ todo'[t] = << >> /\ UNCHANGED <<pending, returned>>
  BY <1>1, ClaimMoves
<1>3. /\ t.by = "reply" /\ ~Drives(t) /\ todo[t] # << >>
      /\ todo' \in [Thread -> Program] /\ \A u \in Thread : u # t => todo'[u] = todo[u]
  BY <1>1, ClaimMoves DEF Claim, Does
<1>4. UNCHANGED <<stage, execID, toolOut, tool, answers, frames, closed, sse, timers, plan, history>>
      /\ UNCHANGED <<begun, got, replied, strays, streams, asked, called, lost>>
  BY DEF Claim, streamVars, choiceVars, clientVars
<1>5. begun
  BY <1>3, Active
<1>6. SameTimers /\ NoneRevived /\ Stream' = Stream /\ Received
  BY <1>4 DEF SameTimers, NoneRevived, Stream, Received
<1>7. returned' \in BOOLEAN /\ pending' \in {0, execID}
  BY <1>1, <1>2 DEF Domains
<1>8. Domains'
  BY <1>1, <1>3, <1>4, <1>7 DEF Domains
<1>9. CASE pending # 0 /\ pending = got[j].id /\ pending' = 0 /\ todo'[t] = Do("advance")
  <2>1. frames = << >> /\ stage \in Middle /\ \A u \in Thread : ~Drives(u)
    BY <1>2, <1>9, Answered
  <2>2. Control' /\ Advancing(todo[t])'
    BY <1>3, <1>4, <1>5, <1>6, <1>8, <1>9, <2>1, SettleControl
  <2> QED BY <1>9, <2>1, <2>2
<1>10. CASE todo'[t] = << >> /\ UNCHANGED <<pending, returned>>
  <2>1. \A u \in Thread : Apart(u)
    BY <1>3, <1>10 DEF Apart
  <2>2. UNCHANGED Settled
    BY <1>4, <1>10 DEF Settled
  <2>3. Control' /\ Aside
    BY <1>4, <1>5, <1>6, <1>8, <2>1, <2>2, BystanderControl
  <2> QED BY <1>10, <2>3
<1> QED BY <1>2, <1>9, <1>10

LEMMA ReplyControl ==
  ASSUME Control, NEW i \in 1 .. plan.slots, NEW j \in DOMAIN got, NEW r \in BOOLEAN,
         Reply(i, got[j], r)
  PROVE  Control' /\ Aside
<1>1. Domains /\ Programs /\ OneDriver /\ Led /\ Counted /\ Issued
  BY DEF Control
<1>2. /\ Handler(i) \in Thread /\ Handler(i).by = "reply" /\ todo[Handler(i)] = << >>
      /\ todo' \in [Thread -> Program]
      /\ \A u \in Thread : u # Handler(i) => todo'[u] = todo[u]
      /\ got[j].kind = "exec"
      /\ Claiming(todo[Handler(i)])'
  BY <1>1, ReplyMoves
<1>3. UNCHANGED <<stage, execID, pending, toolOut, tool, answers, frames, closed, sse, timers, plan, history>>
      /\ UNCHANGED <<begun, got, streams, asked, called, returned, lost>>
  BY DEF Reply, sessionVars, streamVars, choiceVars, historyVars
<1>4. replied' \in 0 .. 5 /\ strays' \in 0 .. plan.strays
  <2>0. plan.strays \in Nat
    <3>1. plan \in Plan
      BY <1>1, PlansAssumption DEF Domains
    <3> QED BY <3>1 DEF Plan
  <2>1. CASE replied' = got[j].id /\ got[j].id = pending /\ UNCHANGED strays
    BY <1>1, <2>1 DEF Domains
  <2>2. CASE strays < plan.strays /\ strays' = strays + 1 /\ UNCHANGED replied
    <3>1. strays \in 0 .. plan.strays /\ replied \in 0 .. 5
      BY <1>1 DEF Domains
    <3> QED BY <2>0, <2>2, <3>1
  <2> QED BY <2>1, <2>2 DEF Reply
<1>5. Domains'
  BY <1>1, <1>2, <1>3, <1>4 DEF Domains
<1>6. \A u \in Thread : Apart(u)
  BY <1>2 DEF Apart, Drives
<1>7. begun
  <2>1. SUFFICES ASSUME ~begun PROVE FALSE
    BY <1>1 DEF Domains
  <2>2. stage = ""
    BY <1>1, <2>1 DEF Led
  <2>3. Number(stage) = 0
    BY <2>2 DEF Number
  <2>4. j \in DOMAIN Stream /\ Stream[j] = got[j]
    BY <1>1, Streamed
  <2>5. got[j].id \in 1 .. execID /\ execID <= Number(stage) /\ execID \in 0 .. 5
    BY <1>1, <1>2, <2>4 DEF Issued, Counted, Domains
  <2> HIDE <2>1
  <2> QED BY <2>3, <2>5
<1>8. UNCHANGED Settled /\ SameTimers /\ NoneRevived /\ Stream' = Stream /\ Received
  BY <1>3 DEF Settled, SameTimers, NoneRevived, Stream, Received
<1> QED BY <1>3, <1>5, <1>6, <1>7, <1>8, BystanderControl

(* The timers.                                                             *)
LEMMA StartControl ==
  ASSUME Control, NEW i \in DOMAIN timers, StartTimer(i)
  PROVE  Control' /\ Aside
<1>1. Domains /\ Programs /\ OneDriver
  BY DEF Control
<1>2. UNCHANGED <<stage, execID, pending, toolOut, tool, answers, frames, closed, sse, todo, plan, history>>
      /\ UNCHANGED <<begun, got, replied, strays, streams, asked, called, returned, lost>>
  BY DEF StartTimer, sessionVars, streamVars, choiceVars, clientVars, historyVars
<1>3. timers' = [timers EXCEPT ![i].at = "asleep", ![i].waitingOn = pending] /\ timers[i].at = "start"
  BY DEF StartTimer
<1>4. /\ DOMAIN timers = 1 .. Len(timers) /\ Len(timers) \in Nat
      /\ \A k \in 1 .. Len(timers) : timers[k] \in Fallback
  BY <1>1, TimerDomains
<1>5. /\ DOMAIN timers' = 1 .. Len(timers)
      /\ \A k \in 1 .. Len(timers) : k # i => timers'[k] = timers[k]
      /\ timers'[i] = [stage |-> timers[i].stage, waitingOn |-> pending, at |-> "asleep"]
  BY <1>3, <1>4 DEF Fallback
<1>6. pending \in 0 .. 5
  BY <1>1 DEF Domains
<1>7. /\ timers' \in Seq(Fallback)
      /\ Len(timers') = Len(timers)
  <2>1. \A k \in 1 .. Len(timers) : timers'[k] \in Fallback
    BY <1>4, <1>5, <1>6 DEF Fallback
  <2>2. timers' = [k \in 1 .. Len(timers) |-> timers'[k]]
    BY <1>3, <1>4
  <2>3. timers' \in [1 .. Len(timers) -> Fallback]
    BY <2>1, <2>2
  <2> QED BY <1>4, <2>3, Listed
<1>8. Domains'
  BY <1>1, <1>2, <1>7 DEF Domains
<1>9. SameTimers /\ NoneRevived
  BY <1>3, <1>4, <1>5, <1>7 DEF SameTimers, NoneRevived
<1>10. UNCHANGED Settled /\ Stream' = Stream /\ Received
  BY <1>2 DEF Settled, Stream, Received
<1>11. \A u \in Thread : Apart(u) /\ todo'[u] = todo[u]
  BY <1>2 DEF Apart
<1> QED BY <1>2, <1>8, <1>9, <1>10, <1>11, BystanderControl

LEMMA RunOutControl ==
  ASSUME Control, NEW i \in DOMAIN timers, RunOut(i)
  PROVE  /\ Control'
         /\ \/ UNCHANGED <<pending, todo>> /\ Aside
            \/ pending # 0 /\ pending' = 0 /\ stage \in Middle /\ Advancing(todo[Timer(i)])'
               /\ (\A u \in Thread : ~Drives(u)) /\ Timer(i) \in Thread
               /\ \A u \in Thread : u # Timer(i) => todo'[u] = todo[u]
<1>1. Domains /\ Programs /\ OneDriver /\ Led /\ Counted /\ Heard
  BY DEF Control
<1>2. UNCHANGED <<stage, execID, toolOut, tool, answers, frames, closed, sse, plan, history>>
      /\ UNCHANGED <<begun, got, replied, strays, streams, asked, called, returned, lost>>
  BY DEF RunOut, streamVars, choiceVars, clientVars, historyVars
<1>3. timers' = [timers EXCEPT ![i].at = "over"] /\ timers[i].at = "asleep" /\ Still
  BY DEF RunOut
<1>4. /\ DOMAIN timers = 1 .. Len(timers) /\ Len(timers) \in Nat
      /\ \A k \in 1 .. Len(timers) : timers[k] \in Fallback
  BY <1>1, TimerDomains
<1>5. /\ DOMAIN timers' = 1 .. Len(timers)
      /\ \A k \in 1 .. Len(timers) : k # i => timers'[k] = timers[k]
      /\ timers'[i] = [stage |-> timers[i].stage, waitingOn |-> timers[i].waitingOn, at |-> "over"]
  BY <1>3, <1>4 DEF Fallback
<1>6. /\ timers' \in Seq(Fallback)
      /\ Len(timers') = Len(timers)
  <2>1. \A k \in 1 .. Len(timers) : timers'[k] \in Fallback
    BY <1>4, <1>5 DEF Fallback
  <2>2. timers' = [k \in 1 .. Len(timers) |-> timers'[k]]
    BY <1>3, <1>4
  <2>3. timers' \in [1 .. Len(timers) -> Fallback]
    BY <2>1, <2>2
  <2> QED BY <1>4, <2>3, Listed
<1>7. SameTimers /\ NoneRevived
  <2>1. \A k \in 1 .. Len(timers) : timers'[k].stage = timers[k].stage
    BY <1>5
  <2>2. \A k \in 1 .. Len(timers) : timers'[k].at # "over" => timers[k].at # "over"
    BY <1>5
  <2> QED BY <1>6, <2>1, <2>2 DEF SameTimers, NoneRevived
<1>8. Stream' = Stream /\ Received
  BY <1>2 DEF Stream, Received
<1>9. Timer(i) \in Thread
  <2>1. Len(timers) <= execID /\ execID \in 0 .. 5
    BY <1>1 DEF Counted, Domains
  <2>2. i \in 1 .. 5
    BY <1>4, <2>1
  <2> QED BY <2>2 DEF Timer, Thread, Exec
<1>10. CASE UNCHANGED <<pending, todo>>
  <2>1. Domains'
    BY <1>1, <1>2, <1>6, <1>10 DEF Domains
  <2>2. UNCHANGED Settled
    BY <1>2, <1>10 DEF Settled
  <2>3. \A u \in Thread : Apart(u) /\ todo'[u] = todo[u]
    BY <1>10 DEF Apart
  <2>4. Control' /\ Aside
    BY <1>2, <1>7, <1>8, <2>1, <2>2, <2>3, BystanderControl
  <2> QED BY <1>10, <2>4
<1>11. CASE /\ stage = timers[i].stage /\ pending = timers[i].waitingOn
            /\ pending' = 0 /\ todo' = [todo EXCEPT ![Timer(i)] = Do("advance")]
  <2>1. stage \in Middle /\ timers[i].stage \in asked
    BY <1>1, <1>4, <1>11 DEF Counted, Fallback
  <2>2. Do("advance") \in Program
    BY Simple
  <2>3. /\ todo' \in [Thread -> Program] /\ todo'[Timer(i)] = Do("advance")
        /\ \A u \in Thread : u # Timer(i) => todo'[u] = todo[u]
    BY <1>1, <1>9, <1>11, <2>2 DEF Domains
  <2>4. Domains'
    BY <1>1, <1>2, <1>6, <1>11, <2>3 DEF Domains
  <2>5. pending # 0
    <3> SUFFICES ASSUME pending = 0 PROVE FALSE
      OBVIOUS
    <3>1. PICK t \in Thread : Drives(t)
      BY <1>1, <2>1 DEF Led
    <3>2. InPlace(todo[t]) /\ todo[t] # << >> /\ ~Ready(t)
      BY <1>3, <3>1, Active DEF Drives, Still
    <3>3. Sending(t) /\ ~(Len(frames) < Cap)
      BY <3>2 DEF Ready
    <3>4. AtSend(todo[t]) \/ Asking(todo[t])
      BY <1>1, <3>3, Whereabouts DEF Sending
    <3>5. Replying(todo[t])
      BY <2>1, <3>4 DEF AtSend, Asking, Fetching, Naming, Pinning, Storing, Sealing, Leaving, Middle
    <3>6. frames = << >>
      BY <1>1, <1>3, <1>11, <3>5 DEF Heard
    <3>7. Len(frames) = 0
      BY <3>6
    <3> QED BY <3>3, <3>7, CapAssumption
  <2>6. \A u \in Thread : ~Drives(u)
    <3>1. \A u \in Thread : ~Unsent(todo[u])
      BY <1>1, <1>11 DEF Counted
    <3> QED BY <2>5, <3>1, Active
  <2>7. begun
    <3>1. ~begun => stage = ""
      BY <1>1 DEF Led
    <3>2. stage # ""
      BY <2>1 DEF Middle
    <3> QED BY <3>1, <3>2
  <2>8. \A k \in 1 .. Len(timers) : timers'[k].stage = stage /\ timers'[k].at # "over" => frames = << >>
    <3>1. \A k \in 1 .. Len(timers) : timers[k].stage = timers[i].stage => k = i
      BY <1>1, <1>4 DEF Counted
    <3> QED BY <1>5, <1>7, <1>11, <3>1 DEF SameTimers
  <2>9. Control' /\ Advancing(todo[Timer(i)])'
    BY <1>2, <1>7, <1>9, <1>11, <2>1, <2>3, <2>4, <2>5, <2>6, <2>7, <2>8, SettleControl
  <2> QED BY <1>9, <1>11, <2>1, <2>3, <2>5, <2>6, <2>9
<1> QED BY <1>10, <1>11 DEF RunOut, Stale

(* The stream and the client.                                              *)
LEMMA RelayControl ==
  ASSUME Control, Relay
  PROVE  Control' /\ Aside /\ ((Stream' = Stream /\ lost' = lost) \/ (Thinned /\ lost' = TRUE))
<1>1. Domains /\ Programs /\ OneDriver
  BY DEF Control
<1>2. UNCHANGED <<stage, execID, pending, toolOut, tool, answers, closed, sse, todo, timers, plan, history>>
      /\ UNCHANGED <<begun, replied, strays, streams, asked, called, returned>>
      /\ frames # << >> /\ frames' = Tail(frames)
  BY DEF Relay, sessionVars, choiceVars
<1>3. /\ frames' \in Seq(Frame) /\ Len(frames') <= Cap
  <2>1. frames \in Seq(Frame) /\ Len(frames) <= Cap /\ Len(frames) \in Nat /\ Cap \in Nat
    BY <1>1, CapAssumption, LenProperties DEF Domains
  <2>2. Tail(frames) \in Seq(Frame) /\ Len(Tail(frames)) = Len(frames) - 1
    BY <1>2, <2>1, HeadTailProperties
  <2> QED BY <1>2, <2>1, <2>2
<1>4. \/ got' = Append(got, Head(frames)) /\ lost' = lost
      \/ got' = got /\ lost' = TRUE
  BY DEF Relay
<1>5. got' \in Seq(Frame) /\ lost' \in BOOLEAN
  BY <1>1, <1>2, <1>4, Written DEF Domains
<1>6. Domains'
  BY <1>1, <1>2, <1>3, <1>5 DEF Domains
<1>7. Received /\ ((Stream' = Stream /\ lost' = lost) \/ (Thinned /\ lost' = TRUE))
  <2>1. CASE got' = Append(got, Head(frames)) /\ lost' = lost
    BY <1>1, <1>2, <2>1, Written
  <2>2. CASE got' = got /\ lost' = TRUE
    BY <1>1, <1>2, <1>6, <2>2, Dropped DEF Received
  <2> QED BY <1>4, <2>1, <2>2
<1>8. UNCHANGED Settled /\ SameTimers /\ NoneRevived
  BY <1>2 DEF Settled, SameTimers, NoneRevived
<1>9. \A u \in Thread : Apart(u) /\ todo'[u] = todo[u]
  BY <1>2 DEF Apart
<1>10. frames = << >> => frames' = << >>
  BY <1>2
<1>11. Control' /\ Aside
  BY <1>2, <1>6, <1>7, <1>8, <1>9, <1>10, BystanderControl
<1> QED BY <1>7, <1>11

(* EndStream, NoticeHangUp, StreamTimeout, OpenStream and HangUp.          *)
LEMMA StreamControl ==
  ASSUME Control, sse' \in {"none", "open", "broken", "gone", "ended"}, streams' \in 0 .. plan.streams,
         UNCHANGED <<sessionVars, frames, closed, todo, timers, choiceVars, begun, got,
                     replied, strays, historyVars>>
  PROVE  Control' /\ Aside /\ Stream' = Stream
<1>1. Domains /\ Programs /\ OneDriver
  BY DEF Control
<1>2. UNCHANGED <<stage, execID, pending, toolOut, tool, answers, frames, closed, todo, timers, plan, history>>
      /\ UNCHANGED <<begun, got, replied, strays, asked, called, returned, lost>>
  BY DEF sessionVars, choiceVars, historyVars
<1>3. Domains'
  BY <1>1, <1>2 DEF Domains
<1>4. UNCHANGED Settled /\ SameTimers /\ NoneRevived /\ Stream' = Stream /\ Received
  BY <1>2 DEF Settled, SameTimers, NoneRevived, Stream, Received
<1>5. \A u \in Thread : Apart(u) /\ todo'[u] = todo[u]
  BY <1>2 DEF Apart
<1> QED BY <1>2, <1>3, <1>4, <1>5, BystanderControl

StreamStep == EndStream \/ NoticeHangUp \/ StreamTimeout \/ OpenStream \/ HangUp

LEMMA StreamSteps ==
  ASSUME Control, StreamStep
  PROVE  /\ Control' /\ Aside /\ Stream' = Stream
         /\ UNCHANGED <<sessionVars, frames, closed, todo, timers, choiceVars, begun, got,
                        replied, strays, historyVars>>
<1>1. UNCHANGED <<sessionVars, frames, closed, todo, timers, choiceVars, begun, got,
                  replied, strays, historyVars>>
  BY DEF StreamStep, EndStream, NoticeHangUp, StreamTimeout, OpenStream, HangUp, clientVars
<1>2. sse' \in {"none", "open", "broken", "gone", "ended"}
  BY DEF StreamStep, EndStream, NoticeHangUp, StreamTimeout, OpenStream, HangUp
<1>3. streams' \in 0 .. plan.streams
  <2>0. plan.streams \in Nat /\ streams \in 0 .. plan.streams
    <3>1. plan \in Plan /\ streams \in 0 .. plan.streams
      BY PlansAssumption DEF Domains, Control
    <3> QED BY <3>1 DEF Plan
  <2>1. streams' = streams \/ (streams < plan.streams /\ streams' = streams + 1)
    BY DEF StreamStep, EndStream, NoticeHangUp, StreamTimeout, OpenStream, HangUp, clientVars
  <2> QED BY <2>0, <2>1
<1> QED BY <1>1, <1>2, <1>3, StreamControl

LEMMA RequestControl ==
  ASSUME Control, RunRequest
  PROVE  Control' /\ stage = "" /\ stage' = "" /\ \A u \in Thread : ~Drives(u)
<1>1. Domains /\ Programs /\ OneDriver /\ Led /\ Counted /\ Issued /\ Heard
  BY DEF Control
<1>2. /\ todo' \in [Thread -> Program] /\ Run \in Thread
      /\ stage = "" /\ pending = 0 /\ execID = 0 /\ begun'
      /\ \A u \in Thread : todo[u] = << >> /\ (u # Run => todo'[u] = todo[u])
      /\ Fetching(todo[Run])' \/ Entering(todo[Run])'
  <2>1. execID <= Number(stage)
    BY <1>1 DEF Counted
  <2> QED BY <1>1, <2>1, RequestMoves
<1>3. UNCHANGED <<stage, execID, pending, toolOut, tool, answers, frames, closed, sse, timers, plan, history>>
      /\ UNCHANGED <<got, replied, strays, streams, asked, called, returned, lost>>
  BY DEF RunRequest, sessionVars, streamVars, choiceVars, historyVars
<1>4. Domains'
  <2>1. begun' \in BOOLEAN
    BY DEF RunRequest
  <2> QED BY <1>1, <1>2, <1>3, <2>1 DEF Domains
<1>5. \A u \in Thread : ~Drives(u)
  BY <1>2 DEF Drives
<1>6. InPlace(todo[Run])'
  BY <1>2 DEF InPlace
<1>7. /\ Programs' /\ OneDriver' /\ \A u \in Thread : u # Run => ~Drives(u)' /\ ~InPlace(todo[u])'
  BY <1>1, <1>2, <1>3, <1>4, <1>5, <1>6, Driver DEF Received
<1>8. Led'
  BY <1>2, <1>3 DEF Led, Middle
<1>9. \A u \in Thread : ~Unsent(todo[u])'
  BY <1>2, <1>3 DEF Unsent, Naming, Pinning, Asking
<1>10. SameTimers /\ NoneRevived /\ Stream' = Stream
  BY <1>3 DEF SameTimers, NoneRevived, Stream
<1>11. Counted'
  BY <1>1, <1>3, <1>4, <1>9, <1>10, CountedKept
<1>12. Issued'
  BY <1>1, <1>3, <1>4, <1>9, <1>10, IssuedKept
<1>13. Heard'
  BY <1>2, <1>3 DEF Heard, Advancing, Answering, Replying, Middle
<1> QED BY <1>2, <1>3, <1>4, <1>5, <1>7, <1>8, <1>11, <1>12, <1>13 DEF Control

LEMMA InitControl == Init => Control
<1> SUFFICES ASSUME Init PROVE Control
  OBVIOUS
<1>10. stage = ""
  BY DEF Init
<1>11. /\ execID = 0 /\ pending = 0 /\ toolOut = FALSE /\ frames = << >> /\ closed = FALSE
       /\ timers = << >> /\ tool = plan.tool /\ history \in History /\ plan \in Plans
       /\ got = << >> /\ replied = 0 /\ strays = 0 /\ streams = 0 /\ asked = {}
  BY DEF Init
<1>1. plan \in Plan /\ plan.strays \in Nat /\ plan.streams \in Nat /\ plan.tool \in {"none", "read", "shell"}
  <2>1. plan \in Plan
    BY <1>11, PlansAssumption
  <2> QED BY <2>1 DEF Plan
<1>2. todo \in [Thread -> Program] /\ \A t \in Thread : todo[t] = << >>
  BY Nothing DEF Init
<1>3. Domains
  <2>1. stage \in Stage /\ execID \in 0 .. 5 /\ pending \in {0, execID}
    <3>1. stage \in Stage
      BY <1>10 DEF Stage
    <3> QED BY <1>11, <3>1
  <2>2. frames \in Seq(Frame) /\ Len(frames) <= Cap /\ got \in Seq(Frame)
    <3>1. Len(<< >>) = 0 /\ << >> \in Seq(Frame)
      BY EmptySeq
    <3> QED BY <1>11, <3>1, CapAssumption
  <2>3. timers \in Seq(Fallback)
    BY <1>11, EmptySeq
  <2>4. /\ tool \in {"none", "read", "shell"} /\ called \in {"none", "read", "shell"}
        /\ plan \in Plans /\ history \in Nat
    <3>1. called = "none"
      BY DEF Init
    <3> QED BY <1>1, <1>11, <3>1, HistoryAssumption
  <2>5. replied \in 0 .. 5 /\ strays \in 0 .. plan.strays /\ streams \in 0 .. plan.streams
    BY <1>1, <1>11
  <2>6. /\ toolOut \in BOOLEAN /\ closed \in BOOLEAN /\ begun \in BOOLEAN
        /\ sse \in {"none", "open", "broken", "gone", "ended"}
        /\ returned \in BOOLEAN /\ lost \in BOOLEAN
    BY DEF Init
  <2> QED BY <1>2, <2>1, <2>2, <2>3, <2>4, <2>5, <2>6 DEF Domains
<1>4. Programs
  BY <1>2 DEF Programs
<1>5. OneDriver
  BY <1>2 DEF OneDriver, Drives
<1>6. Led
  <2>1. stage = "" /\ stage \notin Middle
    BY DEF Init, Middle
  <2> QED BY <1>2, <2>1 DEF Led
<1>7. Counted
  <2>1. stage \notin Middle /\ pending = 0 /\ execID = 0 /\ Len(timers) = 0 /\ DOMAIN timers = {} /\ asked = {}
    <3>1. stage \notin Middle
      BY <1>10 DEF Middle
    <3> QED BY <1>11, <3>1
  <2>2. Number(stage) = 0
    BY DEF Init, Number
  <2>3. \A t \in Thread : ~Unsent(todo[t])
    BY <2>1 DEF Unsent, Naming, Pinning, Asking
  <2> QED BY <2>1, <2>2, <2>3 DEF Counted
<1>8. Issued
  <2>1. Stream = << >> /\ DOMAIN Stream = {}
    BY <1>11 DEF Stream
  <2> QED BY <2>1 DEF Issued
<1>9. Heard
  BY DEF Init, Heard
<1> QED BY <1>3, <1>4, <1>5, <1>6, <1>7, <1>8, <1>9 DEF Control

LEMMA IdleControl ==
  ASSUME Control, UNCHANGED vars
  PROVE  Control' /\ Aside
<1>1. UNCHANGED <<stage, execID, pending, toolOut, tool, answers, frames, closed, sse, todo, timers, plan, history>>
      /\ UNCHANGED <<begun, got, replied, strays, streams, asked, called, returned, lost>>
  BY DEF vars, sessionVars, streamVars, choiceVars, clientVars, historyVars
<1>2. /\ UNCHANGED <<sessionVars, frames, closed, todo, timers, choiceVars, begun, got,
                     replied, strays, historyVars>>
      /\ sse' \in {"none", "open", "broken", "gone", "ended"} /\ streams' \in 0 .. plan.streams
  BY <1>1 DEF sessionVars, choiceVars, historyVars, Control, Domains
<1> QED BY <1>2, StreamControl

LEMMA NextControl == Control /\ [Next]_vars => Control'
<1> SUFFICES ASSUME Control, [Next]_vars PROVE Control'
  OBVIOUS
<1>1. ASSUME NEW t \in Thread, Step(t) PROVE Control'
  BY <1>1, EnterControl, AwaitControl, SendFrameControl, AdvanceControl, DecideControl, AnswerControl,
     SaveControl, CloseControl, StoreControl, ClaimControl, GiveUpControl DEF Step
<1>2. ASSUME NEW i \in DOMAIN timers, StartTimer(i) \/ RunOut(i) PROVE Control'
  BY <1>2, StartControl, RunOutControl
<1>3. Relay => Control'
  BY RelayControl
<1>4. StreamStep => Control'
  BY StreamSteps
<1>5. RunRequest => Control'
  BY RequestControl
<1>6. ASSUME NEW i \in 1 .. plan.slots, NEW j \in DOMAIN got, NEW r \in BOOLEAN, Reply(i, got[j], r)
      PROVE  Control'
  BY <1>6, ReplyControl
<1>7. UNCHANGED vars => Control'
  BY IdleControl
<1> QED BY <1>1, <1>2, <1>3, <1>4, <1>5, <1>6, <1>7 DEF Next, Server, Client, StreamStep

LEMMA AlwaysControl == Spec => []Control
<1>1. Init => Control
  BY InitControl
<1>2. Control /\ [Next]_vars => Control'
  BY NextControl
<1> QED BY <1>1, <1>2, PTL DEF Spec

---------------------------------------------------------------------------
(***************************************************************************)
(* The walk through the stages.                                            *)
(***************************************************************************)
LEMMA TurnStep == Control /\ [Next]_vars => [Turn!TurnNext]_(Turn!turnVars)
<1> SUFFICES ASSUME Control, [Next]_vars PROVE [Turn!TurnNext]_(Turn!turnVars)
  OBVIOUS
<1>0. Domains /\ Programs /\ OneDriver /\ Led /\ Counted
  BY DEF Control
<1>1. ASSUME UNCHANGED <<stage, asked, pending>> PROVE UNCHANGED Turn!turnVars
  BY <1>1 DEF Turn!turnVars
<1>2. ASSUME Aside PROVE UNCHANGED Turn!turnVars
  <2>1. UNCHANGED <<stage, asked, pending>>
    BY <1>2 DEF Aside, Settled
  <2> QED BY <1>1, <2>1
<1>3. ASSUME pending # 0, pending' = 0, UNCHANGED <<stage, asked>> PROVE Turn!Settle
  BY <1>3 DEF Turn!Settle
<1>4. ASSUME NEW t \in Thread, EnterStage(t) PROVE Turn!Move
  <2>1. PICK s \in Stage :
          /\ <<stage, s>> \in Turn!Order /\ pending = 0 /\ stage' = s
          /\ stage \in Middle => (stage \in asked <=> Asks(stage))
    BY <1>0, <1>4, EnterMoves
  <2>2. UNCHANGED <<asked, pending>>
    BY <1>4 DEF EnterStage, historyVars
  <2>3. stage \in Turn!Exchange => stage \in asked
    BY <2>1 DEF Turn!Exchange, Middle, Asks
  <2> QED BY <2>1, <2>2, <2>3 DEF Turn!Move
<1>5. ASSUME NEW t \in Thread, Await(t) PROVE Turn!Ask
  <2>1. /\ stage \in Middle /\ stage \notin asked /\ pending = 0 /\ execID \in Nat
        /\ pending' = execID + 1 /\ asked' = asked \cup {stage} /\ stage' = stage
    BY <1>0, <1>5, AwaitMoves DEF Await, Domains
  <2>2. pending' # 0
    BY <2>1
  <2>3. stage \notin {"", "done"}
    BY <2>1 DEF Middle
  <2> QED BY <2>1, <2>2, <2>3 DEF Turn!Ask
<1>6. ASSUME NEW t \in Thread, Claim(t) PROVE Turn!Settle \/ UNCHANGED Turn!turnVars
  <2>1. UNCHANGED <<stage, asked>>
    BY <1>6 DEF Claim
  <2>2. Aside \/ (pending # 0 /\ pending' = 0)
    BY <1>6, ClaimControl
  <2> QED BY <1>2, <1>3, <2>1, <2>2
<1>7. ASSUME NEW t \in Thread, \/ SendFrame(t) \/ GiveUp(t) \/ AdvanceTurn(t) \/ Decide(t)
                               \/ GiveAnswer(t) \/ SaveTurn(t) \/ CloseTurn(t) \/ Store(t)
      PROVE  UNCHANGED Turn!turnVars
  <2>1. UNCHANGED <<stage, asked, pending>>
    BY <1>7 DEF SendFrame, GiveUp, AdvanceTurn, Decide, GiveAnswer, SaveTurn, CloseTurn, Store,
                sessionVars, historyVars
  <2> QED BY <1>1, <2>1
<1>8. ASSUME NEW t \in Thread, Step(t) PROVE [Turn!TurnNext]_(Turn!turnVars)
  BY <1>4, <1>5, <1>6, <1>7, <1>8 DEF Step, Turn!TurnNext
<1>9. ASSUME NEW i \in DOMAIN timers, StartTimer(i) PROVE UNCHANGED Turn!turnVars
  BY <1>2, <1>9, StartControl
<1>10. ASSUME NEW i \in DOMAIN timers, RunOut(i) PROVE Turn!Settle \/ UNCHANGED Turn!turnVars
  <2>1. UNCHANGED <<stage, asked>>
    BY <1>10 DEF RunOut, historyVars
  <2>2. Aside \/ (pending # 0 /\ pending' = 0)
    BY <1>10, RunOutControl
  <2> QED BY <1>2, <1>3, <2>1, <2>2
<1>11. Relay \/ StreamStep => UNCHANGED Turn!turnVars
  BY <1>2, RelayControl, StreamSteps
<1>12. RunRequest => UNCHANGED Turn!turnVars
  <2>1. RunRequest => UNCHANGED <<stage, asked, pending>>
    BY DEF RunRequest, sessionVars, historyVars
  <2> QED BY <1>1, <2>1
<1>13. ASSUME NEW i \in 1 .. plan.slots, NEW j \in DOMAIN got, NEW r \in BOOLEAN, Reply(i, got[j], r)
       PROVE  UNCHANGED Turn!turnVars
  BY <1>2, <1>13, ReplyControl
<1>14. UNCHANGED vars => UNCHANGED Turn!turnVars
  BY <1>2, IdleControl
<1> QED BY <1>8, <1>9, <1>10, <1>11, <1>12, <1>13, <1>14
        DEF Next, Server, Client, StreamStep, Turn!TurnNext

(* However replies and timers fall, the turn walks its stages in order,    *)
(* asks once at a stage at most and stands still while an ask is open:     *)
(* cursorAdvance is called for the ask that is pending, by one goroutine.  *)
THEOREM ImplementsCursorTurn == Spec => TurnSpec
<1>1. Init => Turn!TurnInit
  BY DEF Init, Turn!TurnInit
<1>2. Control /\ [Next]_vars => [Turn!TurnNext]_(Turn!turnVars)
  BY TurnStep
<1> QED BY <1>1, <1>2, AlwaysControl, PTL DEF Spec, TurnSpec, Turn!TurnSpec

---------------------------------------------------------------------------
(***************************************************************************)
(* The answers counted, and the domains of the variables.                  *)
(***************************************************************************)
Alone == \A t, u \in Thread : InPlace(todo[t]) /\ InPlace(todo[u]) => t = u

LEMMA AloneNow == Control => Alone /\ Heads
  BY Whereabouts, Headed DEF Control, OneDriver, Alone

LEMMA AloneNext == Control' => Alone' /\ Heads'
  BY AloneNow, PTL

LEMMA TallyAside ==
  ASSUME Tally, Aside, answers' = answers
  PROVE  Tally'
<1>1. UNCHANGED <<stage, pending>> /\ \A u \in Thread : SamePlace(u)
  BY DEF Aside, Settled
<1> QED BY <1>1 DEF Tally, SamePlace

(* Where one thread drives, only its place counts.                         *)
LEMMA TallyOf ==
  ASSUME Control', NEW t \in Thread, InPlace(todo[t])', answers' \in 0 .. 3,
         stage' \in {"", "hook:prompt", "context", "tool"} => answers' = 0,
         stage' = "hook:compact" /\ pending' # 0 => answers' = 0,
         stage' = "hook:stop" => answers' = 1,
         stage' = "hook:compact" /\ (Awaiting(todo[t])' \/ Advancing(todo[t])') => answers' = 0,
         Answering(todo[t])' => answers' = 0,
         stage' = "hook:compact" /\ Entering(todo[t])' => answers' = 1,
         Replying(todo[t])' \/ Saving(todo[t])' => answers' = 1
  PROVE  Tally'
<1>1. ASSUME NEW u \in Thread
      PROVE  /\ stage' = "hook:compact" /\ (Awaiting(todo[u])' \/ Advancing(todo[u])') => answers' = 0
             /\ Answering(todo[u])' => answers' = 0
             /\ stage' = "hook:compact" /\ Entering(todo[u])' => answers' = 1
             /\ Replying(todo[u])' \/ Saving(todo[u])' => answers' = 1
  <2>1. CASE u = t
    BY <2>1
  <2>2. CASE u # t
    <3>1. ~InPlace(todo[u])'
      BY <2>2, AloneNext DEF Alone
    <3> QED BY <3>1 DEF InPlace
  <2> QED BY <2>1, <2>2
<1> QED BY <1>1 DEF Tally

LEMMA NextTally ==
  ASSUME Control, Control', Tally, [Next]_vars
  PROVE  Tally'
<1>0. Domains /\ Programs /\ Counted /\ Domains' /\ Heads' /\ Alone'
  BY AloneNext DEF Control
<1>1. ASSUME NEW t \in Thread, EnterStage(t) PROVE Tally'
  <2>1. PICK s \in Stage : /\ Entering(todo[t]) /\ <<stage, s>> \in Turn!Order /\ stage' = s
    BY <1>0, <1>1, EnterMoves
  <2>2. \/ stage' = "done" /\ Saving(todo[t])'
        \/ stage' \in Middle /\ (Awaiting(todo[t])' \/ Advancing(todo[t])')
    BY <1>1, EnterControl
  <2>3. InPlace(todo[t])'
    BY <2>2 DEF InPlace
  <2>4. answers' = answers /\ pending' = pending /\ pending = 0
    BY <1>1, <2>1 DEF EnterStage, Entering
  <2>5. \/ s \in {"hook:prompt", "context", "tool", "hook:compact"} /\ answers = 0
        \/ s \in {"hook:stop", "done"} /\ answers = 1
    BY <2>1 DEF Tally, Turn!Order
  <2>6. ~Entering(todo[t])' /\ ~Answering(todo[t])' /\ ~Replying(todo[t])'
    BY <1>0, <2>2 DEF Heads, AtSend
  <2>7. Saving(todo[t])' => stage' = "done"
    BY DEF Saving
  <2>8. stage' # ""
    BY <2>1, Numbers
  <2> QED BY <2>1, <2>3, <2>4, <2>5, <2>6, <2>7, <2>8, TallyOf DEF Tally
<1>2. ASSUME NEW t \in Thread, Await(t) PROVE Tally'
  <2>1. Awaiting(todo[t]) /\ stage \in Middle /\ (IF stage = "tool" THEN Naming(todo[t])' ELSE Asking(todo[t])')
    BY <1>0, <1>2, AwaitMoves
  <2>2. UNCHANGED <<answers, stage>>
    BY <1>2 DEF Await
  <2>3. InPlace(todo[t])'
    BY <2>1 DEF InPlace, Unsent
  <2>4. ~Awaiting(todo[t])' /\ ~Advancing(todo[t])' /\ ~Answering(todo[t])' /\ ~Entering(todo[t])' /\ ~Saving(todo[t])'
    BY <1>0, <2>1 DEF Heads, AtSend
  <2>5. ~Replying(todo[t])'
    <3>1. CASE stage = "tool"
      BY <2>2, <3>1 DEF Replying
    <3>2. CASE stage # "tool"
      BY <1>0, <2>1, <3>2 DEF Heads, AtSend
    <3> QED BY <3>1, <3>2
  <2> QED BY <2>1, <2>2, <2>3, <2>4, <2>5, TallyOf DEF Tally
<1>3. ASSUME NEW t \in Thread, SendFrame(t) \/ GiveUp(t) PROVE Tally'
  <2>1. Sending(t) /\ Then(t, << >>) /\ UNCHANGED Settled /\ UNCHANGED <<answers, stage, pending>>
    BY <1>3 DEF SendFrame, GiveUp, sessionVars, choiceVars, Settled
  <2>2. /\ AtSend(todo[t]) \/ Asking(todo[t])
        /\ Fetching(todo[t]) => Fetching(todo[t])' \/ Entering(todo[t])'
        /\ Replying(todo[t]) => Entering(todo[t])'
        /\ Naming(todo[t]) => Naming(todo[t])' \/ Pinning(todo[t])'
        /\ Pinning(todo[t]) => Asking(todo[t])'
        /\ Asking(todo[t]) => todo'[t] = << >>
        /\ Storing(todo[t]) => Storing(todo[t])' \/ Sealing(todo[t])'
        /\ Sealing(todo[t]) => Leaving(todo[t])'
        /\ Leaving(todo[t]) => Closing(todo[t])'
    BY <1>0, <2>1, SendMoves
  <2>3. CASE Asking(todo[t])
    <3>1. todo'[t] = << >>
      BY <2>2, <2>3
    <3>2. \A u \in Thread : ~InPlace(todo[u])'
      <4>1. Drives(t) /\ \A u \in Thread : u # t => ~Drives(u) /\ todo'[u] = todo[u]
        BY <1>0, <2>1, <2>3, Whereabouts, Active, SendMoves DEF InPlace, Unsent
      <4>2. \A u \in Thread : ~Drives(u)'
        BY <3>1, <4>1 DEF Drives
      <4> QED BY <4>2, DrivenNext DEF Driven, Control
    <3> QED BY <2>1, <3>2 DEF Tally, InPlace
  <2>4. CASE AtSend(todo[t])
    <3>1. \/ Fetching(todo[t])' \/ Entering(todo[t])' \/ Naming(todo[t])' \/ Pinning(todo[t])' \/ Asking(todo[t])'
          \/ Storing(todo[t])' \/ Sealing(todo[t])' \/ Leaving(todo[t])' \/ Closing(todo[t])'
      BY <2>2, <2>4 DEF AtSend
    <3>2. InPlace(todo[t])'
      BY <3>1 DEF InPlace, Unsent
    <3>3. ~Awaiting(todo[t])' /\ ~Advancing(todo[t])' /\ ~Answering(todo[t])' /\ ~Saving(todo[t])'
      <4>1. Head(todo'[t]).do \in {"send", "enter", "ask", "close"}
        BY <1>0, <3>1 DEF Heads, AtSend
      <4> QED BY <1>0, <4>1 DEF Heads
    <3>4. ~Replying(todo[t])'
      <4>1. CASE Fetching(todo[t])' \/ Naming(todo[t])' \/ Pinning(todo[t])' \/ Storing(todo[t])'
                 \/ Sealing(todo[t])' \/ Leaving(todo[t])'
        BY <4>1 DEF Replying, Fetching, Naming, Pinning, Storing, Sealing, Leaving
      <4>2. CASE Entering(todo[t])' \/ Asking(todo[t])' \/ Closing(todo[t])'
        BY <1>0, <4>2 DEF Heads, AtSend
      <4> QED BY <3>1, <4>1, <4>2
    <3>5. stage' = "hook:compact" /\ Entering(todo[t])' => answers' = 1
      <4>1. stage = "hook:compact" => Replying(todo[t]) \/ ~Entering(todo[t])'
        <5>1. ASSUME stage = "hook:compact" PROVE Replying(todo[t]) \/ Pinning(todo[t]) \/ Naming(todo[t])
          BY <2>4, <5>1 DEF AtSend, Fetching, Storing, Sealing, Leaving
        <5>2. Pinning(todo[t]) \/ Naming(todo[t]) => stage = "tool"
          BY DEF Pinning, Naming
        <5> QED BY <5>1, <5>2
      <4> QED BY <2>1, <4>1 DEF Tally
    <3> QED BY <2>1, <3>2, <3>3, <3>4, <3>5, TallyOf DEF Tally
  <2> QED BY <2>2, <2>3, <2>4
<1>4. ASSUME NEW t \in Thread, AdvanceTurn(t) PROVE Tally'
  <2>1. /\ Advancing(todo[t])
        /\ \/ stage = "context" /\ Deciding(todo[t])'
           \/ stage = "hook:compact" /\ Answering(todo[t])'
           \/ stage \in {"hook:prompt", "tool", "hook:stop"} /\ Entering(todo[t])'
    BY <1>0, <1>4, AdvanceMoves
  <2>2. UNCHANGED <<answers, stage, pending>>
    BY <1>4 DEF AdvanceTurn, sessionVars
  <2>3. InPlace(todo[t])'
    BY <2>1 DEF InPlace
  <2>4. ~Awaiting(todo[t])' /\ ~Advancing(todo[t])' /\ ~Replying(todo[t])' /\ ~Saving(todo[t])'
        /\ (stage = "hook:compact" => ~Entering(todo[t])')
    BY <1>0, <2>1 DEF Heads, AtSend
  <2>5. Answering(todo[t])' => stage = "hook:compact"
    BY <2>2 DEF Answering
  <2> QED BY <2>1, <2>2, <2>3, <2>4, <2>5, TallyOf DEF Tally
<1>5. ASSUME NEW t \in Thread, Decide(t) PROVE Tally'
  <2>1. stage = "context" /\ Entering(todo[t])' /\ UNCHANGED <<answers, stage, pending>>
    BY <1>0, <1>5, DecideMoves DEF Decide
  <2>2. InPlace(todo[t])'
    BY <2>1 DEF InPlace
  <2>3. ~Answering(todo[t])' /\ ~Replying(todo[t])' /\ ~Saving(todo[t])'
    BY <1>0, <2>1 DEF Heads, AtSend
  <2> QED BY <2>1, <2>2, <2>3, TallyOf DEF Tally
<1>6. ASSUME NEW t \in Thread, GiveAnswer(t) PROVE Tally'
  <2>1. Answering(todo[t]) /\ Replying(todo[t])' /\ UNCHANGED <<stage, pending>> /\ answers' = answers + 1
    BY <1>0, <1>6, AnswerMoves DEF GiveAnswer
  <2>2. InPlace(todo[t])'
    BY <2>1 DEF InPlace
  <2>3. stage = "hook:compact" /\ answers' = 1 /\ pending = 0
    <3>1. stage = "hook:compact" /\ answers = 0 /\ pending = 0
      BY <2>1 DEF Tally, Answering
    <3> QED BY <2>1, <3>1
  <2>4. ~Awaiting(todo[t])' /\ ~Advancing(todo[t])' /\ ~Answering(todo[t])'
    BY <1>0, <2>1 DEF Heads, AtSend
  <2> QED BY <2>1, <2>2, <2>3, <2>4, TallyOf
<1>7. ASSUME NEW t \in Thread, SaveTurn(t) PROVE Tally'
  <2>1. Saving(todo[t]) /\ Storing(todo[t])' /\ UNCHANGED <<stage, pending>> /\ answers' = answers + 2
    BY <1>0, <1>7, SaveMoves DEF SaveTurn
  <2>2. InPlace(todo[t])'
    BY <2>1 DEF InPlace
  <2>3. stage = "done" /\ answers' = 3
    <3>1. stage = "done" /\ answers = 1
      BY <2>1 DEF Tally, Saving
    <3> QED BY <2>1, <3>1
  <2>4. ~Saving(todo[t])' /\ ~Answering(todo[t])' /\ ~Replying(todo[t])'
    <3>1. ~Replying(todo[t])'
      BY <2>1, <2>3 DEF Replying
    <3> QED BY <1>0, <2>1, <3>1 DEF Heads, AtSend
  <2> QED BY <2>1, <2>2, <2>3, <2>4, TallyOf
<1>8. ASSUME NEW t \in Thread, CloseTurn(t) PROVE Tally'
  <2>1. Closing(todo[t]) /\ todo'[t] = << >> /\ UNCHANGED <<stage, pending, answers>>
    BY <1>0, <1>8, CloseMoves DEF CloseTurn, sessionVars
  <2>2. stage' = "done" /\ ~Saving(todo[t])'
    BY <1>0, <2>1 DEF Closing, Heads
  <2>3. \A u \in Thread : ~InPlace(todo[u])'
    <3>1. Drives(t) /\ \A u \in Thread : u # t => ~Drives(u) /\ todo'[u] = todo[u]
      BY <1>0, <1>8, <2>1, Whereabouts, Active, CloseMoves DEF InPlace
    <3>2. \A u \in Thread : ~Drives(u)'
      BY <2>1, <3>1 DEF Drives
    <3> QED BY <3>2, DrivenNext DEF Driven, Control
  <2> QED BY <2>1, <2>2, <2>3 DEF Tally, InPlace
<1>9. ASSUME NEW t \in Thread, Store(t) PROVE Tally'
  BY <1>9, StoreControl, TallyAside DEF Store
<1>10. ASSUME NEW t \in Thread, pending # 0, pending' = 0, UNCHANGED <<stage, answers>>, Advancing(todo[t])'
       PROVE  Tally'
  <2>1. InPlace(todo[t])'
    BY <1>10 DEF InPlace
  <2>2. ~Answering(todo[t])' /\ ~Replying(todo[t])' /\ ~Saving(todo[t])' /\ ~Entering(todo[t])'
    BY <1>0, <1>10 DEF Heads, AtSend
  <2> QED BY <1>10, <2>1, <2>2, TallyOf DEF Tally
<1>11. ASSUME NEW t \in Thread, Claim(t) PROVE Tally'
  <2>1. UNCHANGED <<stage, answers>>
    BY <1>11 DEF Claim
  <2>2. Aside \/ (pending # 0 /\ pending' = 0 /\ Advancing(todo[t])')
    BY <1>11, ClaimControl
  <2> QED BY <1>10, <2>1, <2>2, TallyAside
<1>12. ASSUME NEW t \in Thread, Step(t) PROVE Tally'
  BY <1>1, <1>2, <1>3, <1>4, <1>5, <1>6, <1>7, <1>8, <1>9, <1>11, <1>12 DEF Step
<1>13. ASSUME NEW i \in DOMAIN timers, StartTimer(i) PROVE Tally'
  BY <1>13, StartControl, TallyAside DEF StartTimer, sessionVars
<1>14. ASSUME NEW i \in DOMAIN timers, RunOut(i) PROVE Tally'
  <2>1. UNCHANGED <<stage, answers>>
    BY <1>14 DEF RunOut
  <2>2. Aside \/ (pending # 0 /\ pending' = 0 /\ Timer(i) \in Thread /\ Advancing(todo[Timer(i)])')
    BY <1>14, RunOutControl
  <2> QED BY <1>10, <2>1, <2>2, TallyAside
<1>15. Relay => Tally'
  BY RelayControl, TallyAside DEF Relay, sessionVars
<1>16. StreamStep => Tally'
  BY StreamSteps, TallyAside DEF sessionVars
<1>17. RunRequest => Tally'
  <2> SUFFICES ASSUME RunRequest PROVE Tally'
    OBVIOUS
  <2>1. UNCHANGED <<stage, answers>> /\ stage = ""
    BY RequestControl DEF RunRequest, sessionVars
  <2>2. \A u \in Thread : ~Answering(todo[u])' /\ ~Replying(todo[u])' /\ ~Saving(todo[u])'
    BY <2>1 DEF Answering, Replying, Saving
  <2> QED BY <2>1, <2>2 DEF Tally
<1>18. ASSUME NEW i \in 1 .. plan.slots, NEW j \in DOMAIN got, NEW r \in BOOLEAN, Reply(i, got[j], r)
       PROVE  Tally'
  BY <1>18, ReplyControl, TallyAside DEF Reply, sessionVars
<1>19. UNCHANGED vars => Tally'
  BY IdleControl, TallyAside DEF vars, sessionVars
<1> QED BY <1>12, <1>13, <1>14, <1>15, <1>16, <1>17, <1>18, <1>19
        DEF Next, Server, Client, StreamStep

LEMMA InitTally == Init => Tally
<1> SUFFICES ASSUME Init PROVE Tally
  OBVIOUS
<1>1. stage = "" /\ answers = 0
  BY DEF Init
<1>2. \A t \in Thread : ~Answering(todo[t]) /\ ~Replying(todo[t]) /\ ~Saving(todo[t])
  BY <1>1 DEF Answering, Replying, Saving
<1>3. answers \in 0 .. 3
  <2>1. answers = 0
    BY <1>1
  <2> HIDE <1>1
  <2> QED BY <2>1
<1> QED BY <1>1, <1>2, <1>3 DEF Tally

LEMMA Typed == Control /\ Tally => TypeOK
<1> SUFFICES ASSUME Control, Tally PROVE TypeOK
  OBVIOUS
<1>1. Domains /\ Counted
  BY DEF Control
<1>2. execID \in Exec \cup {0} /\ pending \in Exec \cup {0} /\ replied \in Exec \cup {0}
  BY <1>1 DEF Domains, Exec
<1>3. Len(timers) \in Exec \cup {0}
  <2>1. Len(timers) \in Nat
    BY <1>1, TimerDomains
  <2>2. Len(timers) <= execID
    BY <1>1 DEF Counted
  <2>3. execID \in 0 .. 5
    BY <1>1 DEF Domains
  <2>4. \A n \in Nat, m \in 0 .. 5 : n <= m => n \in 0 .. 5
    OBVIOUS
  <2>5. Len(timers) \in 0 .. 5
    BY <2>1, <2>2, <2>3, <2>4
  <2> QED BY <2>5 DEF Exec
<1>4. asked \subseteq Stage
  BY <1>1 DEF Counted, Middle, Stage
<1>5. \A i \in DOMAIN timers : /\ timers[i].stage \in Stage
                              /\ timers[i].waitingOn \in Exec \cup {0}
                              /\ timers[i].at \in {"start", "asleep", "over"}
  <2>1. \A i \in DOMAIN timers : timers[i] \in Fallback
    BY <1>1, TimerDomains
  <2>2. Middle \subseteq Stage /\ 0 .. 5 \subseteq Exec \cup {0}
    BY DEF Middle, Stage, Exec
  <2> QED BY <2>1, <2>2 DEF Fallback
<1>6. DOMAIN todo = Thread
  BY <1>1 DEF Domains
<1>7. answers \in 0 .. 3
  BY DEF Tally
<1> QED BY <1>1, <1>2, <1>3, <1>4, <1>5, <1>6, <1>7 DEF TypeOK, Domains

(* No id, timer or counter of a run leaves its domain: five ids are enough *)
(* for its asks, and a timer is started for an ask that has one            *)
(* (cursorAwait, cursorFallback).                                          *)
THEOREM TypeCorrect == Spec => []TypeOK
<1>1. Init => Control /\ Tally
  BY InitControl, InitTally
<1>2. Control /\ Tally /\ [Next]_vars => Control' /\ Tally'
  BY NextControl, NextTally
<1>3. Control /\ Tally => TypeOK
  BY Typed
<1> QED BY <1>1, <1>2, <1>3, PTL DEF Spec


---------------------------------------------------------------------------
(***************************************************************************)
(* The order of the stream.                                                *)
(***************************************************************************)
LEMMA Ranks ==
  /\ \A f \in Frame : Rank(f) \in Nat /\ No(f) \in Nat
  /\ \A i : Rank(GetBlob(i)) = 0 /\ No(GetBlob(i)) = i
  /\ \A i : Rank(Blob("pending", i)) = 3 /\ No(Blob("pending", i)) = i
  /\ \A i : Rank(Blob("final", i)) = 9 /\ No(Blob("final", i)) = i
  /\ \A r : Rank(Checkpoint("pending", r)) = 4 /\ Rank(Checkpoint("final", r)) = 10
  /\ \A id : \A s \in Middle : Rank(AskFor(id, s)) = AskRank(s)
  /\ Rank(Answer) = 7 /\ Rank(Ended) = 11
<1>1. ASSUME NEW f \in Frame PROVE Rank(f) \in Nat
  BY DEF Frame, Rank, Middle
<1>2. ASSUME NEW f \in Frame PROVE No(f) \in Nat
  BY DEF Frame, No
<1>3. \A i : Rank(GetBlob(i)) = 0 /\ No(GetBlob(i)) = i
  BY DEF Rank, No, GetBlob
<1>4. \A i : Rank(Blob("pending", i)) = 3 /\ No(Blob("pending", i)) = i
  BY DEF Rank, No, Blob
<1>5. \A i : Rank(Blob("final", i)) = 9 /\ No(Blob("final", i)) = i
  BY DEF Rank, No, Blob
<1>6. \A r : Rank(Checkpoint("pending", r)) = 4 /\ Rank(Checkpoint("final", r)) = 10
  BY DEF Rank, Checkpoint
<1>7. \A id : \A s \in Middle : Rank(AskFor(id, s)) = AskRank(s)
  BY DEF Rank, AskFor, AskRank, Floor, Middle
<1>8. Rank(Answer) = 7 /\ Rank(Ended) = 11
  BY DEF Rank, Answer, Ended
<1> QED BY <1>1, <1>2, <1>3, <1>4, <1>5, <1>6, <1>7, <1>8

LEMMA Floors ==
  /\ \A s \in Middle \cup {"done"} : Floor(s) \in Nat
  /\ \A s \in Middle : AskRank(s) \in Nat /\ Floor(s) <= AskRank(s)
  /\ \A s : s # "tool" => AskRank(s) = Floor(s)
  /\ \A s : s = "tool" => AskRank(s) = 5 /\ Floor(s) = 3
  /\ \A s : s = "hook:prompt" => Floor(s) = 1
  /\ \A s : s = "context" => Floor(s) = 2
  /\ \A s : s = "hook:compact" => Floor(s) = 6
  /\ \A s : s = "hook:stop" => Floor(s) = 8
  /\ \A s : s = "done" => Floor(s) = 9
  /\ \A a, b : <<a, b>> \in Turn!Order /\ a \in Middle => AskRank(a) + 1 <= Floor(b)
<1>1. /\ \A s : s # "tool" => AskRank(s) = Floor(s)
      /\ \A s : s = "tool" => AskRank(s) = 5 /\ Floor(s) = 3
      /\ \A s : s = "hook:prompt" => Floor(s) = 1
      /\ \A s : s = "context" => Floor(s) = 2
      /\ \A s : s = "hook:compact" => Floor(s) = 6
      /\ \A s : s = "hook:stop" => Floor(s) = 8
      /\ \A s : s = "done" => Floor(s) = 9
  BY DEF Floor, AskRank
<1>2. \A s \in Middle \cup {"done"} : Floor(s) \in Nat
  BY <1>1 DEF Middle
<1>3. \A s \in Middle : AskRank(s) \in Nat /\ Floor(s) <= AskRank(s)
  BY <1>1 DEF Middle
<1>4. ASSUME NEW a, NEW b, <<a, b>> \in Turn!Order, a \in Middle PROVE AskRank(a) + 1 <= Floor(b)
  <2>1. \/ a = "hook:prompt" /\ b = "context"
        \/ a = "context" /\ b = "tool"
        \/ a = "context" /\ b = "hook:compact"
        \/ a = "tool" /\ b = "hook:compact"
        \/ a = "hook:compact" /\ b = "hook:stop"
        \/ a = "hook:stop" /\ b = "done"
    <3>1. \/ (a = "" /\ b = "hook:prompt") \/ (a = "hook:prompt" /\ b = "context")
          \/ (a = "context" /\ b = "tool") \/ (a = "context" /\ b = "hook:compact")
          \/ (a = "tool" /\ b = "hook:compact") \/ (a = "hook:compact" /\ b = "hook:stop")
          \/ (a = "hook:stop" /\ b = "done")
      BY <1>4 DEF Turn!Order
    <3>2. a # ""
      BY <1>4 DEF Middle
    <3> QED BY <3>1, <3>2
  <2> QED BY <1>1, <2>1
<1> QED BY <1>1, <1>2, <1>3, <1>4

LEMMA Chain ==
  ASSUME NEW f \in Frame, NEW g \in Frame
  PROVE  /\ \A h \in Frame : Precedes(h, f) /\ Precedes(f, g) => Precedes(h, g)
         /\ \A h \in Frame, r \in Nat : Precedes(h, f) /\ Rank(f) < r => Rank(h) < r
         /\ Rank(f) < Rank(g) => Precedes(f, g)
         /\ Precedes(f, g) => Rank(f) <= Rank(g) /\ f # g
<1>1. \A h \in Frame : Rank(h) \in Nat /\ No(h) \in Nat
  BY Ranks
<1> QED BY <1>1 DEF Precedes

(* What was sent is unchanged, or less was received.                       *)
Kept == (Stream' = Stream /\ lost' = lost) \/ (Thinned /\ lost')

LEMMA StreamKept ==
  ASSUME Domains, Kept
  PROVE  /\ Sorted => Sorted'
         /\ Named => Named'
         /\ \A g : Before(g) => Before(g)'
         /\ \A r : Under(r) => Under(r)'
         /\ \A g : Complete(g) => Complete(g)'
         /\ Stream = << >> => Stream' = << >>
<1>1. CASE Stream' = Stream /\ lost' = lost
  BY <1>1 DEF Sorted, Named, Before, Under, Complete, Stored
<1>2. CASE Thinned /\ lost'
  <2>1. PICK n \in Nat : /\ n < Len(Stream) /\ Len(Stream') = Len(Stream) - 1
                         /\ \A j \in 1 .. Len(Stream) - 1 : Stream'[j] = Stream[IF j <= n THEN j ELSE j + 1]
    BY <1>2 DEF Thinned
  <2> DEFINE at(j) == IF j <= n THEN j ELSE j + 1
  <2>2. Len(Stream) \in Nat
    BY Streamed
  <2>3. \A j \in 1 .. Len(Stream') : at(j) \in 1 .. Len(Stream) /\ Stream'[j] = Stream[at(j)]
    BY <2>1, <2>2
  <2>4. \A i, j \in 1 .. Len(Stream') : i < j => at(i) < at(j)
    BY <2>1, <2>2
  <2> HIDE DEF at
  <2>5. Sorted => Sorted'
    BY <2>3, <2>4 DEF Sorted
  <2>6. \A g : Before(g) => Before(g)'
    BY <2>3 DEF Before
  <2>7. \A r : Under(r) => Under(r)'
    BY <2>3 DEF Under
  <2>8. Named' /\ \A g : Complete(g)'
    BY <1>2 DEF Named, Complete, Stored
  <2>9. Stream # << >>
    <3>1. Len(Stream) # 0 /\ Stream \in Seq(Frame)
      BY <2>1, <2>2, Streamed
    <3> QED BY <3>1, EmptySeq
  <2> QED BY <2>5, <2>6, <2>7, <2>8, <2>9
<1> QED BY <1>1, <1>2 DEF Kept

(* A frame is queued, or lost.                                             *)
Went(f) == (Stream' = Stream /\ lost') \/ (Grown(f) /\ (lost => lost'))
Follows(f, g) ==
  /\ Precedes(f, g)
  /\ g.kind = "blob" => f = Blob(g.of, g.no - 1) /\ g.no \in Nat \ {0}
  /\ g.kind = "checkpoint" => f = Blob(g.of, Blobs)

LEMMA SentOn ==
  ASSUME Domains, Sorted, Named, NEW f \in Frame, Before(f), Complete(f), Went(f)
  PROVE  /\ Sorted' /\ Named'
         /\ \A g \in Frame : Precedes(f, g) => Before(g)'
         /\ \A r \in Nat : Rank(f) < r => Under(r)'
         /\ \A g \in Frame : Follows(f, g) => Complete(g)'
<1>1. Len(Stream) \in Nat /\ \A i \in 1 .. Len(Stream) : Stream[i] \in Frame /\ Precedes(Stream[i], f)
  BY Streamed, ElementOfSeq DEF Before
<1>2. CASE Stream' = Stream /\ lost'
  <2>1. Sorted' /\ Named'
    BY <1>2 DEF Sorted, Named
  <2>2. \A g \in Frame : Precedes(f, g) => Before(g)'
    BY <1>1, <1>2, Chain DEF Before
  <2>3. \A r \in Nat : Rank(f) < r => Under(r)'
    BY <1>1, <1>2, Chain DEF Under
  <2>4. \A g : Complete(g)'
    BY <1>2 DEF Complete, Stored
  <2> QED BY <2>1, <2>2, <2>3, <2>4
<1>3. CASE Grown(f) /\ (lost => lost')
  <2> DEFINE n == Len(Stream)
  <2>1. Len(Stream') = n + 1 /\ Stream'[n + 1] = f /\ \A j \in 1 .. n : Stream'[j] = Stream[j]
    BY <1>3 DEF Grown
  <2>2. n \in Nat /\ \A i \in 1 .. n : Stream'[i] \in Frame /\ Precedes(Stream'[i], f)
    BY <1>1, <2>1
  <2>3. \A i \in 1 .. n + 1 : i = n + 1 \/ i \in 1 .. n
    BY <2>2
  <2>4. \A i, j \in 1 .. n : i < j => Precedes(Stream'[i], Stream'[j])
    BY <2>1 DEF Sorted
  <2>5. \A c : \A k \in Nat : Stored(c, k) => (~lost' => \A m \in 1 .. k : \E j \in 1 .. n : Stream'[j] = Blob(c, m))
    BY <1>3, <2>1 DEF Stored
  <2>6. Complete(f)
    OBVIOUS
  <2>7. ~lost' => \A i \in 1 .. n : Stream'[i].kind = "checkpoint" =>
          \A m \in 1 .. Blobs : \E j \in 1 .. i - 1 : Stream'[j] = Blob(Stream'[i].of, m)
    <3>1. \A i \in 1 .. n : \A j \in 1 .. i - 1 : j \in 1 .. n
      BY <2>2
    <3> QED BY <1>3, <2>1, <3>1 DEF Named
  <2> HIDE DEF n
  <2>8. Sorted'
    <3> SUFFICES ASSUME NEW i \in 1 .. n + 1, NEW j \in 1 .. n + 1, i < j
                 PROVE  Precedes(Stream'[i], Stream'[j])
      BY <2>1 DEF Sorted
    <3>1. i \in 1 .. n
      BY <2>2
    <3>2. CASE j = n + 1
      BY <2>1, <2>2, <3>1, <3>2
    <3>3. CASE j \in 1 .. n
      BY <2>4, <3>1, <3>3
    <3> QED BY <2>3, <3>2, <3>3
  <2>9. ASSUME NEW g \in Frame, Precedes(f, g) PROVE Before(g)'
    <3>1. \A i \in 1 .. n : Precedes(Stream'[i], g)
      BY <2>2, <2>9, Chain
    <3>2. \A i \in 1 .. n + 1 : Precedes(Stream'[i], g)
      BY <2>1, <2>3, <2>9, <3>1
    <3> QED BY <2>1, <3>2 DEF Before
  <2>10. ASSUME NEW r \in Nat, Rank(f) < r PROVE Under(r)'
    <3>1. \A i \in 1 .. n : Rank(Stream'[i]) < r
      BY <2>2, <2>10, Chain
    <3>2. \A i \in 1 .. n + 1 : Rank(Stream'[i]) < r
      BY <2>1, <2>3, <2>10, <3>1
    <3> QED BY <2>1, <3>2 DEF Under
  <2>11. Named'
    <3> SUFFICES ASSUME ~lost', NEW i \in 1 .. n + 1, Stream'[i].kind = "checkpoint", NEW m \in 1 .. Blobs
                 PROVE  \E j \in 1 .. i - 1 : Stream'[j] = Blob(Stream'[i].of, m)
      BY <2>1 DEF Named
    <3>1. CASE i \in 1 .. n
      BY <2>7, <3>1
    <3>2. CASE i = n + 1
      <4>1. Stored(f.of, Blobs) /\ i - 1 = n /\ Blobs \in Nat
        BY <2>1, <2>2, <2>6, <3>2, BlobsAssumption DEF Complete
      <4> QED BY <2>1, <2>5, <3>2, <4>1
    <3> QED BY <2>3, <3>1, <3>2
  <2>12. ASSUME NEW c, NEW k \in Nat, k # 0, f = Blob(c, k) PROVE Stored(c, k)'
    <3>1. Stored(c, k - 1) /\ k - 1 \in Nat
      BY <2>6, <2>12 DEF Complete, Blob
    <3>2. ASSUME ~lost', NEW m \in 1 .. k PROVE \E j \in 1 .. n + 1 : Stream'[j] = Blob(c, m)
      <4>1. CASE m = k
        BY <2>1, <2>2, <2>12, <4>1
      <4>2. CASE m \in 1 .. k - 1
        <5>1. \E j \in 1 .. n : Stream'[j] = Blob(c, m)
          BY <2>5, <3>1, <3>2, <4>2
        <5> QED BY <2>2, <5>1
      <4> QED BY <2>12, <4>1, <4>2
    <3> QED BY <2>1, <3>2 DEF Stored
  <2>13. ASSUME NEW g \in Frame, Follows(f, g) PROVE Complete(g)'
    <3>1. ASSUME g.kind = "blob" PROVE Stored(g.of, g.no - 1)'
      <4>1. f = Blob(g.of, g.no - 1) /\ g.no - 1 \in Nat
        BY <2>13, <3>1 DEF Follows
      <4>2. CASE g.no - 1 # 0
        BY <2>12, <4>1, <4>2
      <4>3. CASE g.no - 1 = 0
        BY <4>3 DEF Stored
      <4> QED BY <4>2, <4>3
    <3>2. ASSUME g.kind = "checkpoint" PROVE Stored(g.of, Blobs)'
      BY <2>12, <2>13, <3>2, BlobsAssumption DEF Follows
    <3> QED BY <3>1, <3>2 DEF Complete
  <2> QED BY <2>8, <2>9, <2>10, <2>11, <2>13
<1> QED BY <1>2, <1>3 DEF Went

(* A frame is followed by the next of its series, by what names the        *)
(* series, or by a later part of the turn.                                 *)
Outlets == \A t \in Thread : AtSend(todo[t]) => Head(todo[t]).frame \in Frame

LEMMA OutletsNow == Domains => Outlets
  BY Sends DEF Outlets

LEMMA OutletsNext == Domains' => Outlets'
  BY OutletsNow, PTL

LEMMA SeriesFollows ==
  ASSUME Domains, NEW t \in Thread, todo'[t] = Tail(todo[t]), NEW c \in Series, NEW q \in Program,
         NEW k \in Nat, k < Count(c), todo[t] = Left(c, k) \o q
  PROVE  /\ Does(t, "send") /\ Outgoing(t) = Item(c, k + 1)
         /\ k + 1 < Count(c) => Head(todo'[t]) = [do |-> "send", frame |-> Item(c, k + 2)]
         /\ k + 1 = Count(c) => todo'[t] = q
<1>0. history \in Nat
  BY DEF Domains
<1>1. /\ Does(t, "send") /\ Outgoing(t) = Item(c, k + 1)
      /\ todo'[t] = Left(c, k + 1) \o q
      /\ k + 1 = Count(c) => todo'[t] = q
  BY SeriesStep
<1>2. ASSUME k + 1 < Count(c) PROVE Head(todo'[t]) = [do |-> "send", frame |-> Item(c, k + 2)]
  <2>1. k + 1 \in Nat /\ (k + 1) + 1 = k + 2
    OBVIOUS
  <2>2. Starts(Left(c, k + 1) \o q, [do |-> "send", frame |-> Item(c, (k + 1) + 1)], Left(c, (k + 1) + 1) \o q)
    BY <1>0, <1>2, <2>1, Starting
  <2> QED BY <1>1, <2>1, <2>2 DEF Starts
<1> QED BY <1>1, <1>2

LEMMA NextInSeries ==
  /\ \A k \in Nat : Follows(GetBlob(k + 1), GetBlob(k + 2))
  /\ \A c \in {"pending", "final"}, k \in Nat : Follows(Blob(c, k + 1), Blob(c, k + 2))
  /\ \A c \in {"pending", "final"}, r \in BOOLEAN, k \in Nat :
       k + 1 = Blobs => Follows(Blob(c, k + 1), Checkpoint(c, r))
  /\ \A r \in BOOLEAN : Follows(Checkpoint("final", r), Ended)
<1>1. ASSUME NEW k \in Nat PROVE Follows(GetBlob(k + 1), GetBlob(k + 2))
  <2>1. Precedes(GetBlob(k + 1), GetBlob(k + 2))
    BY Ranks DEF Precedes
  <2> QED BY <2>1 DEF Follows, GetBlob
<1>2. ASSUME NEW c \in {"pending", "final"}, NEW k \in Nat PROVE Follows(Blob(c, k + 1), Blob(c, k + 2))
  <2>1. Precedes(Blob(c, k + 1), Blob(c, k + 2))
    <3>1. CASE c = "pending"
      BY <3>1, Ranks DEF Precedes
    <3>2. CASE c = "final"
      BY <3>2, Ranks DEF Precedes
    <3> QED BY <3>1, <3>2
  <2>2. Blob(c, k + 2).of = c /\ Blob(c, k + 2).no = k + 2 /\ Blob(c, k + 2).kind = "blob"
    BY DEF Blob
  <2>3. (k + 2) - 1 = k + 1 /\ k + 2 \in Nat \ {0}
    OBVIOUS
  <2> QED BY <2>1, <2>2, <2>3 DEF Follows
<1>3. ASSUME NEW c \in {"pending", "final"}, NEW r \in BOOLEAN, NEW k \in Nat, k + 1 = Blobs
      PROVE  Follows(Blob(c, k + 1), Checkpoint(c, r))
  <2>1. Precedes(Blob(c, k + 1), Checkpoint(c, r))
    <3>1. CASE c = "pending"
      BY <3>1, Ranks DEF Precedes
    <3>2. CASE c = "final"
      BY <3>2, Ranks DEF Precedes
    <3> QED BY <3>1, <3>2
  <2>2. Checkpoint(c, r).of = c /\ Checkpoint(c, r).kind = "checkpoint"
    BY DEF Checkpoint
  <2> QED BY <1>3, <2>1, <2>2 DEF Follows
<1>4. ASSUME NEW r \in BOOLEAN PROVE Follows(Checkpoint("final", r), Ended)
  <2>1. Precedes(Checkpoint("final", r), Ended)
    BY Ranks DEF Precedes
  <2> QED BY <2>1 DEF Follows, Ended
<1> QED BY <1>1, <1>2, <1>3, <1>4

LEMMA SendFollows ==
  ASSUME Control, Control', NEW t \in Thread, Sending(t), ~Does(t, "ask"), Then(t, << >>), UNCHANGED Settled
  PROVE  /\ pending # 0 => Rank(Outgoing(t)) < AskRank(stage) + 1
         /\ InPlace(todo[t])'
         /\ \/ /\ AtSend(todo[t])' /\ Head(todo'[t]).frame \in Frame
               /\ Follows(Outgoing(t), Head(todo'[t]).frame)
            \/ /\ Entering(todo[t])' /\ Head(todo'[t]).stage \in Middle
               /\ Rank(Outgoing(t)) < Floor(Head(todo'[t]).stage)
            \/ Asking(todo[t])' /\ stage \in Middle /\ Rank(Outgoing(t)) < AskRank(stage)
            \/ Closing(todo[t])'
<1>0. /\ history \in Nat /\ Domains /\ Programs /\ UNCHANGED <<plan, history, stage, asked, pending>>
      /\ Domains' /\ Heads' /\ Outlets'
  BY AloneNext, OutletsNext DEF Control, Domains, Settled
<1>1. /\ todo'[t] = Tail(todo[t])
      /\ Fetching(todo[t]) => Fetching(todo[t])' \/ Entering(todo[t])'
      /\ Replying(todo[t]) => Entering(todo[t])'
      /\ Naming(todo[t]) => Naming(todo[t])' \/ Pinning(todo[t])'
      /\ Pinning(todo[t]) => Asking(todo[t])'
      /\ Storing(todo[t]) => Storing(todo[t])' \/ Sealing(todo[t])'
      /\ Sealing(todo[t]) => Leaving(todo[t])'
      /\ Leaving(todo[t]) => Closing(todo[t])'
  BY <1>0, SendMoves
<1>2. AtSend(todo[t])
  BY Goes
<1>3. /\ "history" \in Series /\ "pending" \in Series /\ "final" \in Series /\ Blobs \in Nat \ {0}
      /\ Count("history") = history /\ Count("pending") = Blobs /\ Count("final") = Blobs
      /\ \A i : Item("history", i) = GetBlob(i)
      /\ \A i : Item("pending", i) = Blob("pending", i)
      /\ \A i : Item("final", i) = Blob("final", i)
  BY BlobsAssumption DEF Series, Count, Item
<1>4. /\ \A s \in Stage : Into(s) \in Program /\ Pinned(s) \in Program /\ Question(s) \in Program
      /\ Farewell \in Program /\ Do("close") \in Program
      /\ "hook:prompt" \in Stage /\ "hook:stop" \in Stage /\ "tool" \in Stage
  BY <1>0, Composed, Simple DEF Stage
<1>5. /\ Answer \in Frame /\ Ended \in Frame
      /\ \A c \in {"pending", "final"}, r \in BOOLEAN : Checkpoint(c, r) \in Frame
      /\ \A r \in BOOLEAN : Send(Checkpoint("final", r)) \o Farewell \in Program
  BY <1>0, <1>4, Composed, Frames, Chained
<1>6. \A s \in Stage : Head(Into(s)).stage = s /\ Head(Into(s)).do = "enter"
  BY <1>0, Starting DEF Starts
<1>7. ASSUME NEW f \in Frame, NEW q \in Program PROVE Head(Send(f) \o q).frame = f
  <2>1. Head(Send(f) \o q) = [do |-> "send", frame |-> f]
    BY <1>0, Starting DEF Starts
  <2>2. \A h : h = [do |-> "send", frame |-> f] => h.frame = f
    OBVIOUS
  <2> QED BY <2>1, <2>2, Zenon
<1>8. CASE Fetching(todo[t])
  <2>1. PICK k \in 0 .. history : k < history /\ todo[t] = Left("history", k) \o Into("hook:prompt")
    BY <1>8 DEF Fetching
  <2>2. k \in Nat /\ k < Count("history") /\ Into("hook:prompt") \in Program /\ pending = 0
    <3>1. pending = 0
      BY <1>8 DEF Fetching
    <3> QED BY <1>0, <1>3, <1>4, <2>1, <3>1
  <2>3. /\ Outgoing(t) = GetBlob(k + 1)
        /\ k + 1 < history => Head(todo'[t]) = [do |-> "send", frame |-> GetBlob(k + 2)]
        /\ k + 1 = history => todo'[t] = Into("hook:prompt")
    <3>1. todo'[t] = Tail(todo[t]) /\ "history" \in Series /\ todo[t] = Left("history", k) \o Into("hook:prompt")
      BY <1>1, <1>3, <2>1
    <3>2. /\ Outgoing(t) = Item("history", k + 1)
          /\ k + 1 < Count("history") => Head(todo'[t]) = [do |-> "send", frame |-> Item("history", k + 2)]
          /\ k + 1 = Count("history") => todo'[t] = Into("hook:prompt")
      BY <1>0, <2>2, <3>1, SeriesFollows
    <3> QED BY <1>3, <3>2
  <2>4. CASE k + 1 < history
    <3>1. Head(todo'[t]).do = "send" /\ Head(todo'[t]).frame = GetBlob(k + 2)
      BY <2>3, <2>4
    <3>2. Fetching(todo[t])'
      BY <1>0, <1>1, <1>8, <3>1 DEF Heads
    <3> QED BY <1>0, <2>2, <2>3, <3>1, <3>2, NextInSeries DEF AtSend, InPlace, Outlets
  <2>5. CASE k + 1 = history
    <3>1. Head(todo'[t]).do = "enter" /\ Head(todo'[t]).stage = "hook:prompt"
      BY <1>4, <1>6, <2>3, <2>5
    <3>2. Entering(todo[t])'
      BY <1>0, <1>1, <1>8, <3>1 DEF Heads, AtSend
    <3>3. Rank(Outgoing(t)) < Floor("hook:prompt")
      BY <2>3, Ranks, Floors
    <3> QED BY <2>2, <3>1, <3>2, <3>3 DEF InPlace, Middle
  <2> QED BY <1>0, <1>3, <2>2, <2>4, <2>5
<1>9. CASE Replying(todo[t])
  <2>1. todo[t] = Send(Answer) \o Into("hook:stop") /\ pending = 0
    BY <1>9 DEF Replying
  <2>2. Outgoing(t) = Answer /\ todo'[t] = Into("hook:stop")
    BY <1>0, <1>1, <1>4, <1>5, <2>1, FrameStep
  <2>3. Head(todo'[t]).stage = "hook:stop" /\ Rank(Outgoing(t)) < Floor("hook:stop")
    BY <1>4, <1>6, <2>2, Ranks, Floors
  <2> QED BY <1>1, <1>9, <2>1, <2>3 DEF InPlace, Middle
<1>10. CASE Naming(todo[t])
  <2>1. PICK k \in 0 .. Blobs : k < Blobs /\ todo[t] = Left("pending", k) \o Pinned("tool")
    BY <1>10 DEF Naming
  <2>2. k \in Nat /\ k < Count("pending") /\ Pinned("tool") \in Program /\ stage = "tool"
    BY <1>3, <1>4, <1>10, <2>1 DEF Naming
  <2>3. /\ Outgoing(t) = Blob("pending", k + 1)
        /\ k + 1 < Blobs => Head(todo'[t]) = [do |-> "send", frame |-> Blob("pending", k + 2)]
        /\ k + 1 = Blobs => todo'[t] = Pinned("tool")
    <3>1. todo'[t] = Tail(todo[t]) /\ "pending" \in Series /\ todo[t] = Left("pending", k) \o Pinned("tool")
      BY <1>1, <1>3, <2>1
    <3>2. /\ Outgoing(t) = Item("pending", k + 1)
          /\ k + 1 < Count("pending") => Head(todo'[t]) = [do |-> "send", frame |-> Item("pending", k + 2)]
          /\ k + 1 = Count("pending") => todo'[t] = Pinned("tool")
      BY <1>0, <2>2, <3>1, SeriesFollows
    <3> QED BY <1>3, <3>2
  <2>4. Rank(Outgoing(t)) < AskRank(stage) + 1
    BY <2>2, <2>3, Ranks, Floors
  <2>5. AtSend(todo[t])' /\ InPlace(todo[t])' /\ Head(todo'[t]).frame \in Frame
    BY <1>0, <1>1, <1>10 DEF AtSend, InPlace, Unsent, Outlets
  <2>6. CASE k + 1 < Blobs
    <3>1. Head(todo'[t]).frame = Blob("pending", k + 2)
      BY <2>3, <2>6
    <3> QED BY <2>2, <2>3, <2>4, <2>5, <3>1, NextInSeries
  <2>7. CASE k + 1 = Blobs
    <3>1. Head(Send(Checkpoint("pending", FALSE)) \o Question("tool")).frame = Checkpoint("pending", FALSE)
      <4>1. Checkpoint("pending", FALSE) \in Frame /\ Question("tool") \in Program
        BY <1>4, <1>5
      <4> QED BY <1>7, <4>1
    <3>2. Head(todo'[t]).frame = Checkpoint("pending", FALSE)
      BY <2>3, <2>7, <3>1 DEF Pinned
    <3> QED BY <2>2, <2>3, <2>4, <2>5, <2>7, <3>2, NextInSeries
  <2> QED BY <1>3, <2>2, <2>6, <2>7
<1>11. CASE Pinning(todo[t])
  <2>1. stage = "tool" /\ todo[t] = Send(Checkpoint("pending", FALSE)) \o Question("tool")
    BY <1>11 DEF Pinning, Pinned
  <2>2. Outgoing(t) = Checkpoint("pending", FALSE)
    BY <1>0, <1>1, <1>4, <1>5, <2>1, FrameStep
  <2>3. AskRank(stage) = 5 /\ Rank(Outgoing(t)) = 4
    BY <2>1, <2>2, Ranks, Floors
  <2>4. Rank(Outgoing(t)) < AskRank(stage) /\ Rank(Outgoing(t)) < AskRank(stage) + 1
    BY <2>3
  <2>5. Asking(todo[t])' /\ InPlace(todo[t])' /\ stage \in Middle
    BY <1>1, <1>11, <2>1 DEF InPlace, Unsent, Middle
  <2> QED BY <2>4, <2>5
<1>12. CASE Storing(todo[t])
  <2>1. PICK r \in BOOLEAN, k \in 0 .. Blobs :
          k < Blobs /\ todo[t] = Left("final", k) \o (Send(Checkpoint("final", r)) \o Farewell)
    BY <1>12 DEF Storing
  <2> DEFINE q == Send(Checkpoint("final", r)) \o Farewell
  <2>2. k \in Nat /\ k < Count("final") /\ q \in Program /\ pending = 0
    BY <1>3, <1>5, <1>12, <2>1 DEF Storing
  <2>3. /\ Outgoing(t) = Blob("final", k + 1)
        /\ k + 1 < Blobs => Head(todo'[t]) = [do |-> "send", frame |-> Blob("final", k + 2)]
        /\ k + 1 = Blobs => todo'[t] = q
    <3>1. todo'[t] = Tail(todo[t]) /\ "final" \in Series /\ todo[t] = Left("final", k) \o q
      BY <1>1, <1>3, <2>1
    <3> HIDE DEF q
    <3>2. /\ Outgoing(t) = Item("final", k + 1)
          /\ k + 1 < Count("final") => Head(todo'[t]) = [do |-> "send", frame |-> Item("final", k + 2)]
          /\ k + 1 = Count("final") => todo'[t] = q
      BY <1>0, <2>2, <3>1, SeriesFollows
    <3> QED BY <1>3, <3>2
  <2>4. AtSend(todo[t])' /\ InPlace(todo[t])' /\ Head(todo'[t]).frame \in Frame
    BY <1>0, <1>1, <1>12 DEF AtSend, InPlace, Outlets
  <2>5. CASE k + 1 < Blobs
    <3>1. Head(todo'[t]).frame = Blob("final", k + 2)
      BY <2>3, <2>5
    <3> QED BY <2>2, <2>3, <2>4, <3>1, NextInSeries
  <2>6. CASE k + 1 = Blobs
    <3>1. Head(todo'[t]).frame = Checkpoint("final", r)
      <4>1. Checkpoint("final", r) \in Frame
        BY <1>5
      <4>2. Head(Send(Checkpoint("final", r)) \o Farewell).frame = Checkpoint("final", r)
        BY <1>4, <1>7, <4>1
      <4> QED BY <2>3, <2>6, <4>2
    <3> QED BY <2>2, <2>3, <2>4, <2>6, <3>1, NextInSeries
  <2> QED BY <1>3, <2>2, <2>5, <2>6
<1>13. CASE Sealing(todo[t])
  <2>1. PICK r \in BOOLEAN : todo[t] = Send(Checkpoint("final", r)) \o Farewell
    BY <1>13 DEF Sealing
  <2>2. Outgoing(t) = Checkpoint("final", r) /\ todo'[t] = Farewell /\ pending = 0
    BY <1>0, <1>1, <1>4, <1>5, <1>13, <2>1, FrameStep DEF Sealing
  <2>3. Head(todo'[t]).frame = Ended
    <3>1. Head(Send(Ended) \o Do("close")).frame = Ended
      BY <1>4, <1>5, <1>7
    <3> QED BY <2>2, <3>1 DEF Farewell
  <2>4. Follows(Outgoing(t), Head(todo'[t]).frame)
    BY <2>2, <2>3, NextInSeries
  <2> QED BY <1>1, <1>5, <1>13, <2>2, <2>3, <2>4 DEF AtSend, InPlace
<1>14. CASE Leaving(todo[t])
  <2>1. pending = 0
    BY <1>14 DEF Leaving
  <2> QED BY <1>1, <1>14, <2>1 DEF InPlace
<1> QED BY <1>2, <1>8, <1>9, <1>10, <1>11, <1>12, <1>13, <1>14 DEF AtSend

(* Where one thread drives, only its place counts.                         *)
Elsewhere == \A u \in Thread : ~InPlace(todo[u]) => Sent(todo[u])

LEMMA ElsewhereNow == Elsewhere
  BY DEF Elsewhere, Sent, AtSend, InPlace, Unsent

LEMMA ElsewhereNext == Elsewhere'
  BY ElsewhereNow, PTL

LEMMA StreamingNobody ==
  ASSUME Sorted', Named', pending' # 0 => Under(AskRank(stage) + 1)', ~begun' => Stream' = << >>,
         \A u \in Thread : ~InPlace(todo[u])'
  PROVE  Streaming'
  BY ElsewhereNext DEF Elsewhere, Streaming

LEMMA StreamingOf ==
  ASSUME Control', Sorted', Named', pending' # 0 => Under(AskRank(stage) + 1)', begun',
         NEW t \in Thread, InPlace(todo[t])', Sent(todo[t])'
  PROVE  Streaming'
<1>1. \A u \in Thread : Sent(todo[u])'
  BY AloneNext, ElsewhereNext DEF Alone, Elsewhere
<1> QED BY <1>1 DEF Streaming

LEMMA SentAt ==
  ASSUME Heads', NEW t \in Thread
  PROVE  /\ \A g : AtSend(todo[t])' /\ g = Head(todo'[t]).frame /\ Before(g)' /\ Complete(g)' => Sent(todo[t])'
         /\ \A r : Entering(todo[t])' /\ r = Floor(Head(todo'[t]).stage) /\ Under(r)' => Sent(todo[t])'
         /\ Answering(todo[t])' /\ Under(7)' => Sent(todo[t])'
         /\ \A r : Awaiting(todo[t])' /\ r = Floor(stage') /\ Under(r)' => Sent(todo[t])'
         /\ \A r : Asking(todo[t])' /\ r = AskRank(stage') /\ Under(r)' => Sent(todo[t])'
         /\ \A r : (Advancing(todo[t])' \/ Deciding(todo[t])') /\ r = AskRank(stage') + 1 /\ Under(r)'
                   => Sent(todo[t])'
         /\ Saving(todo[t])' /\ Under(9)' => Sent(todo[t])'
<1>0. /\ AtSend(todo[t])' => Head(todo'[t]).do = "send"
      /\ Entering(todo[t])' => Head(todo'[t]).do = "enter"
      /\ Awaiting(todo[t])' => Head(todo'[t]).do = "await"
      /\ Asking(todo[t])' => Head(todo'[t]).do = "ask"
      /\ Advancing(todo[t])' => Head(todo'[t]).do = "advance"
      /\ Deciding(todo[t])' => Head(todo'[t]).do = "decide"
      /\ Answering(todo[t])' => Head(todo'[t]).do = "answer"
      /\ Saving(todo[t])' => Head(todo'[t]).do = "save"
  BY DEF Heads
<1>1. ASSUME NEW g, AtSend(todo[t])', g = Head(todo'[t]).frame, Before(g)', Complete(g)' PROVE Sent(todo[t])'
  <2>1. Before(Head(todo[t]).frame)' /\ Complete(Head(todo[t]).frame)'
    BY <1>1 DEF Before, Complete, Stored
  <2> QED BY <1>0, <1>1, <2>1 DEF Sent
<1>2. ASSUME NEW r, Entering(todo[t])', r = Floor(Head(todo'[t]).stage), Under(r)' PROVE Sent(todo[t])'
  <2>1. Under(Floor(Head(todo[t]).stage))'
    BY <1>2 DEF Under
  <2> QED BY <1>0, <1>2, <2>1 DEF Sent
<1>3. Answering(todo[t])' /\ Under(7)' => Sent(todo[t])'
  BY <1>0 DEF Sent
<1>4. ASSUME NEW r, Awaiting(todo[t])', r = Floor(stage'), Under(r)' PROVE Sent(todo[t])'
  <2>1. Under(Floor(stage))'
    BY <1>4 DEF Under
  <2> QED BY <1>0, <1>4, <2>1 DEF Sent
<1>5. ASSUME NEW r, Asking(todo[t])', r = AskRank(stage'), Under(r)' PROVE Sent(todo[t])'
  <2>1. Under(AskRank(stage))'
    BY <1>5 DEF Under
  <2> QED BY <1>0, <1>5, <2>1 DEF Sent
<1>6. ASSUME NEW r, Advancing(todo[t])' \/ Deciding(todo[t])', r = AskRank(stage') + 1, Under(r)' PROVE Sent(todo[t])'
  <2>1. Under(AskRank(stage) + 1)'
    BY <1>6 DEF Under
  <2> QED BY <1>0, <1>6, <2>1 DEF Sent
<1>7. Saving(todo[t])' /\ Under(9)' => Sent(todo[t])'
  BY <1>0 DEF Sent
<1> QED BY <1>1, <1>2, <1>3, <1>4, <1>5, <1>6, <1>7

LEMMA UnderMore ==
  ASSUME Domains
  PROVE  /\ \A r, s \in Nat : Under(r) /\ r <= s => Under(s)
         /\ \A r \in Nat, g \in Frame : Under(r) /\ Rank(g) = r => Before(g)
<1>1. \A i \in 1 .. Len(Stream) : Stream[i] \in Frame /\ Rank(Stream[i]) \in Nat
  <2>1. \A i \in 1 .. Len(Stream) : Stream[i] \in Frame
    BY Streamed, ElementOfSeq
  <2> QED BY <2>1, Ranks
<1>2. \A r, s \in Nat : Under(r) /\ r <= s => Under(s)
  BY <1>1 DEF Under
<1>3. \A r \in Nat, g \in Frame : Under(r) /\ Rank(g) = r => Before(g)
  BY <1>1 DEF Under, Before, Precedes
<1> QED BY <1>2, <1>3

(* The driver moves on, without a frame.                                   *)
LEMMA QuietStreaming ==
  ASSUME Control, Control', Streaming, UNCHANGED <<frames, got, lost>>, pending' = 0, begun',
         NEW t \in Thread, InPlace(todo[t])', Sent(todo[t])'
  PROVE  Streaming'
<1>1. Kept /\ Domains
  BY DEF Kept, Stream, Control
<1>2. Sorted' /\ Named'
  BY <1>1, StreamKept DEF Streaming
<1> QED BY <1>2, StreamingOf

LEMMA AsideStreaming ==
  ASSUME Control, Streaming, Aside, Kept, begun' = begun
  PROVE  Streaming'
<1>0. Domains
  BY DEF Control
<1>1. UNCHANGED <<stage, pending>> /\ \A u \in Thread : SamePlace(u) /\ (InPlace(todo[u]) => todo'[u] = todo[u])
  BY DEF Aside, Settled
<1>2. /\ Sorted' /\ Named'
      /\ \A g : Before(g) => Before(g)'
      /\ \A r : Under(r) => Under(r)'
      /\ \A g : Complete(g) => Complete(g)'
      /\ Stream = << >> => Stream' = << >>
  BY <1>0, StreamKept DEF Streaming
<1>3. (pending # 0 => Under(AskRank(stage) + 1))'
  <2>1. pending # 0 => Under(AskRank(stage) + 1)'
    BY <1>1, <1>2 DEF Streaming, Under
  <2> QED BY <1>1, <2>1
<1>4. ASSUME NEW u \in Thread PROVE Sent(todo[u])'
  <2>1. CASE InPlace(todo[u])
    <3>1. todo'[u] = todo[u] /\ SamePlace(u) /\ Sent(todo[u])
      BY <1>1, <2>1 DEF Streaming
    <3> DEFINE g == Head(todo[u]).frame
               s == Head(todo[u]).stage
    <3>2. AtSend(todo[u])' => Before(g)' /\ Complete(g)'
      BY <1>2, <3>1 DEF Sent, AtSend, SamePlace
    <3>3. Entering(todo[u])' => Under(Floor(s))'
      BY <1>2, <3>1 DEF Sent, SamePlace
    <3>4. /\ Answering(todo[u])' => Under(7)'
          /\ Awaiting(todo[u])' => Under(Floor(stage))'
          /\ Asking(todo[u])' => Under(AskRank(stage))'
          /\ Advancing(todo[u])' \/ Deciding(todo[u])' => Under(AskRank(stage) + 1)'
          /\ Saving(todo[u])' => Under(9)'
      <4>1. /\ Answering(todo[u])' => Under(7)
            /\ Awaiting(todo[u])' => Under(Floor(stage))
            /\ Asking(todo[u])' => Under(AskRank(stage))
            /\ Advancing(todo[u])' \/ Deciding(todo[u])' => Under(AskRank(stage) + 1)
            /\ Saving(todo[u])' => Under(9)
        BY <3>1 DEF Sent, SamePlace
      <4> QED BY <1>1, <1>2, <4>1 DEF Under
    <3> QED BY <3>1, <3>2, <3>3, <3>4 DEF Sent
  <2>2. CASE ~InPlace(todo[u])
    <3>1. ~InPlace(todo[u])'
      BY <1>1, <2>2 DEF SamePlace, InPlace, Unsent
    <3> QED BY <3>1, ElsewhereNext DEF Elsewhere
  <2> QED BY <2>1, <2>2
<1> QED BY <1>1, <1>2, <1>3, <1>4 DEF Streaming

LEMMA SendingStreaming ==
  ASSUME Control, Control', Streaming, NEW t \in Thread, Sending(t), Then(t, << >>), UNCHANGED Settled,
         begun' = begun, Went(Outgoing(t))
  PROVE  Streaming'
<1>0. Domains /\ Programs /\ Domains' /\ Heads' /\ UNCHANGED <<stage, pending>>
  BY AloneNext DEF Control, Settled
<1> DEFINE f == Outgoing(t)
<1>1. /\ f \in Frame /\ todo[t] # << >> /\ Drives(t)
      /\ Does(t, "ask") => Asking(todo[t]) /\ f = AskFor(execID, stage)
      /\ ~Does(t, "ask") => AtSend(todo[t]) /\ f = Head(todo[t]).frame
  BY Goes
<1>2. begun' /\ begun /\ Sent(todo[t])
  BY <1>1, Active DEF Streaming
<1>3. Before(f) /\ Complete(f)
  <2>1. CASE Does(t, "ask")
    <3>1. stage \in Middle /\ Under(AskRank(stage)) /\ f = AskFor(execID, stage)
      BY <1>1, <1>2, <2>1 DEF Sent, Asking
    <3>2. Rank(f) = AskRank(stage) /\ AskRank(stage) \in Nat
      BY <3>1, Ranks, Floors
    <3>3. Before(f)
      BY <1>0, <1>1, <3>1, <3>2, UnderMore
    <3>4. f.kind = "exec"
      BY <3>1 DEF AskFor
    <3> QED BY <3>3, <3>4 DEF Complete
  <2>2. CASE ~Does(t, "ask")
    BY <1>1, <1>2, <2>2 DEF Sent
  <2> QED BY <2>1, <2>2
<1>4. /\ Sorted' /\ Named'
      /\ \A g \in Frame : Precedes(f, g) => Before(g)'
      /\ \A r \in Nat : Rank(f) < r => Under(r)'
      /\ \A g \in Frame : Follows(f, g) => Complete(g)'
  BY <1>0, <1>1, <1>3, SentOn DEF Streaming
<1> HIDE DEF f
<1>5. CASE Does(t, "ask")
  <2>1. stage \in Middle /\ f = AskFor(execID, stage) /\ todo'[t] = << >>
        /\ \A u \in Thread : u # t => todo'[u] = todo[u] /\ ~Drives(u)
    BY <1>0, <1>1, <1>5, SendMoves, Active DEF Asking
  <2>2. \A u \in Thread : ~InPlace(todo[u])'
    <3>1. \A u \in Thread : ~Drives(u)'
      BY <2>1 DEF Drives
    <3> QED BY <3>1, DrivenNext DEF Driven, Control
  <2>3. Under(AskRank(stage) + 1)'
    <3>1. Rank(f) = AskRank(stage) /\ AskRank(stage) \in Nat
      BY <2>1, Ranks, Floors
    <3>2. AskRank(stage) + 1 \in Nat /\ Rank(f) < AskRank(stage) + 1
      BY <3>1
    <3>3. \A r : r = AskRank(stage) + 1 => Under(r)'
      BY <1>4, <3>2
    <3> QED BY <1>0, <3>3 DEF Under
  <2> QED BY <1>2, <1>4, <2>2, <2>3, StreamingNobody
<1>6. CASE ~Does(t, "ask")
  <2>1. /\ pending # 0 => Rank(f) < AskRank(stage) + 1
        /\ InPlace(todo[t])'
        /\ \/ /\ AtSend(todo[t])' /\ Head(todo'[t]).frame \in Frame
              /\ Follows(f, Head(todo'[t]).frame)
           \/ /\ Entering(todo[t])' /\ Head(todo'[t]).stage \in Middle
              /\ Rank(f) < Floor(Head(todo'[t]).stage)
           \/ Asking(todo[t])' /\ stage \in Middle /\ Rank(f) < AskRank(stage)
           \/ Closing(todo[t])'
    BY <1>6, SendFollows DEF f
  <2>2. Sent(todo[t])'
    <3>1. ASSUME AtSend(todo[t])', Head(todo'[t]).frame \in Frame, Follows(f, Head(todo'[t]).frame)
          PROVE  Sent(todo[t])'
      <4>1. PICK g \in Frame : g = Head(todo'[t]).frame
        BY <3>1
      <4>2. Follows(f, g) /\ Precedes(f, g)
        BY <3>1, <4>1 DEF Follows
      <4> QED BY <1>0, <1>4, <3>1, <4>1, <4>2, SentAt
    <3>2. ASSUME Entering(todo[t])', Head(todo'[t]).stage \in Middle, Rank(f) < Floor(Head(todo'[t]).stage)
          PROVE  Sent(todo[t])'
      <4>1. PICK r \in Nat : r = Floor(Head(todo'[t]).stage)
        BY <3>2, Floors
      <4> QED BY <1>0, <1>4, <3>2, <4>1, SentAt
    <3>3. ASSUME Asking(todo[t])', stage \in Middle, Rank(f) < AskRank(stage) PROVE Sent(todo[t])'
      <4>1. PICK r \in Nat : r = AskRank(stage)
        BY <3>3, Floors
      <4> QED BY <1>0, <1>4, <3>3, <4>1, SentAt
    <3>4. ASSUME Closing(todo[t])' PROVE Sent(todo[t])'
      <4>1. Head(todo'[t]).do = "close"
        BY <1>0, <3>4 DEF Heads
      <4> QED BY <1>0, <4>1 DEF Heads, Sent
    <3> QED BY <2>1, <3>1, <3>2, <3>3, <3>4
  <2>3. pending # 0 => Under(AskRank(stage) + 1)'
    <3> SUFFICES ASSUME pending # 0 PROVE Under(AskRank(stage) + 1)'
      OBVIOUS
    <3>1. Unsent(todo[t])
      BY <1>1, Active
    <3>2. stage \in Middle
      BY <3>1 DEF Unsent, Naming, Pinning, Asking, Middle
    <3>3. AskRank(stage) + 1 \in Nat
      BY <3>2, Floors
    <3>4. \A r : r = AskRank(stage) + 1 => Under(r)'
      BY <1>4, <2>1, <3>3
    <3> QED BY <1>0, <3>4 DEF Under
  <2>4. pending' # 0 => Under(AskRank(stage) + 1)'
    BY <1>0, <2>3
  <2> QED BY <1>2, <1>4, <2>1, <2>2, <2>4, StreamingOf
<1> QED BY <1>5, <1>6

LEMMA Ahead ==
  ASSUME NEW a \in Middle, NEW b, <<a, b>> \in Turn!Order
  PROVE  b \in Middle \cup {"done"}
<1>1. \/ (a = "" /\ b = "hook:prompt") \/ (a = "hook:prompt" /\ b = "context")
      \/ (a = "context" /\ b = "tool") \/ (a = "context" /\ b = "hook:compact")
      \/ (a = "tool" /\ b = "hook:compact") \/ (a = "hook:compact" /\ b = "hook:stop")
      \/ (a = "hook:stop" /\ b = "done")
  BY DEF Turn!Order
<1> QED BY <1>1 DEF Middle

LEMMA NextStreaming ==
  ASSUME Control, Control', Streaming, [Next]_vars
  PROVE  Streaming'
<1>0. /\ Domains /\ Programs /\ Counted /\ Led /\ Domains' /\ Heads' /\ Outlets' /\ history \in Nat
  BY AloneNext, OutletsNext DEF Control, Domains
<1>1. ASSUME UNCHANGED <<frames, got, lost>> PROVE Kept /\ \A r : Under(r) => Under(r)'
  <2>1. Kept
    BY <1>1 DEF Kept, Stream
  <2> QED BY <1>0, <2>1, StreamKept
<1>2. ASSUME NEW t \in Thread, EnterStage(t) PROVE Streaming'
  <2>1. PICK s \in Stage : /\ Entering(todo[t]) /\ todo[t] = Into(s) /\ <<stage, s>> \in Turn!Order
                           /\ stage' = s /\ pending = 0
    BY <1>0, <1>2, EnterMoves
  <2>2. \/ stage' = "done" /\ Saving(todo[t])'
        \/ stage' \in Middle /\ (Awaiting(todo[t])' \/ Advancing(todo[t])')
    BY <1>2, EnterControl
  <2>3. UNCHANGED <<frames, got, lost, begun, pending>> /\ InPlace(todo[t])' /\ InPlace(todo[t])
    BY <1>2, <2>1, <2>2 DEF EnterStage, streamVars, clientVars, historyVars, InPlace
  <2>4. Under(Floor(s))
    <3>1. Head(todo[t]).stage = s
      BY <1>0, <2>1, Starting DEF Starts
    <3> QED BY <2>1, <3>1 DEF Streaming, Sent
  <2>5. Sent(todo[t])'
    <3>1. CASE stage' = "done" /\ Saving(todo[t])'
      <4>1. Under(9)'
        BY <1>1, <2>1, <2>3, <2>4, <3>1, Floors
      <4> QED BY <1>0, <3>1, <4>1, SentAt
    <3>2. CASE stage' \in Middle /\ Awaiting(todo[t])'
      <4>1. Under(Floor(s))'
        BY <1>1, <2>3, <2>4
      <4> QED BY <1>0, <2>1, <3>2, <4>1, SentAt
    <3>3. CASE stage' \in Middle /\ Advancing(todo[t])'
      <4>1. Floor(s) \in Nat /\ AskRank(s) + 1 \in Nat /\ Floor(s) <= AskRank(s) + 1
        <5>1. Floor(s) \in Nat /\ AskRank(s) \in Nat /\ Floor(s) <= AskRank(s)
          BY <2>1, <3>3, Floors
        <5> QED BY <5>1
      <4>2. Under(AskRank(s) + 1)
        BY <1>0, <2>4, <4>1, UnderMore
      <4>3. Under(AskRank(s) + 1)'
        BY <1>1, <2>3, <4>2
      <4> QED BY <1>0, <2>1, <3>3, <4>3, SentAt
    <3> QED BY <2>2, <3>1, <3>2, <3>3
  <2>6. pending' = 0 /\ begun'
    <3>1. begun
      BY <1>0, <2>1, <2>3, Active DEF Drives, Heads, Whereabouts
    <3> QED BY <2>1, <2>3, <3>1
  <2> QED BY <2>3, <2>5, <2>6, QuietStreaming
<1>3. ASSUME NEW t \in Thread, Await(t) PROVE Streaming'
  <2>1. /\ Awaiting(todo[t]) /\ stage \in Middle /\ pending = 0 /\ todo[t] = Do("await") \o First(stage)
        /\ IF stage = "tool" THEN Naming(todo[t])' ELSE Asking(todo[t])'
    BY <1>0, <1>3, AwaitMoves DEF Awaiting
  <2>2. UNCHANGED <<frames, got, lost, begun, stage>> /\ InPlace(todo[t])' /\ InPlace(todo[t])
    BY <1>3, <2>1 DEF Await, streamVars, clientVars, InPlace, Unsent
  <2>3. Kept /\ Sorted' /\ Named' /\ \A r : Under(r) => Under(r)'
    BY <1>0, <1>1, <2>2, StreamKept DEF Streaming
  <2>4. Floor(stage) \in Nat /\ AskRank(stage) \in Nat /\ AskRank(stage) + 1 \in Nat
        /\ Floor(stage) <= AskRank(stage) /\ Floor(stage) <= AskRank(stage) + 1
    <3>1. Floor(stage) \in Nat /\ AskRank(stage) \in Nat /\ Floor(stage) <= AskRank(stage)
      BY <2>1, Floors
    <3> QED BY <3>1
  <2>5. Under(Floor(stage))
    BY <2>1 DEF Streaming, Sent
  <2>6. Under(AskRank(stage) + 1)'
    <3>1. Under(AskRank(stage) + 1)
      BY <1>0, <2>4, <2>5, UnderMore
    <3>2. \A r : r = AskRank(stage) + 1 => Under(r)'
      BY <2>3, <3>1
    <3> QED BY <2>2, <3>2 DEF Under
  <2>7. Sent(todo[t])'
    <3>1. CASE stage = "tool"
      <4>1. todo'[t] = Left("pending", 0) \o Pinned("tool")
        BY <1>0, <1>3, <3>1, AwaitMoves DEF First
      <4>2. Head(todo'[t]) = [do |-> "send", frame |-> Item("pending", 0 + 1)]
        <5>1. Pinned("tool") \in Program /\ "pending" \in Series /\ 0 \in Nat /\ 0 < Count("pending")
          <6>1. "tool" \in Stage
            BY DEF Stage
          <6>2. Pinned("tool") \in Program
            BY <1>0, <6>1, Composed
          <6> QED BY <6>2, BlobsAssumption DEF Series, Count
        <5>2. Starts(Left("pending", 0) \o Pinned("tool"), [do |-> "send", frame |-> Item("pending", 0 + 1)],
                     Left("pending", 0 + 1) \o Pinned("tool"))
          BY <1>0, <5>1, Starting
        <5> QED BY <4>1, <5>2 DEF Starts
      <4> DEFINE g == Blob("pending", 1)
      <4>3. Head(todo'[t]).frame = g
        BY <4>2 DEF Item
      <4>4. g \in Frame /\ Rank(g) = 3 /\ Floor(stage) = 3
        BY <3>1, Frames, Ranks, Floors
      <4>5. Before(g)
        BY <1>0, <2>4, <2>5, <4>4, UnderMore
      <4>6. Before(g)'
        BY <1>0, <2>3, <4>5, StreamKept
      <4>7. Complete(g)'
        <5>1. g.kind = "blob" /\ g.of = "pending" /\ g.no - 1 = 0
          BY DEF Blob
        <5>2. Stored("pending", 0)'
          BY DEF Stored
        <5> QED BY <5>1, <5>2 DEF Complete
      <4>8. AtSend(todo[t])'
        BY <2>1, <3>1 DEF AtSend
      <4> HIDE DEF g
      <4> QED BY <1>0, <4>3, <4>6, <4>7, <4>8, SentAt
    <3>2. CASE stage # "tool"
      <4>1. PICK r \in Nat : r = AskRank(stage)
        BY <2>4
      <4>2. Under(r)'
        BY <1>0, <2>3, <2>4, <2>5, <4>1, UnderMore
      <4> QED BY <1>0, <2>1, <2>2, <3>2, <4>1, <4>2, SentAt
    <3> QED BY <3>1, <3>2
  <2>8. begun'
    BY <1>0, <2>1, <2>2, Active DEF Heads, Whereabouts
  <2> QED BY <2>2, <2>3, <2>6, <2>7, <2>8, StreamingOf
<1>4. ASSUME NEW t \in Thread, SendFrame(t) \/ GiveUp(t) PROVE Streaming'
  <2>1. Sending(t) /\ Then(t, << >>) /\ UNCHANGED Settled /\ begun' = begun
    BY <1>4 DEF SendFrame, GiveUp, sessionVars, choiceVars, clientVars, Settled
  <2>2. Went(Outgoing(t))
    <3>1. Outgoing(t) \in Frame
      BY <2>1, Goes
    <3>2. CASE frames' = frames /\ got' = got /\ lost'
      BY <3>2 DEF Went, Stream
    <3>3. CASE frames' = Append(frames, Outgoing(t)) /\ got' = got /\ (lost => lost')
      BY <1>0, <3>1, <3>3, Queued DEF Went
    <3>4. SendFrame(t) => got' = got /\ (lost => lost') /\ (frames' = frames => lost')
                          /\ (frames' = frames \/ frames' = Append(frames, Outgoing(t)))
      BY DEF SendFrame, clientVars
    <3>5. GiveUp(t) => frames' = frames /\ got' = got /\ lost'
      BY DEF GiveUp, streamVars, clientVars
    <3> QED BY <1>4, <3>2, <3>3, <3>4, <3>5
  <2> QED BY <2>1, <2>2, SendingStreaming
<1>5. ASSUME NEW t \in Thread, AdvanceTurn(t) PROVE Streaming'
  <2>1. /\ Advancing(todo[t]) /\ stage \in Middle
        /\ \/ stage = "context" /\ Deciding(todo[t])'
           \/ stage = "hook:compact" /\ Answering(todo[t])'
           \/ stage \in {"hook:prompt", "tool", "hook:stop"} /\ Entering(todo[t])'
    BY <1>0, <1>5, AdvanceMoves
  <2>2. UNCHANGED <<frames, got, lost, begun, stage, pending>> /\ InPlace(todo[t])' /\ InPlace(todo[t]) /\ pending = 0
    BY <1>5, <2>1 DEF AdvanceTurn, sessionVars, streamVars, clientVars, historyVars, InPlace, Advancing
  <2>3. Under(AskRank(stage) + 1) /\ AskRank(stage) + 1 \in Nat
    <3>1. AskRank(stage) \in Nat
      BY <2>1, Floors
    <3> QED BY <2>1, <3>1 DEF Streaming, Sent
  <2>4. Under(AskRank(stage) + 1)'
    <3>1. \A r : r = AskRank(stage) + 1 => Under(r)'
      BY <1>1, <2>2, <2>3
    <3> QED BY <2>2, <3>1 DEF Under
  <2>5. Sent(todo[t])'
    <3>1. CASE Deciding(todo[t])'
      <4>1. PICK r \in Nat : r = AskRank(stage) + 1
        BY <2>3
      <4>2. Under(r)' /\ r = AskRank(stage') + 1
        BY <1>1, <2>2, <2>3, <4>1
      <4> QED BY <1>0, <3>1, <4>2, SentAt
    <3>2. CASE stage = "hook:compact" /\ Answering(todo[t])'
      <4>1. AskRank(stage) = 6
        <5>1. AskRank(stage) = Floor(stage) /\ Floor(stage) = 6
          BY <3>2, Floors
        <5> QED BY <5>1
      <4>2. \A r : r = 7 => Under(r)'
        BY <1>1, <2>2, <2>3, <4>1
      <4> QED BY <1>0, <3>2, <4>2, SentAt
    <3>3. CASE Entering(todo[t])'
      <4>1. PICK s \in Stage : <<stage', s>> \in Turn!Order /\ todo'[t] = Into(s)'
        BY <3>3 DEF Entering
      <4>2. Into(s)' = Into(s)
        BY <1>5, Unmoved DEF AdvanceTurn, choiceVars
      <4>3. Head(todo'[t]).stage = s
        BY <1>0, <4>1, <4>2, Starting DEF Starts
      <4>4. AskRank(stage) + 1 <= Floor(s) /\ s \in Middle \cup {"done"}
        BY <2>1, <2>2, <4>1, Floors, Ahead
      <4>5. Floor(s) \in Nat
        BY <4>4, Floors
      <4>6. Under(Floor(s))
        BY <1>0, <2>3, <4>4, <4>5, UnderMore
      <4>7. Under(Floor(s))'
        BY <1>1, <2>2, <4>6
      <4> QED BY <1>0, <3>3, <4>3, <4>7, SentAt
    <3> QED BY <2>1, <3>1, <3>2, <3>3
  <2>6. begun'
    BY <1>0, <2>1, <2>2, Active DEF Heads
  <2> QED BY <2>2, <2>5, <2>6, QuietStreaming
<1>6. ASSUME NEW t \in Thread, Decide(t) PROVE Streaming'
  <2>1. Deciding(todo[t]) /\ stage = "context" /\ Entering(todo[t])'
    BY <1>0, <1>6, DecideMoves
  <2>2. UNCHANGED <<frames, got, lost, begun, stage, pending, plan, history>> /\ InPlace(todo[t])' /\ InPlace(todo[t])
        /\ pending = 0
    BY <1>6, <2>1 DEF Decide, streamVars, clientVars, choiceVars, InPlace, Deciding
  <2>3. stage \in Middle
    BY <2>1 DEF Middle
  <2>4. Under(AskRank(stage) + 1) /\ AskRank(stage) + 1 \in Nat
    <3>1. AskRank(stage) \in Nat
      BY <2>3, Floors
    <3> QED BY <2>1, <3>1 DEF Streaming, Sent
  <2>5. Sent(todo[t])'
    <3>1. PICK s \in Stage : <<stage', s>> \in Turn!Order /\ todo'[t] = Into(s)'
      BY <2>1 DEF Entering
    <3>2. Into(s)' = Into(s)
      BY <2>2, Unmoved
    <3>3. Head(todo'[t]).stage = s
      BY <1>0, <3>1, <3>2, Starting DEF Starts
    <3>4. AskRank(stage) + 1 <= Floor(s) /\ s \in Middle \cup {"done"}
      BY <2>2, <2>3, <3>1, Floors, Ahead
    <3>5. Floor(s) \in Nat
      BY <3>4, Floors
    <3>6. Under(Floor(s))
      BY <1>0, <2>4, <3>4, <3>5, UnderMore
    <3>7. Under(Floor(s))'
      BY <1>1, <2>2, <3>6
    <3> QED BY <1>0, <2>1, <3>3, <3>7, SentAt
  <2>6. begun'
    BY <1>0, <2>1, <2>2, Active DEF Heads
  <2> QED BY <2>2, <2>5, <2>6, QuietStreaming
<1>7. ASSUME NEW t \in Thread, GiveAnswer(t) PROVE Streaming'
  <2>1. Answering(todo[t]) /\ Replying(todo[t])' /\ pending = 0
    BY <1>0, <1>7, AnswerMoves DEF Answering
  <2>2. UNCHANGED <<frames, got, lost, begun, pending, plan, history>> /\ InPlace(todo[t])' /\ InPlace(todo[t])
    BY <1>7, <2>1 DEF GiveAnswer, streamVars, clientVars, choiceVars, historyVars, InPlace
  <2>3. Kept /\ Under(7)
    BY <1>1, <2>1, <2>2 DEF Streaming, Sent
  <2>4. Answer \in Frame /\ Before(Answer) /\ Complete(Answer)
    <3>1. Answer \in Frame /\ Rank(Answer) = 7 /\ 7 \in Nat
      BY Frames, Ranks
    <3>2. Before(Answer)
      BY <1>0, <2>3, <3>1, UnderMore
    <3> QED BY <3>1, <3>2 DEF Complete, Answer
  <2>5. Before(Answer)' /\ Complete(Answer)'
    BY <1>0, <2>3, <2>4, StreamKept
  <2>6. Head(todo'[t]).frame = Answer
    <3>1. todo'[t] = Send(Answer) \o Into("hook:stop")
      <4>1. todo'[t] = Send(Answer) \o Into("hook:stop")'
        BY <2>1 DEF Replying
      <4>2. Into("hook:stop")' = Into("hook:stop")
        BY <2>2, Unmoved
      <4> QED BY <4>1, <4>2
    <3>2. Into("hook:stop") \in Program
      BY <1>0, Composed DEF Stage
    <3>3. Head(Send(Answer) \o Into("hook:stop")) = [do |-> "send", frame |-> Answer]
      BY <1>0, <2>4, <3>2, Starting DEF Starts
    <3>4. \A h : h = [do |-> "send", frame |-> Answer] => h.frame = Answer
      OBVIOUS
    <3> QED BY <3>1, <3>3, <3>4, Zenon
  <2>7. Sent(todo[t])'
    BY <1>0, <2>1, <2>5, <2>6, SentAt DEF AtSend
  <2>8. begun' /\ pending' = 0
    BY <1>0, <2>1, <2>2, Active DEF Heads
  <2> QED BY <2>2, <2>7, <2>8, QuietStreaming
<1>8. ASSUME NEW t \in Thread, SaveTurn(t) PROVE Streaming'
  <2>1. /\ Saving(todo[t]) /\ Storing(todo[t])' /\ pending = 0
        /\ todo'[t] = Left("final", 0) \o (Send(Checkpoint("final", toolOut)) \o Farewell)
    BY <1>0, <1>8, SaveMoves DEF Saving
  <2>2. UNCHANGED <<frames, got, lost, begun, pending>> /\ InPlace(todo[t])' /\ InPlace(todo[t])
    BY <1>8, <2>1 DEF SaveTurn, streamVars, clientVars, historyVars, InPlace
  <2>3. Kept /\ Under(9)
    BY <1>1, <2>1, <2>2 DEF Streaming, Sent
  <2> DEFINE g == Blob("final", 1)
  <2>4. Head(todo'[t]).frame = g
    <3> DEFINE q == Send(Checkpoint("final", toolOut)) \o Farewell
    <3>1. Send(Checkpoint("final", toolOut)) \in Program /\ Farewell \in Program
      BY <1>0, Composed DEF Domains
    <3>2. q \in Program /\ "final" \in Series /\ 0 \in Nat /\ 0 < Count("final")
      BY <3>1, Chained, BlobsAssumption DEF Series, Count
    <3> HIDE DEF q
    <3>3. Starts(Left("final", 0) \o q, [do |-> "send", frame |-> Item("final", 0 + 1)], Left("final", 0 + 1) \o q)
      BY <1>0, <3>2, Starting
    <3>4. Head(Left("final", 0) \o q) = [do |-> "send", frame |-> g]
      BY <3>3 DEF Starts, Item
    <3>5. \A h : h = [do |-> "send", frame |-> g] => h.frame = g
      OBVIOUS
    <3>6. todo'[t] = Left("final", 0) \o q
      BY <2>1 DEF q
    <3> QED BY <3>4, <3>5, <3>6, Zenon
  <2>5. Before(g)
    <3>1. g \in Frame /\ Rank(g) = 9 /\ 9 \in Nat
      BY Frames, Ranks
    <3> QED BY <1>0, <2>3, <3>1, UnderMore
  <2>6. Before(g)'
    BY <1>0, <2>3, <2>5, StreamKept
  <2>7. Complete(g)'
    <3>1. g.kind = "blob" /\ g.of = "final" /\ g.no - 1 = 0
      BY DEF Blob
    <3>2. Stored("final", 0)'
      BY DEF Stored
    <3> QED BY <3>1, <3>2 DEF Complete
  <2> HIDE DEF g
  <2>8. Sent(todo[t])'
    BY <1>0, <2>1, <2>4, <2>6, <2>7, SentAt DEF AtSend
  <2>9. begun' /\ pending' = 0
    BY <1>0, <2>1, <2>2, Active DEF Heads
  <2> QED BY <2>2, <2>8, <2>9, QuietStreaming
<1>9. ASSUME NEW t \in Thread, CloseTurn(t) PROVE Streaming'
  <2>1. Closing(todo[t]) /\ todo'[t] = << >> /\ \A u \in Thread : u # t => todo'[u] = todo[u]
    BY <1>0, <1>9, CloseMoves
  <2>2. UNCHANGED <<frames, got, lost, begun, pending>> /\ pending = 0 /\ todo[t] # << >> /\ Drives(t)
    BY <1>0, <1>9, <2>1, Whereabouts DEF CloseTurn, sessionVars, clientVars, historyVars, Closing, InPlace, Heads
  <2>3. begun' /\ \A u \in Thread : ~InPlace(todo[u])'
    <3>1. begun /\ \A u \in Thread : u # t => ~Drives(u)
      BY <2>2, Active
    <3>2. \A u \in Thread : ~Drives(u)'
      BY <2>1, <3>1 DEF Drives
    <3> QED BY <2>2, <3>1, <3>2, DrivenNext DEF Driven, Control
  <2>4. Sorted' /\ Named'
    BY <1>0, <1>1, <2>2, StreamKept DEF Streaming
  <2> QED BY <2>2, <2>3, <2>4, StreamingNobody
<1>10. ASSUME NEW t \in Thread, pending # 0, pending' = 0, UNCHANGED <<frames, got, lost, begun, stage>>,
              stage \in Middle, Advancing(todo[t])'
       PROVE  Streaming'
  <2>1. AskRank(stage) + 1 \in Nat /\ Under(AskRank(stage) + 1)
    <3>1. AskRank(stage) \in Nat
      BY <1>10, Floors
    <3> QED BY <1>10, <3>1 DEF Streaming
  <2>2. PICK r \in Nat : r = AskRank(stage) + 1
    BY <2>1
  <2>3. Under(r)' /\ r = AskRank(stage') + 1
    BY <1>1, <1>10, <2>1, <2>2
  <2>4. Sent(todo[t])' /\ InPlace(todo[t])'
    BY <1>0, <1>10, <2>3, SentAt DEF InPlace
  <2>5. begun'
    BY <1>0, <1>10 DEF Led, Middle, Counted
  <2> QED BY <1>10, <2>4, <2>5, QuietStreaming
<1>11. ASSUME NEW t \in Thread, Claim(t) PROVE Streaming'
  <2>1. UNCHANGED <<frames, got, lost, begun, stage>>
    BY <1>11 DEF Claim, streamVars, clientVars
  <2>2. Aside \/ (pending # 0 /\ pending' = 0 /\ stage \in Middle /\ Advancing(todo[t])')
    BY <1>11, ClaimControl
  <2> QED BY <1>1, <1>10, <2>1, <2>2, AsideStreaming
<1>12. ASSUME NEW t \in Thread, Store(t) PROVE Streaming'
  <2>1. UNCHANGED <<frames, got, lost, begun>> /\ Aside
    BY <1>12, StoreControl DEF Store, streamVars, clientVars, historyVars
  <2> QED BY <1>1, <2>1, AsideStreaming
<1>13. ASSUME NEW t \in Thread, Step(t) PROVE Streaming'
  BY <1>2, <1>3, <1>4, <1>5, <1>6, <1>7, <1>8, <1>9, <1>11, <1>12, <1>13 DEF Step
<1>14. ASSUME NEW i \in DOMAIN timers, StartTimer(i) PROVE Streaming'
  <2>1. UNCHANGED <<frames, got, lost, begun>> /\ Aside
    BY <1>14, StartControl DEF StartTimer, streamVars, clientVars, historyVars
  <2> QED BY <1>1, <2>1, AsideStreaming
<1>15. ASSUME NEW i \in DOMAIN timers, RunOut(i) PROVE Streaming'
  <2>1. UNCHANGED <<frames, got, lost, begun, stage>>
    BY <1>15 DEF RunOut, streamVars, clientVars, historyVars
  <2>2. Aside \/ (pending # 0 /\ pending' = 0 /\ stage \in Middle /\ Timer(i) \in Thread /\ Advancing(todo[Timer(i)])')
    BY <1>15, RunOutControl
  <2> QED BY <1>1, <1>10, <2>1, <2>2, AsideStreaming
<1>16. Relay => Streaming'
  <2> SUFFICES ASSUME Relay PROVE Streaming'
    OBVIOUS
  <2>1. Aside /\ Kept /\ begun' = begun
    BY RelayControl DEF Kept, Relay
  <2> QED BY <2>1, AsideStreaming
<1>17. StreamStep => Streaming'
  <2> SUFFICES ASSUME StreamStep PROVE Streaming'
    OBVIOUS
  <2>1. Aside /\ Stream' = Stream /\ lost' = lost /\ begun' = begun
    BY StreamSteps DEF historyVars
  <2> QED BY <2>1, AsideStreaming DEF Kept
<1>18. RunRequest => Streaming'
  <2> SUFFICES ASSUME RunRequest PROVE Streaming'
    OBVIOUS
  <2>1. UNCHANGED <<frames, got, lost>> /\ begun' /\ ~begun /\ pending' = pending /\ UNCHANGED <<plan, history>>
    BY DEF RunRequest, sessionVars, streamVars, choiceVars, historyVars
  <2>2. Stream' = << >> /\ Sorted' /\ Named'
    <3>1. Stream = << >> /\ Stream' = Stream
      BY <2>1 DEF Streaming, Stream
    <3> QED BY <1>0, <1>1, <2>1, <3>1, StreamKept DEF Streaming
  <2>3. Len(Stream') = 0
    BY <2>2
  <2>4. (\A g : Before(g)') /\ (\A r : Under(r)')
    BY <2>3 DEF Before, Under
  <2>5. /\ Run \in Thread /\ pending = 0
        /\ todo'[Run] = Left("history", 0) \o Into("hook:prompt")
        /\ Fetching(todo[Run])' \/ (todo'[Run] = Into("hook:prompt") /\ Entering(todo[Run])')
    BY <1>0, RequestMoves DEF Counted
  <2>6. InPlace(todo[Run])'
    BY <2>5 DEF InPlace
  <2>7. Sent(todo[Run])'
    <3>1. CASE Fetching(todo[Run])'
      <4>1. PICK k \in 0 .. history : k < history /\ todo'[Run] = Left("history", k)' \o Into("hook:prompt")'
        BY <2>1, <3>1 DEF Fetching
      <4>2. todo'[Run] = Left("history", k) \o Into("hook:prompt")
        BY <2>1, <4>1, Unmoved
      <4>3. "history" \in Series /\ Into("hook:prompt") \in Program /\ k \in Nat /\ k < Count("history")
        <5>1. "hook:prompt" \in Stage
          BY DEF Stage
        <5>2. Into("hook:prompt") \in Program
          BY <1>0, <5>1, Composed
        <5> QED BY <1>0, <4>1, <5>2 DEF Series, Count
      <4>4. Head(todo'[Run]).frame = GetBlob(k + 1)
        <5>1. Starts(Left("history", k) \o Into("hook:prompt"), [do |-> "send", frame |-> Item("history", k + 1)],
                     Left("history", k + 1) \o Into("hook:prompt"))
          BY <1>0, <4>3, Starting
        <5>2. Head(todo'[Run]) = [do |-> "send", frame |-> GetBlob(k + 1)]
          BY <4>2, <5>1 DEF Starts, Item
        <5> QED BY <5>2
      <4>5. Complete(GetBlob(k + 1))'
        BY DEF Complete, GetBlob
      <4> QED BY <1>0, <2>4, <2>5, <3>1, <4>4, <4>5, SentAt DEF AtSend
    <3>2. CASE Entering(todo[Run])'
      BY <1>0, <2>4, <2>5, <3>2, SentAt
    <3> QED BY <2>5, <3>1, <3>2
  <2> QED BY <2>1, <2>2, <2>5, <2>6, <2>7, StreamingOf
<1>19. ASSUME NEW i \in 1 .. plan.slots, NEW j \in DOMAIN got, NEW r \in BOOLEAN, Reply(i, got[j], r)
       PROVE  Streaming'
  <2>1. UNCHANGED <<frames, got, lost, begun>> /\ Aside
    BY <1>19, ReplyControl DEF Reply, streamVars, historyVars
  <2> QED BY <1>1, <2>1, AsideStreaming
<1>20. UNCHANGED vars => Streaming'
  <2> SUFFICES ASSUME UNCHANGED vars PROVE Streaming'
    OBVIOUS
  <2>1. UNCHANGED <<frames, got, lost, begun>> /\ Aside
    BY IdleControl DEF vars, streamVars, clientVars, historyVars
  <2> QED BY <1>1, <2>1, AsideStreaming
<1> QED BY <1>13, <1>14, <1>15, <1>16, <1>17, <1>18, <1>19, <1>20
        DEF Next, Server, Client, StreamStep

LEMMA InitStreaming == Init => Streaming
<1> SUFFICES ASSUME Init PROVE Streaming
  OBVIOUS
<1>1. Stream = << >> /\ Len(Stream) = 0
  <2>1. got = << >> /\ frames = << >>
    BY DEF Init
  <2>2. << >> \o << >> = << >>
    BY EmptySeq, ConcatProperties
  <2> QED BY <2>1, <2>2 DEF Stream
<1>2. Sorted /\ Named
  BY <1>1 DEF Sorted, Named
<1>3. \A t \in Thread : ~InPlace(todo[t])
  <2>1. \A t \in Thread : ~Drives(t)
    BY DEF Init, Drives
  <2> QED BY <2>1, InitControl, Active
<1>4. pending = 0
  BY DEF Init
<1> QED BY <1>1, <1>2, <1>3, <1>4, ElsewhereNow DEF Streaming, Elsewhere

LEMMA AlwaysStreaming == Spec => [](Control /\ Streaming)
<1>1. Init => Control /\ Streaming
  BY InitControl, InitStreaming
<1>2. Control /\ Streaming /\ [Next]_vars => Control' /\ Streaming'
  BY NextControl, NextStreaming
<1> QED BY <1>1, <1>2, PTL DEF Spec

(* However handlers, timers and the stream interleave, and whatever is     *)
(* lost, the client sees the turn in the order cursorAdvance and           *)
(* cursorSendCheckpoint give it, and no frame twice.                       *)
THEOREM TurnInOrder == Spec => []StreamInOrder
<1>1. Control /\ Streaming => StreamInOrder
  <2> SUFFICES ASSUME Control, Streaming, NEW i \in DOMAIN Stream, NEW j \in DOMAIN Stream, i < j
               PROVE  Rank(Stream[i]) <= Rank(Stream[j]) /\ Stream[i] # Stream[j]
    BY DEF StreamInOrder
  <2>1. i \in 1 .. Len(Stream) /\ j \in 1 .. Len(Stream) /\ Stream[i] \in Frame /\ Stream[j] \in Frame
    BY Streamed, ElementOfSeq DEF Control
  <2>2. Precedes(Stream[i], Stream[j])
    BY <2>1 DEF Streaming, Sorted
  <2> QED BY <2>1, <2>2, Chain
<1> QED BY <1>1, AlwaysStreaming, PTL

(* A checkpoint never overtakes the blobs it names on its way to the       *)
(* client, unless a frame was lost (cursorSendCheckpoint: "the blobs go    *)
(* first").                                                                *)
THEOREM BlobsBeforeTheirCheckpoint == Spec => []StoredBeforeNamed
<1>1. Control /\ Streaming => StoredBeforeNamed
  <2> SUFFICES ASSUME Control, Streaming, ~lost, NEW i \in DOMAIN got, got[i].kind = "checkpoint",
                      NEW k \in 1 .. Blobs
               PROVE  \E j \in 1 .. i - 1 : got[j] = Blob(got[i].of, k)
    BY DEF StoredBeforeNamed
  <2>1. /\ Len(got) \in Nat /\ Len(frames) \in Nat /\ Len(Stream) = Len(got) + Len(frames) /\ i \in 1 .. Len(got)
        /\ \A j \in 1 .. Len(Stream) : Stream[j] = IF j <= Len(got) THEN got[j] ELSE frames[j - Len(got)]
    BY Streamed DEF Control
  <2>2. \A j \in 1 .. i : j \in 1 .. Len(Stream) /\ Stream[j] = got[j]
    BY <2>1
  <2>3. i \in 1 .. Len(Stream) /\ Stream[i] = got[i]
    BY <2>1, <2>2
  <2>4. \E j \in 1 .. i - 1 : Stream[j] = Blob(Stream[i].of, k)
    BY <2>3 DEF Streaming, Named
  <2> QED BY <2>1, <2>2, <2>3, <2>4
<1> QED BY <1>1, AlwaysStreaming, PTL

---------------------------------------------------------------------------
(***************************************************************************)
(* The result of a read.                                                   *)
(***************************************************************************)
LEMMA Entry ==
  ASSUME Domains, NEW s \in Stage
  PROVE  Head(Into(s)).stage = s
<1>1. history \in Nat
  BY DEF Domains
<1> QED BY <1>1, Starting DEF Starts

(* The tool's stage is entered from the context's.                         *)
ToolNext == \A t \in Thread : Entering(todo[t]) /\ Head(todo[t]).stage = "tool" => stage = "context"

LEMMA ToolNextNow == Domains => ToolNext
<1> SUFFICES ASSUME Domains, NEW t \in Thread, Entering(todo[t]), Head(todo[t]).stage = "tool"
             PROVE  stage = "context"
  BY DEF ToolNext
<1>1. PICK s \in Stage : <<stage, s>> \in Turn!Order /\ todo[t] = Into(s)
  BY DEF Entering
<1>2. s = "tool"
  BY <1>1, Entry
<1>3. <<stage, "tool">> \in Turn!Order
  BY <1>1, <1>2
<1> QED BY <1>3 DEF Turn!Order

LEMMA ToolNextNext == Domains' => ToolNext'
  BY ToolNextNow, PTL

LEMMA CalledKept ==
  ASSUME Domains, Called, UNCHANGED <<plan, tool, called>>, stage' = "tool" => called # "none",
         \A t \in Thread : Entering(todo[t])' /\ Head(todo'[t]).stage = "tool" => called # "none",
         \/ Stream' = Stream
         \/ Thinned
         \/ \E f \in Frame : Grown(f) /\ (f.kind = "exec" /\ f.stage = "tool" => called # "none")
  PROVE  Called'
<1>1. ASSUME NEW i \in 1 .. Len(Stream'), Stream'[i].kind = "exec", Stream'[i].stage = "tool"
      PROVE  called # "none"
  <2>1. Len(Stream) \in Nat
    BY Streamed
  <2>2. CASE Stream' = Stream
    BY <1>1, <2>2 DEF Called
  <2>3. CASE Thinned
    <3>1. PICK n \in Nat : /\ n < Len(Stream) /\ Len(Stream') = Len(Stream) - 1
                           /\ \A j \in 1 .. Len(Stream) - 1 : Stream'[j] = Stream[IF j <= n THEN j ELSE j + 1]
      BY <2>3 DEF Thinned
    <3>2. PICK k \in 1 .. Len(Stream) : Stream'[i] = Stream[k]
      BY <1>1, <2>1, <3>1
    <3> QED BY <1>1, <3>2 DEF Called
  <2>4. CASE \E f \in Frame : Grown(f) /\ (f.kind = "exec" /\ f.stage = "tool" => called # "none")
    <3>1. PICK f \in Frame : Grown(f) /\ (f.kind = "exec" /\ f.stage = "tool" => called # "none")
      BY <2>4
    <3>2. CASE i = Len(Stream) + 1
      BY <1>1, <3>1, <3>2 DEF Grown
    <3>3. CASE i \in 1 .. Len(Stream)
      BY <1>1, <3>1, <3>3 DEF Grown, Called
    <3> QED BY <1>1, <2>1, <3>1, <3>2, <3>3 DEF Grown
  <2> QED BY <2>2, <2>3, <2>4
<1> QED BY <1>1 DEF Called

LEMMA CalledAside ==
  ASSUME Control, Called, Aside, Kept, UNCHANGED <<tool, called>>
  PROVE  Called'
<1>1. Domains /\ UNCHANGED <<stage, plan>>
      /\ \A u \in Thread : SamePlace(u) /\ (InPlace(todo[u]) => todo'[u] = todo[u])
  BY DEF Control, Aside, Settled
<1>2. stage' = "tool" => called # "none"
  BY <1>1 DEF Called
<1>3. \A u \in Thread : Entering(todo[u])' /\ Head(todo'[u]).stage = "tool" => called # "none"
  BY <1>1 DEF Called, SamePlace, InPlace
<1>4. Stream' = Stream \/ Thinned
  BY DEF Kept
<1> QED BY <1>1, <1>2, <1>3, <1>4, CalledKept

LEMMA NextCalled ==
  ASSUME Control, Control', Called, [Next]_vars
  PROVE  Called'
<1>0. /\ Domains /\ Programs /\ Counted /\ Domains' /\ Heads' /\ ToolNext' /\ Alone'
  BY AloneNext, ToolNextNext DEF Control
<1>1. ASSUME UNCHANGED <<frames, got>> PROVE Stream' = Stream
  BY <1>1 DEF Stream
<1>2. ASSUME NEW t \in Thread, EnterStage(t) PROVE Called'
  <2>1. PICK s \in Stage : Entering(todo[t]) /\ todo[t] = Into(s) /\ stage' = s
    BY <1>0, <1>2, EnterMoves
  <2>2. \/ stage' = "done" /\ Saving(todo[t])'
        \/ stage' \in Middle /\ (Awaiting(todo[t])' \/ Advancing(todo[t])')
    BY <1>2, EnterControl
  <2>3. UNCHANGED <<frames, got, plan, tool, called>>
    BY <1>2 DEF EnterStage, streamVars, clientVars, choiceVars, historyVars
  <2>4. stage' = "tool" => called # "none"
    <3>1. Head(todo[t]).stage = s
      BY <1>0, <2>1, Entry
    <3> QED BY <2>1, <3>1 DEF Called
  <2>5. \A u \in Thread : ~Entering(todo[u])'
    <3>1. InPlace(todo[t])' /\ ~Entering(todo[t])'
      BY <1>0, <2>2 DEF InPlace, Heads
    <3> QED BY <1>0, <3>1 DEF Alone, InPlace
  <2> QED BY <1>0, <1>1, <2>3, <2>4, <2>5, CalledKept
<1>3. ASSUME NEW t \in Thread, Await(t) PROVE Called'
  <2>1. IF stage = "tool" THEN Naming(todo[t])' ELSE Asking(todo[t])'
    BY <1>0, <1>3, AwaitMoves
  <2>2. UNCHANGED <<frames, got, plan, tool, called, stage>>
    BY <1>3 DEF Await, streamVars, clientVars, choiceVars
  <2>3. \A u \in Thread : ~Entering(todo[u])'
    <3>1. InPlace(todo[t])' /\ ~Entering(todo[t])'
      BY <1>0, <2>1 DEF InPlace, Unsent, Heads, AtSend
    <3> QED BY <1>0, <3>1 DEF Alone, InPlace
  <2> QED BY <1>0, <1>1, <2>2, <2>3, CalledKept DEF Called
<1>4. ASSUME NEW t \in Thread, SendFrame(t) \/ GiveUp(t) PROVE Called'
  <2>1. /\ Sending(t) /\ Then(t, << >>) /\ UNCHANGED <<plan, tool, called, stage, pending, got>> /\ UNCHANGED Settled
        /\ frames' = frames \/ frames' = Append(frames, Outgoing(t))
    BY <1>4 DEF SendFrame, GiveUp, sessionVars, choiceVars, clientVars, streamVars, Settled
  <2>2. Outgoing(t) \in Frame /\ (Outgoing(t).kind = "exec" => Asking(todo[t]) /\ Outgoing(t) = AskFor(execID, stage))
    BY <2>1, Goes
  <2>3. Outgoing(t).kind = "exec" /\ Outgoing(t).stage = "tool" => called # "none"
    BY <2>2 DEF AskFor, Called
  <2>4. Stream' = Stream \/ Grown(Outgoing(t))
    BY <1>0, <1>1, <2>1, <2>2, Queued
  <2>5. \A u \in Thread : Entering(todo[u])' => stage # "context"
    <3>1. AtSend(todo[t]) => stage # "context"
      BY DEF AtSend, Fetching, Replying, Naming, Pinning, Storing, Sealing, Leaving
    <3>2. CASE AtSend(todo[t])
      <4>1. stage # "context"
        BY <3>1, <3>2
      <4> QED BY <4>1
    <3>3. CASE Asking(todo[t])
      <4>1. todo'[t] = << >> /\ Drives(t) /\ \A u \in Thread : u # t => todo'[u] = todo[u] /\ ~Drives(u)
        BY <1>0, <2>1, <3>3, SendMoves, Goes, Active
      <4>2. \A u \in Thread : ~Drives(u)'
        BY <4>1 DEF Drives
      <4> QED BY <4>2, DrivenNext DEF Driven, Control, InPlace
    <3> QED BY <1>0, <2>1, <3>2, <3>3, SendMoves
  <2>6. \A u \in Thread : Entering(todo[u])' /\ Head(todo'[u]).stage = "tool" => called # "none"
    BY <1>0, <2>1, <2>5 DEF ToolNext
  <2>7. stage' = "tool" => called # "none"
    BY <2>1 DEF Called
  <2> QED BY <1>0, <2>1, <2>2, <2>3, <2>4, <2>6, <2>7, CalledKept
<1>5. ASSUME NEW t \in Thread, AdvanceTurn(t) PROVE Called'
  <2>1. \/ stage = "context" /\ Deciding(todo[t])'
        \/ stage = "hook:compact" /\ Answering(todo[t])'
        \/ stage \in {"hook:prompt", "tool", "hook:stop"} /\ Entering(todo[t])'
    BY <1>0, <1>5, AdvanceMoves
  <2>2. UNCHANGED <<frames, got, plan, tool, called, stage>>
    BY <1>5 DEF AdvanceTurn, sessionVars, streamVars, clientVars, choiceVars, historyVars
  <2>3. \A u \in Thread : Entering(todo[u])' => stage # "context"
    <3>1. InPlace(todo[t])' /\ (Entering(todo[t])' => stage # "context")
      BY <1>0, <2>1 DEF InPlace, Heads
    <3> QED BY <1>0, <3>1 DEF Alone, InPlace
  <2>4. \A u \in Thread : Entering(todo[u])' /\ Head(todo'[u]).stage = "tool" => called # "none"
    BY <1>0, <2>2, <2>3 DEF ToolNext
  <2> QED BY <1>0, <1>1, <2>2, <2>4, CalledKept DEF Called
<1>6. ASSUME NEW t \in Thread, Decide(t) PROVE Called'
  <2>1. /\ stage = "context" /\ Entering(todo[t])'
        /\ \/ tool # "none" /\ tool' = "none" /\ called' = tool /\ todo'[t] = Into("tool")
           \/ tool = "none" /\ UNCHANGED <<tool, called>> /\ todo'[t] = Into("hook:compact")
    BY <1>0, <1>6, DecideMoves
  <2>2. UNCHANGED <<frames, got, plan, stage>>
    BY <1>6 DEF Decide, streamVars, clientVars, choiceVars
  <2>3. CASE tool # "none" /\ tool' = "none" /\ called' = tool
    BY <1>1, <2>2, <2>3 DEF Called
  <2>4. CASE UNCHANGED <<tool, called>> /\ todo'[t] = Into("hook:compact")
    <3>1. Head(todo'[t]).stage = "hook:compact"
      BY <1>0, <2>4, Entry DEF Stage
    <3>2. \A u \in Thread : Entering(todo[u])' => u = t
      BY <1>0, <2>1 DEF Alone, InPlace
    <3> QED BY <1>0, <1>1, <2>1, <2>2, <2>4, <3>1, <3>2, CalledKept
  <2> QED BY <2>1, <2>3, <2>4
<1>7. ASSUME NEW t \in Thread, UNCHANGED <<frames, got, plan, tool, called, stage>>,
             Replying(todo[t])' \/ Storing(todo[t])' \/ Advancing(todo[t])' \/ \A u \in Thread : ~InPlace(todo[u])'
      PROVE  Called'
  <2>1. \A u \in Thread : ~Entering(todo[u])'
    <3>1. CASE \A u \in Thread : ~InPlace(todo[u])'
      BY <3>1 DEF InPlace
    <3>2. CASE Replying(todo[t])' \/ Storing(todo[t])' \/ Advancing(todo[t])'
      <4>1. InPlace(todo[t])' /\ ~Entering(todo[t])'
        BY <1>0, <3>2 DEF InPlace, Heads, AtSend
      <4> QED BY <1>0, <4>1 DEF Alone, InPlace
    <3> QED BY <1>7, <3>1, <3>2
  <2> QED BY <1>0, <1>1, <1>7, <2>1, CalledKept DEF Called
<1>8. ASSUME NEW t \in Thread, GiveAnswer(t) PROVE Called'
  <2>1. Replying(todo[t])' /\ UNCHANGED <<frames, got, plan, tool, called, stage>>
    BY <1>0, <1>8, AnswerMoves DEF GiveAnswer, streamVars, clientVars, choiceVars, historyVars
  <2> QED BY <1>7, <2>1
<1>9. ASSUME NEW t \in Thread, SaveTurn(t) PROVE Called'
  <2>1. Storing(todo[t])' /\ UNCHANGED <<frames, got, plan, tool, called, stage>>
    BY <1>0, <1>9, SaveMoves DEF SaveTurn, streamVars, clientVars, choiceVars, historyVars
  <2> QED BY <1>7, <2>1
<1>10. ASSUME NEW t \in Thread, CloseTurn(t) PROVE Called'
  <2>1. Closing(todo[t]) /\ todo'[t] = << >> /\ \A u \in Thread : u # t => todo'[u] = todo[u]
    BY <1>0, <1>10, CloseMoves
  <2>2. UNCHANGED <<frames, got, plan, tool, called, stage>>
    BY <1>10 DEF CloseTurn, sessionVars, clientVars, choiceVars, historyVars
  <2>3. \A u \in Thread : ~InPlace(todo[u])'
    <3>1. Drives(t)
      BY <1>0, <2>1, Whereabouts DEF InPlace
    <3>2. \A u \in Thread : ~Drives(u)'
      BY <2>1, <3>1, Active DEF Drives
    <3> QED BY <3>2, DrivenNext DEF Driven, Control
  <2> QED BY <1>7, <2>2, <2>3
<1>11. ASSUME NEW t \in Thread, Claim(t) PROVE Called'
  <2>1. UNCHANGED <<frames, got, lost, plan, tool, called, stage>>
    BY <1>11 DEF Claim, streamVars, clientVars, choiceVars
  <2>2. Aside \/ Advancing(todo[t])'
    BY <1>11, ClaimControl
  <2> QED BY <1>1, <1>7, <2>1, <2>2, CalledAside DEF Kept
<1>12. ASSUME NEW i \in DOMAIN timers, RunOut(i) PROVE Called'
  <2>1. UNCHANGED <<frames, got, lost, plan, tool, called, stage>>
    BY <1>12 DEF RunOut, streamVars, clientVars, choiceVars, historyVars
  <2>2. Aside \/ (Timer(i) \in Thread /\ Advancing(todo[Timer(i)])')
    BY <1>12, RunOutControl
  <2> QED BY <1>1, <1>7, <2>1, <2>2, CalledAside DEF Kept
<1>13. ASSUME NEW t \in Thread, Store(t) PROVE Called'
  <2>1. Aside /\ UNCHANGED <<frames, got, lost, tool, called>>
    BY <1>13, StoreControl DEF Store, streamVars, clientVars, historyVars
  <2> QED BY <1>1, <2>1, CalledAside DEF Kept
<1>14. ASSUME NEW t \in Thread, Step(t) PROVE Called'
  BY <1>2, <1>3, <1>4, <1>5, <1>6, <1>8, <1>9, <1>10, <1>11, <1>13, <1>14 DEF Step
<1>15. ASSUME NEW i \in DOMAIN timers, StartTimer(i) PROVE Called'
  <2>1. Aside /\ UNCHANGED <<frames, got, lost, tool, called>>
    BY <1>15, StartControl DEF StartTimer, sessionVars, streamVars, clientVars, historyVars
  <2> QED BY <1>1, <2>1, CalledAside DEF Kept
<1>16. Relay => Called'
  <2>1. Relay => Aside /\ Kept /\ UNCHANGED <<tool, called>>
    BY RelayControl DEF Relay, Kept, sessionVars
  <2> QED BY <2>1, CalledAside
<1>17. StreamStep => Called'
  <2>1. StreamStep => Aside /\ Kept /\ UNCHANGED <<tool, called>>
    BY StreamSteps DEF Kept, sessionVars, historyVars
  <2> QED BY <2>1, CalledAside
<1>18. RunRequest => Called'
  <2> SUFFICES ASSUME RunRequest PROVE Called'
    OBVIOUS
  <2>1. UNCHANGED <<frames, got, plan, tool, called>>
    BY DEF RunRequest, sessionVars, streamVars, choiceVars, historyVars
  <2>2. stage' \notin {"tool", "context"}
    BY RequestControl
  <2>3. \A u \in Thread : ~(Entering(todo[u])' /\ Head(todo'[u]).stage = "tool")
    BY <1>0, <2>2 DEF ToolNext
  <2> QED BY <1>0, <1>1, <2>1, <2>2, <2>3, CalledKept
<1>19. ASSUME NEW i \in 1 .. plan.slots, NEW j \in DOMAIN got, NEW r \in BOOLEAN, Reply(i, got[j], r)
       PROVE  Called'
  <2>1. Aside /\ UNCHANGED <<frames, got, lost, tool, called>>
    BY <1>19, ReplyControl DEF Reply, sessionVars, streamVars, historyVars
  <2> QED BY <1>1, <2>1, CalledAside DEF Kept
<1>20. UNCHANGED vars => Called'
  <2>1. UNCHANGED vars => Aside /\ UNCHANGED <<frames, got, lost, tool, called>>
    BY IdleControl DEF vars, sessionVars, streamVars, clientVars, historyVars
  <2> QED BY <1>1, <2>1, CalledAside DEF Kept
<1> QED BY <1>12, <1>14, <1>15, <1>16, <1>17, <1>18, <1>19, <1>20
        DEF Next, Server, Client, StreamStep

LEMMA InitCalled == Init => Called
<1> SUFFICES ASSUME Init PROVE Called
  OBVIOUS
<1>1. Stream = << >> /\ Len(Stream) = 0
  <2>1. got = << >> /\ frames = << >>
    BY DEF Init
  <2>2. << >> \o << >> = << >>
    BY EmptySeq, ConcatProperties
  <2> QED BY <2>1, <2>2 DEF Stream
<1>2. \A t \in Thread : ~Entering(todo[t])
  <2>1. \A t \in Thread : ~Drives(t)
    BY DEF Init, Drives
  <2> QED BY <2>1, InitControl, Active DEF InPlace
<1>3. stage # "tool" /\ tool = plan.tool /\ called = "none"
  BY DEF Init
<1> QED BY <1>1, <1>2, <1>3 DEF Called

(* The frames that are next to be sent, by place.                          *)
LastFrames ==
  \A t \in Thread :
    /\ Storing(todo[t]) => Head(todo[t]).frame.kind = "blob"
    /\ Sealing(todo[t]) => Head(todo[t]).frame.kind = "checkpoint"
    /\ Fetching(todo[t]) => Head(todo[t]).frame.kind = "getblob"
    /\ Replying(todo[t]) => Head(todo[t]).frame.kind = "answer"
    /\ Naming(todo[t]) => Head(todo[t]).frame.kind = "blob"
    /\ Pinning(todo[t]) => Head(todo[t]).frame.of = "pending"
    /\ Leaving(todo[t]) => Head(todo[t]).frame.kind = "ended"

LEMMA LastFramesNow == Domains => LastFrames
<1> SUFFICES ASSUME Domains PROVE LastFrames
  OBVIOUS
<1>0. history \in Nat
  BY DEF Domains
<1>1. /\ "history" \in Series /\ "pending" \in Series /\ "final" \in Series /\ Blobs \in Nat \ {0}
      /\ Count("history") = history /\ Count("pending") = Blobs /\ Count("final") = Blobs
      /\ \A i : Item("history", i).kind = "getblob"
      /\ \A i : Item("pending", i).kind = "blob"
      /\ \A i : Item("final", i).kind = "blob"
  BY BlobsAssumption DEF Series, Count, Item, GetBlob, Blob
<1>2. /\ Into("hook:prompt") \in Program /\ Into("hook:stop") \in Program /\ Pinned("tool") \in Program
      /\ Question("tool") \in Program /\ Farewell \in Program /\ Do("close") \in Program
  BY <1>0, Composed, Simple DEF Stage
<1>3. /\ Answer \in Frame /\ Ended \in Frame /\ Checkpoint("pending", FALSE) \in Frame
      /\ \A r \in BOOLEAN : Checkpoint("final", r) \in Frame
      /\ \A r \in BOOLEAN : Send(Checkpoint("final", r)) \o Farewell \in Program
  BY <1>0, <1>2, Composed, Frames, Chained
<1>4. ASSUME NEW c \in Series, NEW q \in Program, NEW k \in 0 .. Count(c), k < Count(c), Count(c) \in Nat
      PROVE  Head(Left(c, k) \o q).frame = Item(c, k + 1)
  <2>1. Starts(Left(c, k) \o q, [do |-> "send", frame |-> Item(c, k + 1)], Left(c, k + 1) \o q)
    BY <1>0, <1>4, Starting
  <2>2. Head(Left(c, k) \o q) = [do |-> "send", frame |-> Item(c, k + 1)]
    BY <2>1 DEF Starts
  <2>3. \A h : h = [do |-> "send", frame |-> Item(c, k + 1)] => h.frame = Item(c, k + 1)
    OBVIOUS
  <2> QED BY <2>2, <2>3, Zenon
<1>5. ASSUME NEW f \in Frame, NEW q \in Program PROVE Head(Send(f) \o q).frame = f
  <2>1. Head(Send(f) \o q) = [do |-> "send", frame |-> f]
    BY <1>0, Starting DEF Starts
  <2>2. \A h : h = [do |-> "send", frame |-> f] => h.frame = f
    OBVIOUS
  <2> QED BY <2>1, <2>2, Zenon
<1> SUFFICES ASSUME NEW t \in Thread
             PROVE  /\ Storing(todo[t]) => Head(todo[t]).frame.kind = "blob"
                    /\ Sealing(todo[t]) => Head(todo[t]).frame.kind = "checkpoint"
                    /\ Fetching(todo[t]) => Head(todo[t]).frame.kind = "getblob"
                    /\ Replying(todo[t]) => Head(todo[t]).frame.kind = "answer"
                    /\ Naming(todo[t]) => Head(todo[t]).frame.kind = "blob"
                    /\ Pinning(todo[t]) => Head(todo[t]).frame.of = "pending"
                    /\ Leaving(todo[t]) => Head(todo[t]).frame.kind = "ended"
  BY DEF LastFrames
<1>6. ASSUME Storing(todo[t]) PROVE Head(todo[t]).frame.kind = "blob"
  <2>1. PICK r \in BOOLEAN, k \in 0 .. Blobs :
          k < Blobs /\ todo[t] = Left("final", k) \o (Send(Checkpoint("final", r)) \o Farewell)
    BY <1>6 DEF Storing
  <2> DEFINE q == Send(Checkpoint("final", r)) \o Farewell
  <2>2. q \in Program /\ k \in 0 .. Count("final") /\ k < Count("final") /\ Count("final") \in Nat
    BY <1>1, <1>3, <2>1
  <2>3. todo[t] = Left("final", k) \o q
    BY <2>1
  <2> HIDE DEF q
  <2>4. Head(Left("final", k) \o q).frame = Item("final", k + 1)
    BY <1>1, <1>4, <2>2
  <2> QED BY <1>1, <2>3, <2>4
<1>7. ASSUME Sealing(todo[t]) PROVE Head(todo[t]).frame.kind = "checkpoint"
  <2>1. PICK r \in BOOLEAN : todo[t] = Send(Checkpoint("final", r)) \o Farewell
    BY <1>7 DEF Sealing
  <2>2. Head(todo[t]).frame = Checkpoint("final", r)
    BY <1>2, <1>3, <1>5, <2>1
  <2> QED BY <2>2 DEF Checkpoint
<1>8. ASSUME Fetching(todo[t]) PROVE Head(todo[t]).frame.kind = "getblob"
  <2>1. PICK k \in 0 .. history : k < history /\ todo[t] = Left("history", k) \o Into("hook:prompt")
    BY <1>8 DEF Fetching
  <2>2. k \in 0 .. Count("history") /\ k < Count("history") /\ Count("history") \in Nat
    BY <1>0, <1>1, <2>1
  <2>3. Head(Left("history", k) \o Into("hook:prompt")).frame = Item("history", k + 1)
    BY <1>1, <1>2, <1>4, <2>2
  <2> QED BY <1>1, <2>1, <2>3
<1>9. ASSUME Replying(todo[t]) PROVE Head(todo[t]).frame.kind = "answer"
  <2>1. Head(todo[t]).frame = Answer
    BY <1>2, <1>3, <1>5, <1>9 DEF Replying
  <2> QED BY <2>1 DEF Answer
<1>10. ASSUME Naming(todo[t]) PROVE Head(todo[t]).frame.kind = "blob"
  <2>1. PICK k \in 0 .. Blobs : k < Blobs /\ todo[t] = Left("pending", k) \o Pinned("tool")
    BY <1>10 DEF Naming
  <2>2. k \in 0 .. Count("pending") /\ k < Count("pending") /\ Count("pending") \in Nat
    BY <1>1, <2>1
  <2>3. Head(Left("pending", k) \o Pinned("tool")).frame = Item("pending", k + 1)
    BY <1>1, <1>2, <1>4, <2>2
  <2> QED BY <1>1, <2>1, <2>3
<1>11. ASSUME Pinning(todo[t]) PROVE Head(todo[t]).frame.of = "pending"
  <2>1. todo[t] = Send(Checkpoint("pending", FALSE)) \o Question("tool")
    BY <1>11 DEF Pinning, Pinned
  <2>2. Head(todo[t]).frame = Checkpoint("pending", FALSE)
    BY <1>2, <1>3, <1>5, <2>1
  <2> QED BY <2>2 DEF Checkpoint
<1>12. ASSUME Leaving(todo[t]) PROVE Head(todo[t]).frame.kind = "ended"
  <2>1. Head(todo[t]).frame = Ended
    BY <1>2, <1>3, <1>5, <1>12 DEF Leaving, Farewell
  <2> QED BY <2>1 DEF Ended
<1> QED BY <1>6, <1>7, <1>8, <1>9, <1>10, <1>11, <1>12

LEMMA LastFramesNext == Domains' => LastFrames'
  BY LastFramesNow, PTL

(* What a send does to the checkpoint the turn ends with.                  *)
LEMMA SaveSends ==
  ASSUME Control, Control', NEW t \in Thread, Sending(t), Then(t, << >>), UNCHANGED Settled, returned' = returned,
         Storing(todo[t]) \/ Sealing(todo[t]) => Backed(todo[t])
  PROVE  /\ Storing(todo[t])' \/ Sealing(todo[t])' => Backed(todo[t])'
         /\ Outgoing(t).kind = "checkpoint" /\ Outgoing(t).of = "final" => (returned => Outgoing(t).result)
<1>0. /\ history \in Nat /\ Domains /\ Programs /\ UNCHANGED <<plan, history, stage, asked, pending>>
      /\ Domains' /\ Heads'
  BY AloneNext DEF Control, Domains, Settled
<1>1. /\ todo'[t] = Tail(todo[t]) /\ (AtSend(todo[t]) \/ Asking(todo[t]))
      /\ Fetching(todo[t]) => Fetching(todo[t])' \/ Entering(todo[t])'
      /\ Replying(todo[t]) => Entering(todo[t])'
      /\ Naming(todo[t]) => Naming(todo[t])' \/ Pinning(todo[t])'
      /\ Pinning(todo[t]) => Asking(todo[t])'
      /\ Asking(todo[t]) => todo'[t] = << >>
      /\ Sealing(todo[t]) => Leaving(todo[t])'
      /\ Leaving(todo[t]) => Closing(todo[t])'
  BY <1>0, SendMoves
<1>2. /\ "final" \in Series /\ Blobs \in Nat \ {0} /\ Count("final") = Blobs
      /\ \A i : Item("final", i) = Blob("final", i)
  BY BlobsAssumption DEF Series, Count, Item
<1>3. /\ Farewell \in Program
      /\ \A r \in BOOLEAN : Checkpoint("final", r) \in Frame /\ Send(Checkpoint("final", r)) \o Farewell \in Program
  BY <1>0, Composed, Frames, Chained
<1>4. CASE Storing(todo[t]) \/ Sealing(todo[t])
  <2>1. PICK r \in BOOLEAN :
          /\ returned => r
          /\ \/ \E k \in 0 .. Blobs :
                  k < Blobs /\ todo[t] = Left("final", k) \o (Send(Checkpoint("final", r)) \o Farewell)
             \/ todo[t] = Send(Checkpoint("final", r)) \o Farewell
    BY <1>4 DEF Backed
  <2> DEFINE q == Send(Checkpoint("final", r)) \o Farewell
  <2>2. q \in Program
    BY <1>3
  <2>3. CASE \E k \in 0 .. Blobs : k < Blobs /\ todo[t] = Left("final", k) \o q
    <3>1. PICK k \in 0 .. Blobs : k < Blobs /\ todo[t] = Left("final", k) \o q
      BY <2>3
    <3> HIDE DEF q
    <3>2. k \in Nat /\ k < Count("final") /\ todo'[t] = Tail(todo[t])
      BY <1>1, <1>2, <3>1
    <3>3. /\ Outgoing(t) = Item("final", k + 1)
          /\ todo'[t] = Left("final", k + 1) \o q
          /\ k + 1 = Count("final") => todo'[t] = q
      BY <1>0, <1>2, <2>2, <3>1, <3>2, SeriesStep
    <3>4. Outgoing(t).kind = "blob"
      BY <1>2, <3>3 DEF Blob
    <3>5. Backed(todo[t])'
      <4>1. CASE k + 1 < Blobs
        <5>1. k + 1 \in 0 .. Blobs
          BY <1>2, <3>2, <4>1
        <5>2. \A c, m : Left(c, m)' = Left(c, m)
          BY <1>0, Unmoved
        <5>3. \E m \in 0 .. Blobs : m < Blobs /\ todo'[t] = Left("final", m) \o q
          BY <3>3, <4>1, <5>1
        <5>4. \E m \in 0 .. Blobs : m < Blobs /\ todo'[t] = Left("final", m)' \o q
          BY <5>2, <5>3
        <5> QED BY <2>1, <5>4 DEF Backed, q, Farewell
      <4>2. CASE k + 1 = Blobs
        <5>1. todo'[t] = q
          BY <1>2, <3>3, <4>2
        <5> QED BY <2>1, <5>1 DEF Backed, q, Farewell
      <4> QED BY <1>2, <3>1, <3>2, <4>1, <4>2
    <3> QED BY <3>4, <3>5
  <2>4. CASE todo[t] = q
    <3>1. Outgoing(t) = Checkpoint("final", r) /\ todo'[t] = Farewell
      BY <1>0, <1>1, <1>3, <2>4, FrameStep
    <3>2. Outgoing(t).result = r
      BY <3>1 DEF Checkpoint
    <3>3. Head(todo'[t]).frame = Ended
      <4>1. Starts(Send(Ended) \o Do("close"), [do |-> "send", frame |-> Ended], Do("close"))
        BY <1>0, Starting, Frames, Simple
      <4>2. Head(todo'[t]) = [do |-> "send", frame |-> Ended]
        BY <3>1, <4>1 DEF Starts, Farewell
      <4> QED BY <4>2
    <3>4. ~Storing(todo[t])' /\ ~Sealing(todo[t])'
      <4>1. Ended.kind = "ended"
        BY DEF Ended
      <4> QED BY <1>0, <3>3, <4>1, LastFramesNext DEF LastFrames
    <3> QED BY <2>1, <3>2, <3>4
  <2> QED BY <2>1, <2>3, <2>4
<1>5. CASE ~Storing(todo[t]) /\ ~Sealing(todo[t])
  <2>1. ~Storing(todo[t])' /\ ~Sealing(todo[t])'
    <3>1. CASE stage = "done"
      <4>1. Leaving(todo[t])
        BY <1>1, <1>5, <3>1 DEF AtSend, Asking, Fetching, Replying, Naming, Pinning, Middle
      <4>2. Head(todo'[t]).do = "close"
        BY <1>0, <1>1, <4>1 DEF Heads
      <4> QED BY <1>0, <4>2 DEF Heads, AtSend
    <3>2. CASE stage # "done"
      BY <1>0, <3>2 DEF Storing, Sealing
    <3> QED BY <3>1, <3>2
  <2>2. ~(Outgoing(t).kind = "checkpoint" /\ Outgoing(t).of = "final")
    <3>1. CASE Does(t, "ask")
      <4>1. Outgoing(t) = AskFor(execID, stage)
        BY <3>1, Goes
      <4> QED BY <4>1 DEF AskFor
    <3>2. CASE ~Does(t, "ask")
      <4>1. AtSend(todo[t]) /\ Outgoing(t) = Head(todo[t]).frame
        BY <3>2, Goes
      <4> QED BY <1>0, <1>5, <4>1, LastFramesNow DEF LastFrames, AtSend
    <3> QED BY <3>1, <3>2
  <2> QED BY <2>1, <2>2
<1> QED BY <1>4, <1>5

LEMMA Pledge ==
  /\ ~Pledged(<< >>)
  /\ \A p : Pledged(p) => Head(p).do = "claim"
  BY DEF Pledged

LEMMA PlanFixed == [Next]_vars => plan' = plan
<1>1. ASSUME NEW t \in Thread, Step(t) PROVE plan' = plan
  BY <1>1 DEF Step, EnterStage, Await, SendFrame, AdvanceTurn, Decide, GiveAnswer, SaveTurn, CloseTurn,
              Store, Claim, GiveUp, choiceVars
<1>2. ASSUME NEW i \in DOMAIN timers, StartTimer(i) \/ RunOut(i) PROVE plan' = plan
  BY <1>2 DEF StartTimer, RunOut, choiceVars
<1>3. Relay \/ EndStream \/ NoticeHangUp \/ StreamTimeout \/ OpenStream \/ HangUp \/ RunRequest => plan' = plan
  BY DEF Relay, EndStream, NoticeHangUp, StreamTimeout, OpenStream, HangUp, RunRequest, choiceVars
<1>4. ASSUME NEW i, NEW f, NEW r, Reply(i, f, r) PROVE plan' = plan
  BY <1>4 DEF Reply, choiceVars
<1>5. UNCHANGED vars => plan' = plan
  BY DEF vars, choiceVars
<1> QED BY <1>1, <1>2, <1>3, <1>4, <1>5 DEF Next, Server, Client

(* A final checkpoint that joins the stream has to carry the result.       *)
Seals(f) == f.kind = "checkpoint" /\ f.of = "final" => (returned => f.result)

LEMMA SavedKept ==
  ASSUME Domains, Saved, plan.tool # "shell", UNCHANGED <<plan, returned>>, toolOut => toolOut',
         \A u \in Thread : Pledged(todo[u])' => Pledged(todo[u]) \/ toolOut',
         \A u \in Thread : Storing(todo[u])' \/ Sealing(todo[u])' => Backed(todo[u])',
         Stream' = Stream \/ Thinned \/ \E f \in Frame : Grown(f) /\ Seals(f)
  PROVE  Saved'
<1>1. ASSUME NEW i \in 1 .. Len(Stream') PROVE Seals(Stream'[i])
  <2>1. Len(Stream) \in Nat /\ \A k \in 1 .. Len(Stream) : Seals(Stream[k])
    BY Streamed DEF Saved, Seals
  <2>2. CASE Stream' = Stream
    BY <1>1, <2>1, <2>2
  <2>3. CASE Thinned
    <3>1. PICK n \in Nat : /\ n < Len(Stream) /\ Len(Stream') = Len(Stream) - 1
                           /\ \A j \in 1 .. Len(Stream) - 1 : Stream'[j] = Stream[IF j <= n THEN j ELSE j + 1]
      BY <2>3 DEF Thinned
    <3>2. PICK k \in 1 .. Len(Stream) : Stream'[i] = Stream[k]
      BY <1>1, <2>1, <3>1
    <3> QED BY <2>1, <3>2
  <2>4. CASE \E f \in Frame : Grown(f) /\ Seals(f)
    <3>1. PICK f \in Frame : Grown(f) /\ Seals(f)
      BY <2>4
    <3>2. CASE i = Len(Stream) + 1
      BY <3>1, <3>2 DEF Grown
    <3>3. CASE i \in 1 .. Len(Stream)
      BY <2>1, <3>1, <3>3 DEF Grown
    <3> QED BY <1>1, <2>1, <3>1, <3>2, <3>3 DEF Grown
  <2> QED BY <2>2, <2>3, <2>4
<1>2. returned' => toolOut'
  BY DEF Saved
<1>3. \A u \in Thread : Pledged(todo[u])' => toolOut'
  BY DEF Saved
<1> QED BY <1>1, <1>2, <1>3 DEF Saved, Seals

LEMMA BackedStays ==
  ASSUME UNCHANGED <<plan, history, returned>>, NEW u \in Thread, todo'[u] = todo[u], Backed(todo[u])
  PROVE  Backed(todo[u])'
<1>1. \A c, k : Left(c, k)' = Left(c, k)
  BY Unmoved
<1>2. PICK r \in BOOLEAN :
        /\ returned => r
        /\ \/ \E k \in 0 .. Blobs :
                k < Blobs /\ todo[u] = Left("final", k) \o (Send(Checkpoint("final", r)) \o Farewell)
           \/ todo[u] = Send(Checkpoint("final", r)) \o Farewell
  BY DEF Backed
<1>3. CASE todo[u] = Send(Checkpoint("final", r)) \o Farewell
  BY <1>2, <1>3 DEF Backed, Farewell
<1>4. CASE \E k \in 0 .. Blobs : k < Blobs /\ todo[u] = Left("final", k) \o (Send(Checkpoint("final", r)) \o Farewell)
  <2>1. \E k \in 0 .. Blobs : k < Blobs /\ todo'[u] = Left("final", k)' \o (Send(Checkpoint("final", r)) \o Farewell)
    BY <1>1, <1>4
  <2> QED BY <1>2, <2>1 DEF Backed, Farewell
<1> QED BY <1>2, <1>3, <1>4

(* Whoever does not drive the turn leaves what is being saved alone.       *)
LEMMA SavedAside ==
  ASSUME Control, Saved, plan.tool # "shell", Aside, Kept, returned' = returned, toolOut => toolOut',
         \A u \in Thread : Pledged(todo[u])' => Pledged(todo[u]) \/ toolOut'
  PROVE  Saved'
<1>1. Domains /\ UNCHANGED <<plan, history>>
      /\ \A u \in Thread : SamePlace(u) /\ (InPlace(todo[u]) => todo'[u] = todo[u])
  BY DEF Control, Aside, Settled
<1>2. ASSUME NEW u \in Thread, Storing(todo[u])' \/ Sealing(todo[u])' PROVE Backed(todo[u])'
  <2>1. Storing(todo[u]) \/ Sealing(todo[u])
    BY <1>1, <1>2 DEF SamePlace
  <2>2. todo'[u] = todo[u] /\ Backed(todo[u])
    BY <1>1, <2>1 DEF Saved, InPlace
  <2> QED BY <1>1, <2>2, BackedStays
<1>3. Stream' = Stream \/ Thinned
  BY DEF Kept
<1> QED BY <1>1, <1>2, <1>3, SavedKept

LEMMA SavedDriver ==
  ASSUME Control, Control', Saved, plan.tool # "shell", UNCHANGED <<plan, returned, toolOut>>,
         NEW t \in Thread, Drives(t), \A u \in Thread : u # t => todo'[u] = todo[u],
         todo'[t] = << >> \/ InPlace(todo[t])',
         Storing(todo[t])' \/ Sealing(todo[t])' => Backed(todo[t])',
         Stream' = Stream \/ \E f \in Frame : Grown(f) /\ Seals(f)
  PROVE  Saved'
<1>1. Domains /\ Driven'
  BY DrivenNext DEF Control
<1>2. \A u \in Thread : u # t => ~Drives(u)
  BY Active
<1>3. ASSUME NEW u \in Thread, u # t PROVE ~InPlace(todo[u])' /\ todo'[u] = todo[u]
  <2>1. ~Drives(u)'
    BY <1>2, <1>3 DEF Drives
  <2> QED BY <1>1, <1>3, <2>1 DEF Driven
<1>4. ASSUME NEW u \in Thread, Storing(todo[u])' \/ Sealing(todo[u])' PROVE Backed(todo[u])'
  <2>1. InPlace(todo[u])'
    BY <1>4 DEF InPlace
  <2> QED BY <1>3, <1>4, <2>1
<1>5. ASSUME NEW u \in Thread, Pledged(todo[u])' PROVE Pledged(todo[u])
  <2>1. Head(todo'[u]).do = "claim" /\ todo'[u] # << >>
    BY <1>5, Pledge DEF Pledged
  <2>2. ~InPlace(todo[u])'
    BY <1>1, <2>1 DEF Driven, Drives
  <2>3. u # t
    BY <2>1, <2>2
  <2>4. todo'[u] = todo[u]
    BY <1>3, <2>3
  <2> QED BY <1>5, <2>4 DEF Pledged
<1> QED BY <1>1, <1>4, <1>5, SavedKept

LEMMA NextSaved ==
  ASSUME Control, Control', Streaming, Called, Saved, [Next]_vars
  PROVE  Saved'
<1>0. /\ Domains /\ Programs /\ Counted /\ Domains' /\ Heads' /\ Alone' /\ plan' = plan /\ toolOut \in BOOLEAN
  BY AloneNext, PlanFixed DEF Control, Domains
<1>1. CASE plan.tool = "shell"
  BY <1>0, <1>1 DEF Saved
<1>2. CASE plan.tool # "shell"
  <2>1. ASSUME UNCHANGED <<frames, got>> PROVE Stream' = Stream
    BY <2>1 DEF Stream
  <2>2. ASSUME NEW t \in Thread, UNCHANGED <<frames, got, returned, toolOut>>, Drives(t),
               \A u \in Thread : u # t => todo'[u] = todo[u], InPlace(todo[t])',
               ~AtSend(todo[t])' \/ Naming(todo[t])' \/ Replying(todo[t])'
        PROVE  Saved'
    <3>1. ~Storing(todo[t])' /\ ~Sealing(todo[t])'
      <4>1. CASE ~AtSend(todo[t])'
        BY <4>1 DEF AtSend
      <4>2. CASE Naming(todo[t])' \/ Replying(todo[t])'
        BY <4>2 DEF Naming, Replying, Storing, Sealing
      <4> QED BY <2>2, <4>1, <4>2
    <3> QED BY <1>0, <1>2, <2>1, <2>2, <3>1, SavedDriver
  <2>3. ASSUME NEW t \in Thread, EnterStage(t) PROVE Saved'
    <3>1. /\ UNCHANGED <<frames, got, returned, toolOut>> /\ Entering(todo[t])
          /\ \A u \in Thread : u # t => todo'[u] = todo[u]
      BY <1>0, <2>3, EnterMoves DEF EnterStage, streamVars, clientVars, historyVars
    <3>2. Saving(todo[t])' \/ Awaiting(todo[t])' \/ Advancing(todo[t])'
      BY <2>3, EnterControl
    <3>3. Drives(t) /\ InPlace(todo[t])' /\ ~AtSend(todo[t])'
      BY <1>0, <3>1, <3>2, Whereabouts DEF InPlace, Heads
    <3> QED BY <2>2, <3>1, <3>3
  <2>4. ASSUME NEW t \in Thread, Await(t) PROVE Saved'
    <3>1. /\ UNCHANGED <<frames, got, returned, toolOut>> /\ Awaiting(todo[t])
          /\ \A u \in Thread : u # t => todo'[u] = todo[u]
          /\ Naming(todo[t])' \/ Asking(todo[t])'
      BY <1>0, <2>4, AwaitMoves DEF Await, streamVars, clientVars
    <3>2. Drives(t) /\ InPlace(todo[t])' /\ (Asking(todo[t])' => ~AtSend(todo[t])')
      BY <1>0, <3>1, Whereabouts DEF InPlace, Unsent, Heads
    <3> QED BY <2>2, <3>1, <3>2
  <2>5. ASSUME NEW t \in Thread, SendFrame(t) \/ GiveUp(t) PROVE Saved'
    <3>1. /\ Sending(t) /\ Then(t, << >>) /\ UNCHANGED Settled /\ UNCHANGED <<returned, toolOut, got>>
          /\ frames' = frames \/ frames' = Append(frames, Outgoing(t))
      BY <2>5 DEF SendFrame, GiveUp, sessionVars, choiceVars, clientVars, streamVars, Settled
    <3>2. /\ Storing(todo[t])' \/ Sealing(todo[t])' => Backed(todo[t])'
          /\ Seals(Outgoing(t))
      BY <1>2, <3>1, SaveSends DEF Saved, Seals
    <3>3. Outgoing(t) \in Frame /\ Drives(t) /\ todo[t] # << >>
      BY <3>1, Goes
    <3>4. Stream' = Stream \/ \E f \in Frame : Grown(f) /\ Seals(f)
      BY <1>0, <2>1, <3>1, <3>2, <3>3, Queued
    <3>5. (\A u \in Thread : u # t => todo'[u] = todo[u]) /\ (todo'[t] = << >> \/ InPlace(todo[t])')
      <4>1. \A u \in Thread : u # t => todo'[u] = todo[u]
        BY <1>0, <3>1, <3>3, Tailed
      <4>2. todo'[t] = << >> \/ InPlace(todo[t])'
        BY <1>0, <3>1, SendMoves DEF AtSend, InPlace, Unsent
      <4> QED BY <4>1, <4>2
    <3> QED BY <1>0, <1>2, <3>1, <3>2, <3>3, <3>4, <3>5, SavedDriver
  <2>6. ASSUME NEW t \in Thread, AdvanceTurn(t) PROVE Saved'
    <3>1. /\ UNCHANGED <<frames, got, returned, toolOut>> /\ Advancing(todo[t])
          /\ \A u \in Thread : u # t => todo'[u] = todo[u]
          /\ Deciding(todo[t])' \/ Answering(todo[t])' \/ Entering(todo[t])'
      BY <1>0, <2>6, AdvanceMoves DEF AdvanceTurn, sessionVars, streamVars, clientVars, historyVars
    <3>2. Drives(t) /\ InPlace(todo[t])' /\ ~AtSend(todo[t])'
      BY <1>0, <3>1, Whereabouts DEF InPlace, Heads
    <3> QED BY <2>2, <3>1, <3>2
  <2>7. ASSUME NEW t \in Thread, Decide(t) PROVE Saved'
    <3>1. /\ UNCHANGED <<frames, got, returned, toolOut>> /\ Deciding(todo[t])
          /\ \A u \in Thread : u # t => todo'[u] = todo[u]
          /\ Entering(todo[t])'
      BY <1>0, <2>7, DecideMoves DEF Decide, streamVars, clientVars
    <3>2. Drives(t) /\ InPlace(todo[t])' /\ ~AtSend(todo[t])'
      BY <1>0, <3>1, Whereabouts DEF InPlace, Heads
    <3> QED BY <2>2, <3>1, <3>2
  <2>8. ASSUME NEW t \in Thread, GiveAnswer(t) PROVE Saved'
    <3>1. /\ UNCHANGED <<frames, got, returned, toolOut>> /\ Answering(todo[t])
          /\ \A u \in Thread : u # t => todo'[u] = todo[u]
          /\ Replying(todo[t])'
      BY <1>0, <2>8, AnswerMoves DEF GiveAnswer, streamVars, clientVars, historyVars
    <3>2. Drives(t) /\ InPlace(todo[t])'
      BY <1>0, <3>1, Whereabouts DEF InPlace
    <3> QED BY <2>2, <3>1, <3>2
  <2>9. ASSUME NEW t \in Thread, SaveTurn(t) PROVE Saved'
    <3>1. /\ UNCHANGED <<frames, got, returned, toolOut, history>> /\ Saving(todo[t])
          /\ \A u \in Thread : u # t => todo'[u] = todo[u]
          /\ Storing(todo[t])'
          /\ todo'[t] = Left("final", 0) \o (Send(Checkpoint("final", toolOut)) \o Farewell)
      BY <1>0, <2>9, SaveMoves DEF SaveTurn, streamVars, clientVars, choiceVars, historyVars
    <3>2. Drives(t) /\ InPlace(todo[t])'
      BY <1>0, <3>1, Whereabouts DEF InPlace
    <3>3. Backed(todo[t])'
      <4>1. 0 \in 0 .. Blobs /\ 0 < Blobs
        BY BlobsAssumption
      <4>2. todo'[t] = Left("final", 0)' \o (Send(Checkpoint("final", toolOut)) \o Farewell)
        BY <1>0, <3>1, Unmoved
      <4>3. returned => toolOut
        BY <1>2 DEF Saved
      <4>4. \E k \in 0 .. Blobs : k < Blobs /\ todo'[t] = Left("final", k)' \o (Send(Checkpoint("final", toolOut)) \o Farewell)
        BY <4>1, <4>2
      <4> QED BY <1>0, <3>1, <4>3, <4>4 DEF Backed, Farewell
    <3> QED BY <1>0, <1>2, <2>1, <3>1, <3>2, <3>3, SavedDriver
  <2>10. ASSUME NEW t \in Thread, CloseTurn(t) PROVE Saved'
    <3>1. /\ UNCHANGED <<frames, got, returned, toolOut>> /\ Closing(todo[t]) /\ todo'[t] = << >>
          /\ \A u \in Thread : u # t => todo'[u] = todo[u]
      BY <1>0, <2>10, CloseMoves DEF CloseTurn, sessionVars, clientVars, historyVars
    <3>2. Drives(t)
      BY <1>0, <3>1, Whereabouts DEF InPlace
    <3>3. ~Storing(todo[t])' /\ ~Sealing(todo[t])'
      BY <1>0, <3>1 DEF Heads, AtSend
    <3> QED BY <1>0, <1>2, <2>1, <3>1, <3>2, <3>3, SavedDriver
  <2>11. ASSUME Aside, UNCHANGED <<frames, got, lost, returned, toolOut, todo>> PROVE Saved'
    <3>1. Kept /\ \A u \in Thread : Pledged(todo[u])' => Pledged(todo[u])
      BY <2>1, <2>11 DEF Kept, Pledged
    <3> QED BY <1>2, <2>11, <3>1, SavedAside
  <2>12. ASSUME NEW t \in Thread, Store(t) PROVE Saved'
    <3>1. UNCHANGED <<frames, got, lost, returned, called>> /\ Aside /\ toolOut' = (toolOut \/ called = "read")
      BY <2>12, StoreControl DEF Store, streamVars, clientVars, historyVars
    <3>2. PICK j \in DOMAIN got : got[j].kind = "exec" /\ got[j].stage = "tool"
      BY <1>0, <2>12, StoreMoves
    <3>3. j \in 1 .. Len(Stream) /\ Stream[j] = got[j]
      BY <1>0, Streamed
    <3>4. called # "none" /\ called \in {"none", plan.tool} /\ called \in {"none", "read", "shell"}
      BY <1>0, <3>2, <3>3 DEF Called, Domains
    <3>5. called = "read"
      BY <1>2, <3>4
    <3>6. toolOut' /\ Kept
      BY <2>1, <3>1, <3>5 DEF Kept
    <3> QED BY <1>2, <3>1, <3>6, SavedAside
  <2>13. ASSUME NEW t \in Thread, Claim(t) PROVE Saved'
    <3>1. UNCHANGED <<frames, got, lost, toolOut, stage>>
      BY <2>13 DEF Claim, streamVars, clientVars
    <3>2. PICK j \in DOMAIN got, r \in BOOLEAN :
            /\ got[j].kind = "exec"
            /\ todo[t] = <<[do |-> "claim", id |-> got[j].id, result |-> r]>>
            /\ \/ /\ pending # 0 /\ pending = got[j].id /\ pending' = 0
                  /\ returned' = (returned \/ r) /\ todo'[t] = Do("advance")
               \/ todo'[t] = << >> /\ UNCHANGED <<pending, returned>>
      BY <1>0, <2>13, ClaimMoves
    <3>3. \A u \in Thread : u # t => todo'[u] = todo[u]
      BY <1>0, <2>13, ClaimMoves
    <3>4. Head(Do("advance")).do = "advance"
      BY DEF Do
    <3>5. \A u \in Thread : Pledged(todo[u])' => Pledged(todo[u])
      <4>1. ~Pledged(todo[t])'
        BY <3>2, <3>4, Pledge DEF Pledged
      <4>2. ASSUME NEW u \in Thread, u # t, Pledged(todo[u])' PROVE Pledged(todo[u])
        BY <3>3, <4>2 DEF Pledged
      <4> QED BY <4>1, <4>2
    <3>6. CASE UNCHANGED <<pending, returned>> /\ todo'[t] = << >> /\ Aside
      <4>1. Kept
        BY <2>1, <3>1 DEF Kept
      <4> QED BY <1>2, <3>1, <3>5, <3>6, <4>1, SavedAside
    <3>7. CASE pending # 0 /\ pending' = 0 /\ stage \in Middle /\ Advancing(todo[t])'
      <4>1. returned' = (returned \/ r)
        BY <3>2, <3>7
      <4>2. r => toolOut
        <5>1. got[j].id \in Nat
          BY <1>0, <3>2, Pending
        <5>2. r => Pledged(todo[t])
          BY <3>2, <5>1 DEF Pledged
        <5> QED BY <1>2, <5>2 DEF Saved
      <4>3. returned' => toolOut'
        BY <1>2, <3>1, <4>1, <4>2 DEF Saved
      <4>4. \A u \in Thread : Pledged(todo[u])' => toolOut'
        BY <1>2, <3>1, <3>5 DEF Saved
      <4>5. \A u \in Thread : ~Storing(todo[u])' /\ ~Sealing(todo[u])'
        <5>1. stage' # "done"
          BY <3>1, <3>7 DEF Middle
        <5> QED BY <5>1 DEF Storing, Sealing
      <4>6. \A i \in 1 .. Len(Stream) : ~(Stream[i].kind = "checkpoint" /\ Stream[i].of = "final")
        <5>1. Under(AskRank(stage) + 1)
          BY <3>7 DEF Streaming
        <5>2. PICK q \in Nat : q = AskRank(stage) + 1 /\ q <= 9
          <6>1. AskRank(stage) \in Nat /\ AskRank(stage) <= 8
            <7>1. AskRank(stage) \in Nat
              BY <3>7, Floors
            <7>2. stage \in {"hook:prompt", "context", "tool", "hook:compact", "hook:stop"}
              BY <3>7 DEF Middle
            <7> QED BY <7>1, <7>2 DEF AskRank, Floor
          <6> QED BY <6>1
        <5>3. \A f : f.kind = "checkpoint" /\ f.of = "final" => Rank(f) = 10
          BY DEF Rank
        <5>4. \A i \in 1 .. Len(Stream) : Rank(Stream[i]) < q
          BY <5>1, <5>2 DEF Under
        <5> QED BY <5>2, <5>3, <5>4
      <4>7. Stream' = Stream
        BY <2>1, <3>1
      <4> QED BY <4>3, <4>4, <4>5, <4>6, <4>7 DEF Saved
    <3> QED BY <2>13, <3>6, <3>7, ClaimControl
  <2>14. ASSUME NEW t \in Thread, Step(t) PROVE Saved'
    BY <2>3, <2>4, <2>5, <2>6, <2>7, <2>8, <2>9, <2>10, <2>12, <2>13, <2>14 DEF Step
  <2>15. ASSUME NEW i \in DOMAIN timers, StartTimer(i) PROVE Saved'
    <3>1. Aside /\ UNCHANGED <<frames, got, lost, returned, toolOut, todo>>
      BY <2>15, StartControl DEF StartTimer, sessionVars, streamVars, clientVars, historyVars
    <3> QED BY <2>11, <3>1
  <2>16. ASSUME NEW i \in DOMAIN timers, RunOut(i) PROVE Saved'
    <3>1. UNCHANGED <<frames, got, lost, returned, toolOut, stage>>
      BY <2>16 DEF RunOut, streamVars, clientVars, historyVars
    <3>2. CASE UNCHANGED <<pending, todo>> /\ Aside
      BY <2>11, <3>1, <3>2
    <3>3. CASE /\ stage \in Middle /\ Advancing(todo[Timer(i)])' /\ Timer(i) \in Thread
               /\ \A u \in Thread : u # Timer(i) => todo'[u] = todo[u]
      <4>1. \A u \in Thread : ~Storing(todo[u])' /\ ~Sealing(todo[u])'
        <5>1. stage' # "done"
          BY <3>1, <3>3 DEF Middle
        <5> QED BY <5>1 DEF Storing, Sealing
      <4>2. ~Pledged(todo[Timer(i)])'
        <5>1. Head(todo'[Timer(i)]).do = "advance"
          BY <1>0, <3>3 DEF Heads
        <5> QED BY <5>1, Pledge DEF Pledged
      <4>3. ASSUME NEW u \in Thread, Pledged(todo[u])' PROVE Pledged(todo[u])
        <5>1. todo'[u] = todo[u]
          BY <3>3, <4>2, <4>3
        <5> QED BY <4>3, <5>1 DEF Pledged
      <4> QED BY <1>0, <1>2, <2>1, <3>1, <4>1, <4>3, SavedKept
    <3> QED BY <2>16, <3>2, <3>3, RunOutControl
  <2>17. Relay => Saved'
    <3> SUFFICES ASSUME Relay PROVE Saved'
      OBVIOUS
    <3>1. Aside /\ Kept /\ UNCHANGED <<returned, toolOut, todo>>
      BY RelayControl DEF Relay, Kept, sessionVars
    <3>2. \A u \in Thread : Pledged(todo[u])' => Pledged(todo[u])
      BY <3>1 DEF Pledged
    <3> QED BY <1>2, <3>1, <3>2, SavedAside
  <2>18. StreamStep => Saved'
    <3> SUFFICES ASSUME StreamStep PROVE Saved'
      OBVIOUS
    <3>1. Aside /\ UNCHANGED <<frames, got, lost, returned, toolOut, todo>>
      BY StreamSteps DEF sessionVars, historyVars
    <3> QED BY <2>11, <3>1
  <2>19. RunRequest => Saved'
    <3> SUFFICES ASSUME RunRequest PROVE Saved'
      OBVIOUS
    <3>1. UNCHANGED <<frames, got, returned, toolOut>>
      BY DEF RunRequest, sessionVars, streamVars, historyVars
    <3>2. stage' = "" /\ \A u \in Thread : ~Storing(todo[u])' /\ ~Sealing(todo[u])'
      <4>1. stage' = ""
        BY RequestControl
      <4> QED BY <4>1, Zenon DEF Storing, Sealing
    <3>3. \A u \in Thread : todo'[u] = << >> \/ (u = Run /\ InPlace(todo[u])')
      <4>1. /\ \A u \in Thread : todo[u] = << >> /\ (u # Run => todo'[u] = todo[u])
            /\ Fetching(todo[Run])' \/ Entering(todo[Run])'
        BY <1>0, RequestMoves DEF Control, Counted
      <4>2. InPlace(todo[Run])'
        BY <4>1 DEF InPlace
      <4> QED BY <4>1, <4>2
    <3>4. ASSUME NEW u \in Thread, Pledged(todo[u])' PROVE FALSE
      <4>1. Head(todo'[u]).do = "claim" /\ todo'[u] # << >>
        BY <3>4, Pledge DEF Pledged
      <4>2. Drives(u)'
        BY <3>3, <4>1, DrivenNext DEF Driven, Control
      <4> QED BY <4>1, <4>2 DEF Drives
    <3>5. \A u \in Thread : ~Storing(todo[u])' /\ ~Sealing(todo[u])'
      BY <3>2
    <3> QED BY <1>0, <1>2, <2>1, <3>1, <3>4, <3>5, SavedKept
  <2>20. ASSUME NEW i \in 1 .. plan.slots, NEW j \in DOMAIN got, NEW r \in BOOLEAN, Reply(i, got[j], r)
         PROVE  Saved'
    <3>1. Aside /\ UNCHANGED <<frames, got, lost, returned, toolOut>>
      BY <2>20, ReplyControl DEF Reply, sessionVars, streamVars, historyVars
    <3>2. /\ Handler(i) \in Thread /\ todo'[Handler(i)] = HandleReply(got[j].id, r)
          /\ \A u \in Thread : u # Handler(i) => todo'[u] = todo[u]
          /\ got[j].kind = "exec"
      BY <1>0, <2>20, ReplyMoves
    <3>3. ~Pledged(todo[Handler(i)])'
      <4> DEFINE e == [do |-> "claim", id |-> got[j].id, result |-> r]
      <4>1. <<e>> \in Program /\ Starts(<<e>>, e, << >>) /\ Starts(Do("store") \o <<e>>, [do |-> "store"], <<e>>)
        BY <1>0, <3>2, Pending
      <4>2. todo'[Handler(i)] = IF r THEN Do("store") \o <<e>> ELSE <<e>>
        BY <3>2, <4>1, Nothing DEF HandleReply
      <4>3. CASE r
        <5>1. Head(todo'[Handler(i)]) = [do |-> "store"]
          BY <4>1, <4>2, <4>3 DEF Starts
        <5>2. Head(todo'[Handler(i)]).do = "store"
          BY <5>1
        <5> QED BY <5>2, Pledge DEF Pledged
      <4>4. CASE ~r
        <5>1. todo'[Handler(i)] = <<e>> /\ e.result = FALSE
          BY <4>2, <4>4
        <5>2. ASSUME NEW id \in Nat, <<e>> = <<[do |-> "claim", id |-> id, result |-> TRUE]>> PROVE FALSE
          <6>1. e = [do |-> "claim", id |-> id, result |-> TRUE]
            BY <5>2
          <6> QED BY <5>1, <6>1
        <5> QED BY <5>1, <5>2 DEF Pledged
      <4> QED BY <4>3, <4>4
    <3>4. ASSUME NEW u \in Thread, Pledged(todo[u])' PROVE Pledged(todo[u])
      <4>1. todo'[u] = todo[u]
        BY <3>2, <3>3, <3>4
      <4> QED BY <3>4, <4>1 DEF Pledged
    <3>5. Kept
      BY <2>1, <3>1 DEF Kept
    <3> QED BY <1>2, <3>1, <3>4, <3>5, SavedAside
  <2>21. UNCHANGED vars => Saved'
    <3> SUFFICES ASSUME UNCHANGED vars PROVE Saved'
      OBVIOUS
    <3>1. Aside /\ UNCHANGED <<frames, got, lost, returned, toolOut, todo>>
      BY IdleControl DEF vars, sessionVars, streamVars, clientVars, historyVars
    <3> QED BY <2>11, <3>1
  <2> QED BY <2>14, <2>15, <2>16, <2>17, <2>18, <2>19, <2>20, <2>21
          DEF Next, Server, Client, StreamStep
<1> QED BY <1>1, <1>2

LEMMA InitSaved == Init => Saved
<1> SUFFICES ASSUME Init PROVE Saved
  OBVIOUS
<1>1. Len(Stream) = 0
  <2>1. got = << >> /\ frames = << >>
    BY DEF Init
  <2>2. << >> \o << >> = << >>
    BY EmptySeq, ConcatProperties
  <2> QED BY <2>1, <2>2 DEF Stream
<1>2. \A t \in Thread : ~Storing(todo[t]) /\ ~Sealing(todo[t])
  <2>1. \A t \in Thread : ~Drives(t)
    BY DEF Init, Drives
  <2> QED BY <2>1, InitControl, Active DEF InPlace
<1>3. returned = FALSE /\ \A t \in Thread : todo[t] = << >>
  BY DEF Init
<1> QED BY <1>1, <1>2, <1>3, Pledge DEF Saved

(* If the client's result for a read settled the ask, whatever replies     *)
(* came late or twice, the turn is saved with it: the handler keeps the    *)
(* result before it looks whether the ask is current, and the checkpoint   *)
(* is built later.  A shell's result is not kept (see the run cursor_shell). *)
THEOREM ReadResultSaved == Spec => [](plan.tool # "shell" => ResultSaved)
<1> DEFINE IInv == Control /\ Streaming /\ Called /\ Saved
<1>1. Init => IInv
  BY InitControl, InitStreaming, InitCalled, InitSaved
<1>2. IInv /\ [Next]_vars => IInv'
  BY NextControl, NextStreaming, NextCalled, NextSaved
<1>3. IInv => (plan.tool # "shell" => ResultSaved)
  <2> SUFFICES ASSUME IInv, plan.tool # "shell", NEW i \in DOMAIN Stream, returned,
                      Stream[i].kind = "checkpoint", Stream[i].of = "final"
               PROVE  Stream[i].result
    BY DEF ResultSaved
  <2>1. i \in 1 .. Len(Stream)
    BY Streamed DEF Control
  <2> QED BY <2>1 DEF Saved
<1> QED BY <1>1, <1>2, <1>3, PTL DEF Spec

---------------------------------------------------------------------------
(***************************************************************************)
(* A turn that was started is never left alone: somebody drives it, or its *)
(* ask is open and a fallback that will settle it has been started.        *)
(***************************************************************************)
Watches(i) ==
  /\ timers[i].stage = stage
  /\ timers[i].at = "start" \/ (timers[i].at = "asleep" /\ timers[i].waitingOn = pending)

Moving ==
  /\ begun /\ ~closed /\ pending = 0 => \E t \in Thread : Drives(t)
  /\ pending # 0 => (\E t \in Thread : Unsent(todo[t])) \/ \E i \in DOMAIN timers : Watches(i)

LEMMA MovingDriven ==
  ASSUME Control', NEW t \in Thread, InPlace(todo[t])', pending' # 0 => Unsent(todo[t])'
  PROVE  Moving'
<1>1. Driven'
  BY DrivenNext DEF Control
<1> QED BY <1>1 DEF Moving, Driven

(* Whoever does not drive the turn neither stops it nor its fallback.      *)
LEMMA MovingAside ==
  ASSUME Control, Control', Moving, Aside, UNCHANGED <<begun, closed>>,
         \A i \in DOMAIN timers : Watches(i) => i \in DOMAIN timers' /\ Watches(i)'
  PROVE  Moving'
<1>1. pending' = pending /\ \A u \in Thread : SamePlace(u) /\ (InPlace(todo[u]) => todo'[u] = todo[u])
  BY DEF Aside, Settled
<1>2. Driven /\ Driven'
  BY DrivenNow, DrivenNext DEF Control
<1>3. CASE pending = 0
  <2>1. \A u \in Thread : Drives(u) => Drives(u)'
    BY <1>1, <1>2 DEF Driven, Drives
  <2> QED BY <1>1, <1>3, <2>1 DEF Moving
<1>4. CASE pending # 0
  <2>1. \A u \in Thread : Unsent(todo[u]) => Unsent(todo[u])'
    BY <1>1 DEF SamePlace, Unsent
  <2> QED BY <1>1, <1>4, <2>1 DEF Moving
<1> QED BY <1>3, <1>4

LEMMA NextMoving ==
  ASSUME Control, Control', Moving, [Next]_vars
  PROVE  Moving'
<1>0. /\ Domains /\ Programs /\ Counted /\ Led /\ Domains'
      /\ DOMAIN timers = 1 .. Len(timers) /\ Len(timers) \in Nat
  BY TimerDomains DEF Control
<1>1. ASSUME timers' = timers, UNCHANGED <<stage, pending>>
      PROVE  \A i \in DOMAIN timers : Watches(i) => i \in DOMAIN timers' /\ Watches(i)'
  BY <1>1 DEF Watches
<1>2. ASSUME NEW t \in Thread, EnterStage(t) PROVE Moving'
  <2>1. pending = 0 /\ pending' = pending
    BY <1>0, <1>2, EnterMoves DEF EnterStage
  <2>2. Saving(todo[t])' \/ Awaiting(todo[t])' \/ Advancing(todo[t])'
    BY <1>2, EnterControl
  <2> QED BY <2>1, <2>2, MovingDriven DEF InPlace
<1>3. ASSUME NEW t \in Thread, Await(t) PROVE Moving'
  <2>1. Naming(todo[t])' \/ Asking(todo[t])'
    BY <1>0, <1>3, AwaitMoves
  <2> QED BY <2>1, MovingDriven DEF InPlace, Unsent
<1>4. ASSUME NEW t \in Thread, SendFrame(t) \/ GiveUp(t) PROVE Moving'
  <2>1. /\ Sending(t) /\ Then(t, << >>) /\ UNCHANGED Settled /\ UNCHANGED <<begun, closed, stage, pending>>
        /\ Watched(t)
    BY <1>4 DEF SendFrame, GiveUp, sessionVars, choiceVars, clientVars, streamVars, Settled
  <2>2. /\ AtSend(todo[t]) \/ Asking(todo[t])
        /\ Fetching(todo[t]) => Fetching(todo[t])' \/ Entering(todo[t])'
        /\ Replying(todo[t]) => Entering(todo[t])'
        /\ Naming(todo[t]) => Naming(todo[t])' \/ Pinning(todo[t])'
        /\ Pinning(todo[t]) => Asking(todo[t])'
        /\ Storing(todo[t]) => Storing(todo[t])' \/ Sealing(todo[t])'
        /\ Sealing(todo[t]) => Leaving(todo[t])'
        /\ Leaving(todo[t]) => Closing(todo[t])'
    BY <1>0, <2>1, SendMoves
  <2>3. CASE AtSend(todo[t])
    <3>1. CASE Naming(todo[t]) \/ Pinning(todo[t])
      <4>1. Unsent(todo[t])' /\ InPlace(todo[t])'
        BY <2>2, <3>1 DEF Unsent, InPlace
      <4> QED BY <4>1, MovingDriven
    <3>2. CASE ~Naming(todo[t]) /\ ~Pinning(todo[t])
      <4>1. InPlace(todo[t])'
        BY <2>2, <2>3, <3>2 DEF AtSend, InPlace
      <4>2. pending = 0
        BY <2>3, <3>2 DEF AtSend, Fetching, Replying, Storing, Sealing, Leaving
      <4> QED BY <2>1, <4>1, <4>2, MovingDriven
    <3> QED BY <3>1, <3>2
  <2>4. CASE Asking(todo[t]) /\ ~AtSend(todo[t])
    <3>1. Does(t, "ask") /\ Next1(t).stage = stage /\ pending # 0
      BY <2>1, <2>4, Goes DEF Asking
    <3>2. timers' = Append(timers, [stage |-> stage, waitingOn |-> 0, at |-> "start"])
      BY <2>1, <3>1 DEF Watched
    <3>3. PICK n \in Nat : n \in DOMAIN timers' /\ timers'[n] = [stage |-> stage, waitingOn |-> 0, at |-> "start"]
      <4>1. /\ Len(timers) + 1 \in DOMAIN timers' /\ Len(timers) + 1 \in Nat
            /\ timers'[Len(timers) + 1] = [stage |-> stage, waitingOn |-> 0, at |-> "start"]
        BY <1>0, <3>2 DEF Domains
      <4> QED BY <4>1
    <3>4. Watches(n)'
      BY <2>1, <3>3 DEF Watches
    <3> QED BY <2>1, <3>1, <3>3, <3>4 DEF Moving
  <2> QED BY <2>2, <2>3, <2>4
<1>5. ASSUME NEW t \in Thread, AdvanceTurn(t) PROVE Moving'
  <2>1. pending = 0 /\ pending' = pending /\ (Deciding(todo[t])' \/ Answering(todo[t])' \/ Entering(todo[t])')
    BY <1>0, <1>5, AdvanceMoves DEF AdvanceTurn, sessionVars, Advancing
  <2> QED BY <2>1, MovingDriven DEF InPlace
<1>6. ASSUME NEW t \in Thread, Decide(t) PROVE Moving'
  <2>1. pending = 0 /\ pending' = pending /\ Entering(todo[t])'
    BY <1>0, <1>6, DecideMoves DEF Decide, Deciding
  <2> QED BY <2>1, MovingDriven DEF InPlace
<1>7. ASSUME NEW t \in Thread, GiveAnswer(t) PROVE Moving'
  <2>1. pending = 0 /\ pending' = pending /\ Replying(todo[t])'
    BY <1>0, <1>7, AnswerMoves DEF GiveAnswer, Answering
  <2> QED BY <2>1, MovingDriven DEF InPlace
<1>8. ASSUME NEW t \in Thread, SaveTurn(t) PROVE Moving'
  <2>1. pending = 0 /\ pending' = pending /\ Storing(todo[t])'
    BY <1>0, <1>8, SaveMoves DEF SaveTurn, Saving
  <2> QED BY <2>1, MovingDriven DEF InPlace
<1>9. ASSUME NEW t \in Thread, CloseTurn(t) PROVE Moving'
  <2>1. closed' = TRUE /\ pending = 0 /\ pending' = pending
    BY <1>0, <1>9, CloseMoves DEF CloseTurn, sessionVars, Closing
  <2> QED BY <2>1 DEF Moving
<1>10. ASSUME NEW t \in Thread, Claim(t) PROVE Moving'
  <2>1. UNCHANGED <<stage, begun, closed>> /\ timers' = timers
    BY <1>10 DEF Claim, streamVars, clientVars
  <2>2. CASE UNCHANGED <<pending, returned>> /\ Aside
    BY <1>1, <2>1, <2>2, MovingAside
  <2>3. CASE pending' = 0 /\ Advancing(todo[t])'
    BY <2>3, MovingDriven DEF InPlace
  <2> QED BY <1>10, <2>2, <2>3, ClaimControl
<1>11. ASSUME Aside, timers' = timers, UNCHANGED <<begun, closed>> PROVE Moving'
  <2>1. UNCHANGED <<stage, pending>>
    BY <1>11 DEF Aside, Settled
  <2> QED BY <1>1, <1>11, <2>1, MovingAside
<1>12. ASSUME NEW t \in Thread, Store(t) PROVE Moving'
  <2>1. Aside /\ timers' = timers /\ UNCHANGED <<begun, closed>>
    BY <1>12, StoreControl DEF Store, streamVars, clientVars
  <2> QED BY <1>11, <2>1
<1>13. ASSUME NEW t \in Thread, Step(t) PROVE Moving'
  BY <1>2, <1>3, <1>4, <1>5, <1>6, <1>7, <1>8, <1>9, <1>10, <1>12, <1>13 DEF Step
<1>14. ASSUME NEW i \in DOMAIN timers, StartTimer(i) PROVE Moving'
  <2>1. Aside /\ UNCHANGED <<begun, closed, stage, pending>>
    BY <1>14, StartControl DEF StartTimer, sessionVars, streamVars, clientVars
  <2>2. /\ DOMAIN timers' = DOMAIN timers
        /\ \A k \in DOMAIN timers : k # i => timers'[k] = timers[k]
        /\ timers'[i] = [stage |-> timers[i].stage, waitingOn |-> pending, at |-> "asleep"]
    <3>1. timers' = [timers EXCEPT ![i].at = "asleep", ![i].waitingOn = pending]
      BY <1>14 DEF StartTimer
    <3>2. timers[i] \in Fallback /\ timers = [k \in 1 .. Len(timers) |-> timers[k]]
      BY <1>0, <1>14, TimerDomains DEF Domains
    <3> QED BY <1>0, <3>1, <3>2 DEF Fallback
  <2>3. ASSUME NEW k \in DOMAIN timers, Watches(k) PROVE k \in DOMAIN timers' /\ Watches(k)'
    <3>1. CASE k = i
      BY <2>1, <2>2, <2>3, <3>1 DEF Watches
    <3>2. CASE k # i
      BY <2>1, <2>2, <2>3, <3>2 DEF Watches
    <3> QED BY <3>1, <3>2
  <2> QED BY <2>1, <2>3, MovingAside
<1>15. ASSUME NEW i \in DOMAIN timers, RunOut(i) PROVE Moving'
  <2>1. UNCHANGED <<begun, closed, stage>> /\ timers[i].at = "asleep" /\ timers' = [timers EXCEPT ![i].at = "over"]
    BY <1>15 DEF RunOut, streamVars, clientVars
  <2>2. CASE UNCHANGED <<pending, todo>> /\ Aside /\ Stale(i)
    <3>1. ~Watches(i)
      BY <2>1, <2>2 DEF Watches, Stale
    <3>2. ASSUME NEW k \in DOMAIN timers, Watches(k) PROVE k \in DOMAIN timers' /\ Watches(k)'
      <4>1. k # i
        BY <3>1, <3>2
      <4>2. k \in DOMAIN timers' /\ timers'[k] = timers[k]
        BY <2>1, <4>1
      <4> QED BY <2>1, <2>2, <3>2, <4>2 DEF Watches
    <3> QED BY <2>1, <2>2, <3>2, MovingAside
  <2>3. CASE pending' = 0 /\ Advancing(todo[Timer(i)])' /\ Timer(i) \in Thread
    BY <2>3, MovingDriven DEF InPlace
  <2>4. CASE UNCHANGED <<pending, todo>> /\ Aside /\ ~Stale(i)
    <3>1. pending' = 0
      BY <1>15, <2>4 DEF RunOut
    <3>2. pending = 0
      BY <2>4, <3>1
    <3>3. \A u \in Thread : Drives(u) => Drives(u)'
      BY <2>4 DEF Drives
    <3> QED BY <2>1, <3>1, <3>2, <3>3 DEF Moving
  <2> QED BY <1>15, <2>2, <2>3, <2>4, RunOutControl
<1>16. Relay => Moving'
  <2> SUFFICES ASSUME Relay PROVE Moving'
    OBVIOUS
  <2>1. Aside /\ timers' = timers /\ UNCHANGED <<begun, closed>>
    BY RelayControl DEF Relay
  <2> QED BY <1>11, <2>1
<1>17. StreamStep => Moving'
  <2> SUFFICES ASSUME StreamStep PROVE Moving'
    OBVIOUS
  <2>1. Aside /\ timers' = timers /\ UNCHANGED <<begun, closed>>
    BY StreamSteps
  <2> QED BY <1>11, <2>1
<1>18. RunRequest => Moving'
  <2> SUFFICES ASSUME RunRequest PROVE Moving'
    OBVIOUS
  <2>1. /\ Run \in Thread /\ pending = 0 /\ pending' = pending
        /\ Fetching(todo[Run])' \/ Entering(todo[Run])'
    BY <1>0, RequestMoves DEF RunRequest, sessionVars, Counted
  <2> QED BY <2>1, MovingDriven DEF InPlace
<1>19. ASSUME NEW i \in 1 .. plan.slots, NEW j \in DOMAIN got, NEW r \in BOOLEAN, Reply(i, got[j], r)
       PROVE  Moving'
  <2>1. Aside /\ timers' = timers /\ UNCHANGED <<begun, closed>>
    BY <1>19, ReplyControl DEF Reply, streamVars
  <2> QED BY <1>11, <2>1
<1>20. UNCHANGED vars => Moving'
  <2> SUFFICES ASSUME UNCHANGED vars PROVE Moving'
    OBVIOUS
  <2>1. Aside /\ timers' = timers /\ UNCHANGED <<begun, closed>>
    BY IdleControl DEF vars, streamVars, clientVars
  <2> QED BY <1>11, <2>1
<1> QED BY <1>13, <1>14, <1>15, <1>16, <1>17, <1>18, <1>19, <1>20
        DEF Next, Server, Client, StreamStep

(* The safety half of TurnEnds: from run_request to the close, some        *)
(* goroutine has a step to take in the turn, or its ask is open and a      *)
(* cursorFallback that waits on that very ask has been started and has not *)
(* run out.  Nothing has to come from the client.                          *)
THEOREM NeverLeftAlone ==
  Spec => [](begun /\ ~closed =>
               \/ \E t \in Thread : Drives(t)
               \/ pending # 0 /\ \E i \in DOMAIN timers : Watches(i))
<1>1. Init => Control /\ Moving
  <2>1. Init => Moving
    BY DEF Init, Moving
  <2> QED BY <2>1, InitControl
<1>2. Control /\ Moving /\ [Next]_vars => Control' /\ Moving'
  BY NextControl, NextMoving
<1>3. Control /\ Moving => (begun /\ ~closed =>
                              \/ \E t \in Thread : Drives(t)
                              \/ pending # 0 /\ \E i \in DOMAIN timers : Watches(i))
  <2>1. Control => \A t \in Thread : Unsent(todo[t]) => Drives(t)
    BY Active
  <2> QED BY <2>1 DEF Moving
<1> QED BY <1>1, <1>2, <1>3, PTL DEF Spec
=============================================================================
