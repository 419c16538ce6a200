------------------------ MODULE RunnerPhases_proofs ------------------------
(***************************************************************************)
(* Theorems about RunnerPhases: for any number of agents with any registry *)
(* entries, and any set of command lines.                                  *)
(***************************************************************************)
EXTENDS RunnerPhases, SequenceTheorems, TLAPS

---------------------------------------------------------------------------
(* The list of stages.                                                     *)

(* A stage that clears the logs and runs no agent.                         *)
Clears(st) == st.resets /\ st.name \in {"setup", "hidden.clear"} /\ st.arms = "no"

(* A stage that reads the logs without having cleared them itself.         *)
Trusts(st) == st.reads = "hooks" /\ ~st.resets

Arming(st) ==
  /\ st.reads = "hooks" => st.arms = "for hooks"
  /\ st.reads = "served" => st.arms \in {"always", "if offered"}

(* Whatever stages there are, one that trusts the logs comes right after   *)
(* one that clears them, and one that judges a tool call has armed it.     *)
Orderly(s) ==
  /\ s \in Seq(Stage)
  /\ \A i \in DOMAIN s : Arming(s[i])
  /\ \A i \in DOMAIN s : Trusts(s[i]) => i - 1 \in DOMAIN s /\ Clears(s[i - 1])

LEMMA OrderlyConcat ==
  ASSUME NEW s, NEW u, Orderly(s), Orderly(u)
  PROVE  Orderly(s \o u)
<1> DEFINE c == s \o u
<1>1. s \in Seq(Stage) /\ u \in Seq(Stage)
  BY DEF Orderly
<1>2. /\ c \in Seq(Stage) /\ Len(c) = Len(s) + Len(u)
      /\ \A i \in 1 .. Len(s) : c[i] = s[i]
      /\ \A i \in 1 .. Len(u) : c[Len(s) + i] = u[i]
  BY <1>1
<1>3. /\ Len(s) \in Nat /\ Len(u) \in Nat
      /\ DOMAIN s = 1 .. Len(s) /\ DOMAIN u = 1 .. Len(u) /\ DOMAIN c = 1 .. Len(s) + Len(u)
  BY <1>1, <1>2, LenProperties
<1> HIDE DEF c
<1>4. ASSUME NEW i \in DOMAIN c
      PROVE  \/ i \in DOMAIN s /\ c[i] = s[i]
             \/ i - Len(s) \in DOMAIN u /\ c[i] = u[i - Len(s)]
  <2>1. i \in 1 .. Len(s) \/ (i - Len(s) \in 1 .. Len(u) /\ i = Len(s) + (i - Len(s)))
    BY <1>3, <1>4
  <2> QED BY <1>2, <1>3, <2>1
<1>5. \A i \in DOMAIN c : Arming(c[i])
  BY <1>4 DEF Orderly
<1>6. ASSUME NEW i \in DOMAIN c, Trusts(c[i])
      PROVE  i - 1 \in DOMAIN c /\ Clears(c[i - 1])
  <2>1. CASE i \in DOMAIN s /\ c[i] = s[i]
    <3>1. i - 1 \in DOMAIN s /\ Clears(s[i - 1])
      BY <1>6, <2>1 DEF Orderly
    <3>2. i - 1 \in 1 .. Len(s) /\ i - 1 \in DOMAIN c
      BY <1>3, <3>1
    <3> QED BY <1>2, <3>1, <3>2
  <2>2. CASE i - Len(s) \in DOMAIN u /\ c[i] = u[i - Len(s)]
    <3> DEFINE k == i - Len(s) - 1
    <3>1. k \in DOMAIN u /\ Clears(u[k])
      BY <1>6, <2>2 DEF Orderly
    <3>2. k \in 1 .. Len(u) /\ i - 1 = Len(s) + k /\ i - 1 \in DOMAIN c
      BY <1>3, <3>1
    <3> HIDE DEF k
    <3> QED BY <1>2, <3>1, <3>2
  <2> QED BY <1>4, <2>1, <2>2
<1> QED BY <1>2, <1>5, <1>6 DEF Orderly, c

(* A stage that clears the logs, or does not read them, may stand anywhere. *)
LEMMA OrderlyWhen ==
  ASSUME NEW condition, NEW st \in Stage, Arming(st), ~Trusts(st)
  PROVE  Orderly(When(condition, st))
<1>1. CASE When(condition, st) = <<st>>
  <2>1. <<st>> \in Seq(Stage) /\ DOMAIN <<st>> = {1} /\ <<st>>[1] = st
    OBVIOUS
  <2> QED BY <1>1, <2>1 DEF Orderly
<1>2. CASE When(condition, st) = << >>
  <2>1. << >> \in Seq(Stage) /\ DOMAIN << >> = {}
    OBVIOUS
  <2> QED BY <1>2, <2>1 DEF Orderly
<1> QED BY <1>1, <1>2 DEF When

Setup == St("setup", TRUE, "no", "nothing")
Hidden == St("hidden", FALSE, "no", "nothing")
HiddenClear == St("hidden.clear", TRUE, "no", "nothing")
Headless == St("headless", FALSE, "for hooks", "hooks")

LEMMA StageTypes ==
  /\ Setup \in Stage /\ Hidden \in Stage /\ HiddenClear \in Stage /\ Headless \in Stage
  /\ Clears(Setup) /\ Clears(HiddenClear) /\ Trusts(Headless)
  /\ \A st \in {Setup, Hidden, HiddenClear, Headless} : Arming(st)
  /\ \A st \in {Setup, Hidden, HiddenClear} : ~Trusts(st)
  BY DEF Setup, Hidden, HiddenClear, Headless, St, Stage, Probes, Clears, Trusts, Arming

(* A list may go on with a stage that trusts the logs where its last one   *)
(* cleared them.                                                           *)
LEMMA OrderlyTrusting ==
  ASSUME NEW s, Orderly(s), Len(s) > 0, Clears(s[Len(s)]),
         NEW condition, NEW st \in Stage, Arming(st)
  PROVE  Orderly(s \o When(condition, st))
<1>1. s \in Seq(Stage)
  BY DEF Orderly
<1>2. CASE When(condition, st) = << >>
  BY <1>1, <1>2, ConcatEmptySeq
<1>3. CASE When(condition, st) = <<st>>
  <2> DEFINE r == Append(s, st)
  <2>1. s \o When(condition, st) = r
    BY <1>1, <1>3, AppendIsConcat
  <2>2. /\ Len(s) \in Nat
        /\ DOMAIN s = 1 .. Len(s) /\ DOMAIN r = 1 .. Len(s) + 1
        /\ \A i \in 1 .. Len(s) : r[i] = s[i]
        /\ r[Len(s) + 1] = st /\ r \in Seq(Stage)
    BY <1>1, AppendProperties, LenProperties
  <2> HIDE DEF r
  <2>3. \A i \in DOMAIN r : (i \in DOMAIN s /\ r[i] = s[i]) \/ i = Len(s) + 1
    BY <2>2
  <2>4. \A i \in DOMAIN r : Arming(r[i])
    BY <2>2, <2>3 DEF Orderly
  <2>5. ASSUME NEW i \in DOMAIN r, Trusts(r[i]) PROVE i - 1 \in DOMAIN r /\ Clears(r[i - 1])
    <3>1. CASE i \in DOMAIN s /\ r[i] = s[i]
      <4>1. i - 1 \in DOMAIN s /\ Clears(s[i - 1])
        BY <2>5, <3>1 DEF Orderly
      <4> QED BY <2>2, <4>1
    <3>2. CASE i = Len(s) + 1
      <4>1. i - 1 = Len(s) /\ Len(s) \in DOMAIN s /\ Len(s) \in DOMAIN r
        BY <2>2, <3>2
      <4> QED BY <2>2, <4>1
    <3> QED BY <2>3, <3>1, <3>2
  <2>6. Orderly(r)
    BY <2>2, <2>4, <2>5 DEF Orderly
  <2> QED BY <2>1, <2>6
<1> QED BY <1>2, <1>3 DEF When

(* The headless phase is the one that trusts: the probe of hidden commands *)
(* has cleared up before it, or setup has.                                 *)
LEMMA OrderlyBeginning ==
  ASSUME NEW hidden, NEW headless
  PROVE  Orderly(<<Setup>> \o When(hidden, Hidden) \o When(hidden, HiddenClear)
                   \o When(headless, Headless))
<1> DEFINE a == <<Setup>> \o When(hidden, Hidden)
           b == a \o When(hidden, HiddenClear)
<1>1. Orderly(<<Setup>>) /\ Orderly(When(hidden, Hidden)) /\ Orderly(When(hidden, HiddenClear))
  <2>1. When(TRUE, Setup) = <<Setup>>
    BY DEF When
  <2> QED BY <2>1, StageTypes, OrderlyWhen
<1>2. Orderly(a) /\ Orderly(b)
  BY <1>1, OrderlyConcat
<1>3. a \in Seq(Stage)
  BY <1>2 DEF Orderly
<1>4. CASE hidden
  <2>1. b = Append(a, HiddenClear)
    BY <1>3, <1>4, StageTypes, AppendIsConcat DEF When
  <2> HIDE DEF a
  <2>2. Len(b) > 0 /\ b[Len(b)] = HiddenClear
    BY <1>3, <2>1, StageTypes
  <2> HIDE DEF b
  <2>3. Orderly(b \o When(headless, Headless))
    BY <1>2, <2>2, StageTypes, OrderlyTrusting
  <2> QED BY <2>3 DEF a, b
<1>5. CASE ~hidden
  <2>1. b = <<Setup>>
    <3>1. <<Setup>> \in Seq(Stage)
      BY StageTypes
    <3>2. a = <<Setup>>
      BY <1>5, <3>1, ConcatEmptySeq DEF When
    <3> QED BY <1>5, <3>1, <3>2, ConcatEmptySeq DEF When
  <2> HIDE DEF b
  <2>2. Len(b) > 0 /\ b[Len(b)] = Setup
    BY <2>1
  <2>3. Orderly(b \o When(headless, Headless))
    BY <1>2, <2>2, StageTypes, OrderlyTrusting
  <2> QED BY <2>3 DEF b
<1> QED BY <1>4, <1>5

LEMMA OrderlyStages == \A h : Orderly(Stages(h))
<1> SUFFICES ASSUME NEW h PROVE Orderly(Stages(h))
  OBVIOUS
<1> DEFINE
  runs(m) == command.mode = m \/ (command.mode = "both" /\ m \in {"headless", "interactive"})
  probe(m, p) == runs(m) /\ p \in command.probes
  headless == runs("headless") /\ h.headless
  s0 == <<Setup>> \o When("hidden" \in command.probes, Hidden)
          \o When("hidden" \in command.probes, HiddenClear) \o When(headless, Headless)
  w1 == When(headless /\ "deferred" \in command.probes,
             St("deferred", FALSE, "if offered", "served"))
  w2 == When(runs("interactive"), St("interactive", TRUE, "for hooks", "hooks"))
  w3 == When(runs("acp"), St("acp", TRUE, "for hooks", "hooks"))
  w4 == When(probe("acp", "resume"), St("resume", TRUE, "always", "nothing"))
  w5 == When(probe("acp", "inflight"), St("inflight", TRUE, "always", "served"))
  w6 == When(probe("acp", "compact"), St("compact", TRUE, "always", "nothing"))
  w7 == When(probe("acp", "deferred"), St("deferred", FALSE, "if offered", "served"))
  w8 == When(probe("acp", "seed"), St("seed", TRUE, "for hooks", "nothing"))
  w9 == When(probe("acp", "seedkinds"), St("seedkinds", TRUE, "for hooks", "nothing"))
  w10 == When(probe("acp", "seedkinds") /\ "seedshapes" \in command.probes,
              St("seedshapes", TRUE, "for hooks", "nothing"))
  w11 == When(runs("sdk"), St("sdk", TRUE, "for hooks", "hooks"))
<1>1. \A name \in {"interactive", "acp", "resume", "inflight", "compact", "deferred", "seed",
                   "seedkinds", "seedshapes", "sdk"} :
        /\ \A reads \in {"hooks", "nothing"} :
             LET st == St(name, TRUE, "for hooks", reads) IN st \in Stage /\ Arming(st) /\ ~Trusts(st)
        /\ \A reads \in {"served", "nothing"} :
             LET st == St(name, TRUE, "always", reads) IN st \in Stage /\ Arming(st) /\ ~Trusts(st)
        /\ LET st == St(name, FALSE, "if offered", "served")
           IN st \in Stage /\ Arming(st) /\ ~Trusts(st)
  BY DEF St, Stage, Probes, Arming, Trusts
<1>2. Orderly(w1) /\ Orderly(w2) /\ Orderly(w3) /\ Orderly(w4)
  BY <1>1, OrderlyWhen
<1>3. Orderly(w5) /\ Orderly(w6) /\ Orderly(w7) /\ Orderly(w8)
  BY <1>1, OrderlyWhen
<1>4. Orderly(w9) /\ Orderly(w10) /\ Orderly(w11)
  BY <1>1, OrderlyWhen
<1>5. Orderly(s0)
  BY OrderlyBeginning
<1>6. Stages(h) = s0 \o w1 \o w2 \o w3 \o w4 \o w5 \o w6 \o w7 \o w8 \o w9 \o w10 \o w11
  BY DEF Stages, Setup, Hidden, HiddenClear, Headless
<1> HIDE DEF s0, w1, w2, w3, w4, w5, w6, w7, w8, w9, w10, w11
<1>7. Orderly(s0 \o w1 \o w2 \o w3)
  BY <1>2, <1>5, OrderlyConcat
<1>8. Orderly(s0 \o w1 \o w2 \o w3 \o w4 \o w5 \o w6)
  BY <1>2, <1>3, <1>7, OrderlyConcat
<1>9. Orderly(s0 \o w1 \o w2 \o w3 \o w4 \o w5 \o w6 \o w7 \o w8 \o w9)
  BY <1>3, <1>4, <1>8, OrderlyConcat
<1> QED BY <1>4, <1>6, <1>9, OrderlyConcat

---------------------------------------------------------------------------
(* The invariant.                                                          *)

(* What is left of the list.                                               *)
InOrder(s) ==
  /\ s \in Seq(Stage)
  /\ \A i \in DOMAIN s : Arming(s[i])
  /\ \A i \in DOMAIN s : i > 1 /\ Trusts(s[i]) => Clears(s[i - 1])

UnderWay == pc \in {"run", "check"}

(* A stage that trusts the logs finds them empty.                          *)
LogsAreClear ==
  /\ InOrder(todo) /\ stage \in Stage /\ Arming(stage)
  /\ todo # << >> /\ Trusts(Head(todo)) => pc = "next" /\ log = {} /\ hookLog = {}

(* The stage under way has armed the call it will judge.                   *)
Judges == stage.reads = "served" \/ (stage.reads = "hooks" /\ harness.tools)

CallLedger ==
  /\ stageNo \in Nat /\ armed \in Nat /\ handed \in Nat
  /\ UnderWay => stageNo > 0 /\ verdict = NoVerdict
  /\ UnderWay /\ Judges => armed \in {0, stageNo} /\ (toolCallServed <=> handed = stageNo)

(* The requests since it began are its own turn's.                         *)
LogLedger == UnderWay /\ stage.reads = "hooks" => log \subseteq {stageNo}

(* The suite's own hooks, and agents that print nothing: what is seen of a *)
(* hook is what the hook log says.                                         *)
OnlyTheLog == command.hooks = "mock" /\ ~command.prints

HookLedger ==
  OnlyTheLog =>
    /\ lastOutput = {} /\ (stripped = << >> \/ stripped = <<{}>>)
    /\ UnderWay /\ stage.reads = "hooks" => hookLog = fired
    /\ PassIsOwn

IInv == LogsAreClear /\ CallLedger /\ LogLedger /\ HookLedger /\ ToolVerdictIsTrue

LEMMA InitInv == Init => IInv
<1> SUFFICES ASSUME Init PROVE IInv
  OBVIOUS
<1>1. LogsAreClear
  BY DEF Init, LogsAreClear, InOrder, Arming, NoStage, St, Stage
<1>2. CallLedger /\ LogLedger
  BY DEF Init, CallLedger, LogLedger, UnderWay
<1>3. HookLedger /\ ToolVerdictIsTrue
  BY DEF Init, HookLedger, UnderWay, PassIsOwn, ToolVerdictIsTrue, NoStage, St, NoVerdict, Tag
<1> QED BY <1>1, <1>2, <1>3 DEF IInv

---------------------------------------------------------------------------
(* A step.                                                                 *)
LEMMA OrderlyBegins ==
  ASSUME NEW s, Orderly(s)
  PROVE  InOrder(s) /\ (s # << >> => ~Trusts(Head(s)))
<1>1. s \in Seq(Stage) /\ InOrder(s)
  BY DEF Orderly, InOrder
<1>2. ASSUME s # << >> PROVE ~Trusts(Head(s))
  <2>1. Head(s) = s[1] /\ 1 \in DOMAIN s /\ DOMAIN s = 1 .. Len(s)
    BY <1>1, <1>2
  <2>2. 1 - 1 \notin DOMAIN s
    BY <2>1
  <2> QED BY <2>1, <2>2 DEF Orderly
<1> QED BY <1>1, <1>2

LEMMA TailInOrder ==
  ASSUME NEW s, InOrder(s), s # << >>
  PROVE  /\ InOrder(Tail(s)) /\ Head(s) \in Stage /\ Arming(Head(s))
         /\ Tail(s) # << >> /\ Trusts(Head(Tail(s))) => Clears(Head(s))
<1> DEFINE u == Tail(s)
<1>1. s \in Seq(Stage)
  BY DEF InOrder
<1>2. /\ Len(s) \in Nat \ {0} /\ DOMAIN s = 1 .. Len(s)
      /\ u \in Seq(Stage) /\ Len(u) = Len(s) - 1 /\ DOMAIN u = 1 .. Len(s) - 1
      /\ \A i \in 1 .. Len(s) - 1 : u[i] = s[i + 1]
      /\ Head(s) = s[1] /\ Head(s) \in Stage
  BY <1>1, HeadTailProperties, LenProperties, EmptySeq
<1>3. u # << >> => Head(u) = u[1] /\ 1 \in DOMAIN u
  BY <1>2
<1> HIDE DEF u
<1>4. \A i \in DOMAIN u : i + 1 \in DOMAIN s /\ u[i] = s[i + 1]
  BY <1>2
<1>5. InOrder(u)
  <2>1. \A i \in DOMAIN u : Arming(u[i])
    BY <1>4 DEF InOrder
  <2>2. ASSUME NEW i \in DOMAIN u, i > 1, Trusts(u[i]) PROVE Clears(u[i - 1])
    <3>1. i + 1 \in DOMAIN s /\ i + 1 > 1 /\ Trusts(s[i + 1]) /\ (i + 1) - 1 = i
      BY <1>2, <1>4, <2>2
    <3>2. Clears(s[i])
      BY <3>1 DEF InOrder
    <3>3. i - 1 \in 1 .. Len(s) - 1 /\ (i - 1) + 1 = i
      BY <1>2, <2>2
    <3>4. u[i - 1] = s[i]
      BY <1>2, <3>3
    <3> QED BY <3>2, <3>4
  <2> QED BY <1>2, <2>1, <2>2 DEF InOrder
<1>6. ASSUME u # << >>, Trusts(Head(u)) PROVE Clears(Head(s))
  <2>1. 2 \in DOMAIN s /\ Trusts(s[2]) /\ 2 > 1 /\ 2 - 1 = 1
    BY <1>2, <1>3, <1>4, <1>6
  <2> QED BY <1>2, <2>1 DEF InOrder
<1>7. Arming(Head(s))
  BY <1>2 DEF InOrder
<1> QED BY <1>2, <1>5, <1>6, <1>7 DEF u

(* The next agent.                                                         *)
LEMMA NextAgentStep == IInv /\ NextAgent => IInv'
<1> SUFFICES ASSUME IInv, NextAgent PROVE IInv'
  OBVIOUS
<1>1. /\ pc = "next" /\ pc' = "next" /\ log' = {}
      /\ UNCHANGED <<command, stage, stageNo, armed, hookLog, fired, handed, verdict>>
      /\ lastOutput' = {} /\ stripped' = << >>
  BY DEF NextAgent, historyVars
<1>2. InOrder(todo') /\ (todo' # << >> => ~Trusts(Head(todo')))
  <2>1. CASE todo' = todo
    BY <2>1 DEF NextAgent, IInv, LogsAreClear
  <2>2. CASE todo' = Stages(harness')
    BY <2>2, OrderlyStages, OrderlyBegins
  <2> QED BY <2>1, <2>2 DEF NextAgent
<1>3. LogsAreClear'
  BY <1>1, <1>2 DEF IInv, LogsAreClear
<1>4. CallLedger' /\ LogLedger' /\ ToolVerdictIsTrue'
  BY <1>1 DEF IInv, CallLedger, LogLedger, UnderWay, ToolVerdictIsTrue
<1>5. HookLedger'
  BY <1>1 DEF IInv, HookLedger, OnlyTheLog, UnderWay, PassIsOwn
<1> QED BY <1>3, <1>4, <1>5 DEF IInv

(* The next stage.                                                         *)
LEMMA BeginStageStep == IInv /\ BeginStage => IInv'
<1> SUFFICES ASSUME IInv, BeginStage PROVE IInv'
  OBVIOUS
<1> DEFINE st == Head(todo)
<1>1. /\ pc = "next" /\ todo # << >> /\ Reset(st) /\ Arm(st)
      /\ stage' = st /\ todo' = Tail(todo) /\ stageNo' = stageNo + 1
      /\ pc' = IF st.name \in {"setup", "hidden.clear"} THEN "next" ELSE "run"
      /\ fired' = {} /\ handed' = 0 /\ verdict' = NoVerdict
      /\ UNCHANGED <<command, harness, lastOutput, stripped>>
  BY DEF BeginStage
<1>2. /\ InOrder(todo') /\ Arming(st) /\ st \in Stage
      /\ todo' # << >> /\ Trusts(Head(todo')) => Clears(st)
  BY <1>1, TailInOrder DEF IInv, LogsAreClear
<1>3. Trusts(st) => log = {} /\ hookLog = {}
  BY <1>1 DEF IInv, LogsAreClear
<1> HIDE DEF st
<1>4. st.resets \/ Trusts(st) => log' = {} /\ hookLog' = {}
  BY <1>1, <1>3 DEF Reset
<1>5. st.reads = "hooks" => log' = {} /\ hookLog' = {}
  <2>1. st.resets \in BOOLEAN
    BY <1>2 DEF Stage
  <2> QED BY <1>4, <2>1 DEF Trusts
<1>6. LogsAreClear'
  BY <1>1, <1>2, <1>4 DEF LogsAreClear, Clears
<1>7. CallLedger'
  <2>1. stageNo \in Nat /\ armed \in Nat /\ stageNo' \in Nat /\ stageNo' > 0
    BY <1>1 DEF IInv, CallLedger
  <2>2. armed' \in Nat
    BY <1>1, <2>1 DEF Arm, PrepareToolCall
  <2>3. Judges' => st.arms \in {"always", "if offered"} \/ (st.arms = "for hooks" /\ harness.tools)
    BY <1>1, <1>2 DEF Judges, Arming
  <2>4. Judges' => armed' = stageNo' /\ toolCallServed' = FALSE
    BY <1>1, <2>3 DEF Arm, PrepareToolCall
  <2>5. handed' # stageNo'
    BY <1>1, <2>1
  <2> QED BY <1>1, <2>1, <2>2, <2>4, <2>5 DEF CallLedger
<1>8. LogLedger'
  BY <1>1, <1>5 DEF LogLedger
<1>9. \A t \in Tag : verdict'[t] = "none"
  BY <1>1 DEF NoVerdict
<1>10. ToolVerdictIsTrue'
  BY <1>9 DEF ToolVerdictIsTrue, Tag
<1>11. HookLedger'
  BY <1>1, <1>5, <1>9 DEF IInv, HookLedger, OnlyTheLog, PassIsOwn
<1> QED BY <1>6, <1>7, <1>8, <1>10, <1>11 DEF IInv

LEMMA SkipDeferredStep == IInv /\ SkipDeferred => IInv'
<1> SUFFICES ASSUME IInv, SkipDeferred PROVE IInv'
  OBVIOUS
<1>1. /\ pc = "next" /\ todo # << >> /\ todo' = Tail(todo) /\ Head(todo).arms = "if offered"
      /\ UNCHANGED <<command, harness, stage, stageNo, pc, lastOutput, stripped, armed,
                     toolCallServed, log, hookLog, fired, handed, verdict>>
  BY DEF SkipDeferred, serverVars, fileVars, historyVars
<1>2. InOrder(todo') /\ (todo' # << >> => ~Trusts(Head(todo')))
  BY <1>1, TailInOrder DEF IInv, LogsAreClear, Clears
<1>3. LogsAreClear'
  BY <1>1, <1>2 DEF IInv, LogsAreClear
<1>4. CallLedger' /\ LogLedger' /\ ToolVerdictIsTrue'
  BY <1>1 DEF IInv, CallLedger, LogLedger, UnderWay, Judges, ToolVerdictIsTrue
<1>5. HookLedger'
  BY <1>1 DEF IInv, HookLedger, OnlyTheLog, UnderWay, PassIsOwn
<1> QED BY <1>3, <1>4, <1>5 DEF IInv

(* The agent of the stage under way.                                       *)
LEMMA RequestStep == IInv /\ Request => IInv'
<1> SUFFICES ASSUME IInv, Request PROVE IInv'
  OBVIOUS
<1>1. /\ pc = "run" /\ log' = log \cup {stageNo}
      /\ UNCHANGED <<command, harness, todo, stage, stageNo, pc, lastOutput, stripped, hookLog,
                     fired, verdict>>
      /\ \/ UNCHANGED <<armed, toolCallServed, handed>>
         \/ armed # 0 /\ armed' = 0 /\ toolCallServed' = TRUE /\ handed' = armed
  BY DEF Request, runnerVars, fileVars
<1>2. LogsAreClear'
  BY <1>1 DEF IInv, LogsAreClear
<1>3. CallLedger'
  BY <1>1 DEF IInv, CallLedger, UnderWay, Judges
<1>4. LogLedger'
  BY <1>1 DEF IInv, LogLedger, UnderWay
<1>5. verdict = NoVerdict
  BY <1>1 DEF IInv, CallLedger, UnderWay
<1>6. ToolVerdictIsTrue'
  BY <1>1, <1>5 DEF ToolVerdictIsTrue, NoVerdict, Tag
<1>7. HookLedger'
  BY <1>1 DEF IInv, HookLedger, OnlyTheLog, UnderWay, PassIsOwn
<1> QED BY <1>2, <1>3, <1>4, <1>6, <1>7 DEF IInv

LEMMA HookStep == IInv /\ Hook => IInv'
<1> SUFFICES ASSUME IInv, Hook PROVE IInv'
  OBVIOUS
<1>1. /\ pc = "run"
      /\ UNCHANGED <<command, harness, todo, stage, stageNo, pc, lastOutput, stripped, armed,
                     toolCallServed, log, handed, verdict>>
  BY DEF Hook, runnerVars, serverVars
<1>2. PICK t \in Tag : /\ fired' = fired \cup {t}
                       /\ command.hooks = "mock" => hookLog' = hookLog \cup {t}
  BY DEF Hook
<1>3. LogsAreClear'
  BY <1>1 DEF IInv, LogsAreClear
<1>4. CallLedger' /\ LogLedger' /\ ToolVerdictIsTrue'
  BY <1>1 DEF IInv, CallLedger, LogLedger, UnderWay, Judges, ToolVerdictIsTrue
<1>5. \A u \in Tag : verdict'[u] = "none"
  BY <1>1 DEF IInv, CallLedger, UnderWay, NoVerdict
<1>6. HookLedger'
  BY <1>1, <1>2, <1>5 DEF IInv, HookLedger, OnlyTheLog, UnderWay, PassIsOwn
<1> QED BY <1>3, <1>4, <1>6 DEF IInv

(* The end of the turn and what is read then.                              *)
LEMMA EndRunStep == IInv /\ EndRun => IInv'
<1> SUFFICES ASSUME IInv, EndRun PROVE IInv'
  OBVIOUS
<1>1. /\ pc = "run" /\ pc' \in {"next", "check"}
      /\ lastOutput' \in Captured \/ lastOutput' = lastOutput
      /\ UNCHANGED <<command, harness, todo, stage, stageNo, stripped, armed, toolCallServed, log,
                     hookLog, fired, handed, verdict>>
  <2>1. stage.reads = "nothing" \/ stage.reads = "hooks" \/ stage.reads = "served"
          => pc' \in {"next", "check"}
    BY DEF EndRun
  <2>2. stage.reads \in {"nothing", "hooks", "served"}
    BY DEF IInv, LogsAreClear, Stage
  <2> QED BY <2>1, <2>2 DEF EndRun, serverVars, fileVars, historyVars
<1>2. UnderWay /\ (UnderWay' => UnderWay)
  BY <1>1 DEF UnderWay
<1>3. LogsAreClear'
  BY <1>1 DEF IInv, LogsAreClear
<1>4. CallLedger' /\ LogLedger' /\ ToolVerdictIsTrue'
  BY <1>1, <1>2 DEF IInv, CallLedger, LogLedger, Judges, ToolVerdictIsTrue
<1>5. HookLedger'
  BY <1>1, <1>2 DEF IInv, HookLedger, OnlyTheLog, PassIsOwn, Captured
<1> QED BY <1>3, <1>4, <1>5 DEF IInv

LEMMA RunChecksStep == IInv /\ RunChecks => IInv'
<1> SUFFICES ASSUME IInv, RunChecks PROVE IInv'
  OBVIOUS
<1>1. /\ pc = "check" /\ stage.reads = "hooks" /\ pc' = "next" /\ Strip
      /\ verdict' = [t \in Tag |-> IF t \in Events THEN Verdict(t) ELSE "none"]
      /\ UNCHANGED <<command, harness, todo, stage, stageNo, lastOutput, armed, toolCallServed,
                     log, hookLog, fired, handed>>
  BY DEF RunChecks, serverVars, fileVars
<1>2. LogsAreClear'
  BY <1>1 DEF IInv, LogsAreClear
<1>3. CallLedger' /\ LogLedger'
  BY <1>1 DEF IInv, CallLedger, LogLedger, UnderWay
<1>4. ToolVerdictIsTrue'
  <2>1. "tool" \in Events => (toolCallServed <=> handed = stageNo)
    BY <1>1 DEF Events, IInv, CallLedger, UnderWay, Judges
  <2>2. verdict'["tool"] = IF "tool" \in Events THEN Verdict("tool") ELSE "none"
    BY <1>1 DEF Tag
  <2>3. Verdict("tool") = "tool-not-offered" => ~toolCallServed
    BY DEF Verdict
  <2>4. Verdict("tool") \in {"fail", "tool-offered"} => toolCallServed
    BY DEF Verdict
  <2> QED BY <1>1, <2>1, <2>2, <2>3, <2>4 DEF ToolVerdictIsTrue
<1>5. HookLedger'
  <2> SUFFICES ASSUME OnlyTheLog
               PROVE  /\ lastOutput' = {} /\ (stripped' = << >> \/ stripped' = <<{}>>)
                      /\ PassIsOwn'
    BY <1>1 DEF HookLedger, OnlyTheLog, UnderWay
  <2>1. /\ lastOutput = {} /\ (stripped = << >> \/ stripped = <<{}>>) /\ hookLog = fired
    BY <1>1 DEF IInv, HookLedger, UnderWay
  <2>2. stripped' = <<{}>>
    BY <1>1, <2>1 DEF Strip
  <2>3. \A t \in Tag : HookSeen(t) <=> t \in fired
    BY <2>1, <2>2 DEF HookSeen, OnlyTheLog
  <2>4. \A t \in Tag : Verdict(t) = "pass" <=> HookSeen(t)
    BY DEF Verdict
  <2>5. \A t \in Tag : verdict'[t] # "none" => (verdict'[t] = "pass" <=> t \in fired)
    BY <1>1, <2>3, <2>4
  <2> QED BY <1>1, <2>1, <2>2, <2>5 DEF PassIsOwn
<1> QED BY <1>2, <1>3, <1>4, <1>5 DEF IInv

LEMMA ReadServedStep == IInv /\ ReadServed => IInv'
<1> SUFFICES ASSUME IInv, ReadServed PROVE IInv'
  OBVIOUS
<1>1. /\ pc = "check" /\ stage.reads = "served" /\ pc' = "next"
      /\ UNCHANGED <<command, harness, todo, stage, stageNo, lastOutput, stripped, armed,
                     toolCallServed, log, hookLog, fired, handed>>
      /\ verdict' = [NoVerdict EXCEPT !["tool"] =
                       IF toolCallServed THEN "tool-offered" ELSE "tool-not-offered"]
  BY DEF ReadServed, serverVars, fileVars
<1>2. LogsAreClear'
  BY <1>1 DEF IInv, LogsAreClear
<1>3. CallLedger' /\ LogLedger'
  BY <1>1 DEF IInv, CallLedger, LogLedger, UnderWay
<1>4. ToolVerdictIsTrue'
  <2>1. toolCallServed <=> handed = stageNo
    BY <1>1 DEF IInv, CallLedger, UnderWay, Judges
  <2>2. verdict'["tool"] = IF toolCallServed THEN "tool-offered" ELSE "tool-not-offered"
    BY <1>1 DEF NoVerdict, Tag
  <2> QED BY <1>1, <2>1, <2>2 DEF ToolVerdictIsTrue
<1>5. HookLedger'
  BY <1>1 DEF IInv, HookLedger, OnlyTheLog, UnderWay, PassIsOwn
<1> QED BY <1>2, <1>3, <1>4, <1>5 DEF IInv

LEMMA StepInv == IInv /\ [Next]_vars => IInv'
<1> SUFFICES ASSUME IInv, [Next]_vars PROVE IInv'
  OBVIOUS
<1>1. CASE UNCHANGED vars
  BY <1>1 DEF vars, runnerVars, serverVars, fileVars, historyVars, IInv, LogsAreClear, CallLedger,
     LogLedger, HookLedger, OnlyTheLog, UnderWay, Judges, PassIsOwn, ToolVerdictIsTrue
<1>2. CASE Finished
  BY <1>1, <1>2 DEF Finished
<1> QED BY <1>1, <1>2, NextAgentStep, BeginStageStep, SkipDeferredStep, RequestStep, HookStep,
        EndRunStep, RunChecksStep, ReadServedStep DEF Next

THEOREM Invariance == Spec => []IInv
<1> QED BY InitInv, StepInv, PTL DEF Spec

(* runChecks: the requests a checked stage reads are its own turn's,       *)
(* whatever stages and agents came before it.                              *)
THEOREM LogsAreOwn == Spec => []LogIsOwn
<1>1. IInv => LogIsOwn
  BY DEF IInv, LogLedger, UnderWay, LogIsOwn
<1> QED BY <1>1, Invariance, PTL

(* reportEvent, probeDeferredTools, probeToolCallInFlight: a verdict that  *)
(* hangs on ToolCallServed is about the call this stage armed.             *)
THEOREM ToolVerdictTrue == Spec => []ToolVerdictIsTrue
<1>1. IInv => ToolVerdictIsTrue
  BY DEF IInv
<1> QED BY <1>1, Invariance, PTL

(* checkHookEvents: with the suite's own hooks and agents that print no    *)
(* lines for them, an event passes exactly if this stage's agent fired it. *)
THEOREM PassOwn == Spec => [](OnlyTheLog => PassIsOwn)
<1>1. IInv => (OnlyTheLog => PassIsOwn)
  BY DEF IInv, HookLedger
<1> QED BY <1>1, Invariance, PTL

---------------------------------------------------------------------------
(* The domains.                                                            *)
Names ==
  /\ command \in Invocations
  /\ agentNo \in 0 .. MaxAgents /\ harness \in Harness
  /\ pc \in {"next", "run", "check"}
  /\ lastOutput \subseteq Tag /\ stripped \in {<< >>} \cup {<<s>> : s \in SUBSET Tag}
  /\ toolCallServed \in BOOLEAN
  /\ hookLog \subseteq Tag /\ beltLog \subseteq Tag /\ fired \subseteq Tag

Numbers ==
  /\ stageNo \in Nat /\ armed \in 0 .. stageNo /\ handed \in 0 .. stageNo
  /\ log \subseteq 1 .. stageNo

Results ==
  /\ results \in Seq(SUBSET Verdicts) /\ Len(results) = agentNo
  /\ verdict \in [Tag -> Verdicts]

Domains == Names /\ Numbers /\ Results

LEMMA NoVerdictType == NoVerdict \in [Tag -> Verdicts]
  BY DEF NoVerdict, Verdicts

LEMMA DomainsInit == Init => Domains
<1> SUFFICES ASSUME Init PROVE Domains
  OBVIOUS
<1>1. Names
  <2>1. agentNo \in 0 .. MaxAgents
    BY AgentsAssumption DEF Init
  <2>2. hookLog \subseteq Tag /\ beltLog \subseteq Tag /\ fired \subseteq Tag
    BY DEF Init
  <2>3. lastOutput \subseteq Tag /\ stripped \in {<< >>} \cup {<<s>> : s \in SUBSET Tag}
    BY DEF Init
  <2>4. command \in Invocations /\ harness \in Harness
    BY Zenon DEF Init
  <2>5. pc \in {"next", "run", "check"} /\ toolCallServed \in BOOLEAN
    BY DEF Init
  <2> QED BY <2>1, <2>2, <2>3, <2>4, <2>5, Zenon DEF Names
<1>2. Numbers
  BY DEF Init, Numbers
<1>3. Results
  <2>1. results = << >> /\ agentNo = 0 /\ verdict = NoVerdict
    BY DEF Init
  <2> QED BY <2>1, NoVerdictType DEF Results
<1> QED BY <1>1, <1>2, <1>3 DEF Domains

LEMMA NamesStep ==
  ASSUME LogsAreClear, Names, Next
  PROVE  Names'
<1> USE DEF Names, runnerVars, serverVars, fileVars, historyVars
<1>1. CASE NextAgent
  BY <1>1, AgentsAssumption DEF NextAgent
<1>2. CASE BeginStage
  <2>1. toolCallServed' \in BOOLEAN
    BY <1>2 DEF BeginStage, Arm, PrepareToolCall
  <2>2. hookLog' \subseteq Tag
    BY <1>2 DEF BeginStage, Reset
  <2>3. pc' \in {"next", "run", "check"}
    BY <1>2 DEF BeginStage
  <2> QED BY <1>2, <2>1, <2>2, <2>3 DEF BeginStage
<1>3. CASE SkipDeferred
  BY <1>3 DEF SkipDeferred
<1>4. CASE Request
  BY <1>4 DEF Request
<1>5. CASE Hook
  BY <1>5 DEF Hook
<1>6. CASE EndRun
  <2>1. lastOutput' \subseteq Tag
    BY <1>6 DEF EndRun, Captured
  <2>2. stage.reads \in {"nothing", "hooks", "served"}
    BY DEF LogsAreClear, Stage
  <2>3. pc' \in {"next", "run", "check"}
    BY <1>6, <2>2 DEF EndRun
  <2> QED BY <1>6, <2>1, <2>3 DEF EndRun
<1>7. CASE RunChecks
  <2>1. stripped' \in {<< >>} \cup {<<s>> : s \in SUBSET Tag}
    BY <1>7 DEF RunChecks, Strip
  <2> QED BY <1>7, <2>1 DEF RunChecks
<1>8. CASE ReadServed
  BY <1>8 DEF ReadServed
<1>9. CASE Finished
  BY <1>9 DEF Finished, vars
<1> QED BY <1>1, <1>2, <1>3, <1>4, <1>5, <1>6, <1>7, <1>8, <1>9 DEF Next

LEMMA NumbersStep ==
  ASSUME CallLedger, Numbers, Next
  PROVE  Numbers'
<1> USE DEF Numbers, runnerVars, serverVars, fileVars, historyVars
<1>1. CASE BeginStage
  <2>1. stageNo' = stageNo + 1 /\ handed' = 0
    BY <1>1 DEF BeginStage
  <2>2. armed' \in {armed, stageNo + 1} /\ log' \in {log, {}}
    BY <1>1 DEF BeginStage, Arm, PrepareToolCall, Reset
  <2> QED BY <2>1, <2>2
<1>2. CASE Request
  <2>1. stageNo > 0 /\ log' = log \cup {stageNo} /\ UNCHANGED stageNo
    BY <1>2 DEF Request, CallLedger, UnderWay
  <2>2. armed' \in {0, armed} /\ handed' \in {handed, armed}
    BY <1>2 DEF Request
  <2> QED BY <2>1, <2>2
<1>3. CASE NextAgent \/ SkipDeferred \/ Hook \/ EndRun
  BY <1>3 DEF NextAgent, SkipDeferred, Hook, EndRun
<1>4. CASE RunChecks \/ ReadServed \/ Finished
  BY <1>4 DEF RunChecks, ReadServed, Finished, vars
<1> QED BY <1>1, <1>2, <1>3, <1>4 DEF Next

LEMMA ResultsStep ==
  ASSUME Names, Results, Next
  PROVE  Results'
<1> USE DEF Results, runnerVars, serverVars, fileVars, historyVars
<1>1. CASE NextAgent
  <2>1. PICK r \in {{}, {"fail"}} : results' = Append(results, r)
    BY <1>1 DEF NextAgent
  <2>2. r \in SUBSET Verdicts /\ agentNo' = agentNo + 1 /\ UNCHANGED verdict
    BY <1>1, <2>1 DEF NextAgent, Verdicts
  <2> QED BY <2>1, <2>2
<1>2. CASE BeginStage
  BY <1>2, NoVerdictType DEF BeginStage
<1>3. CASE RunChecks
  <2>1. \A t \in Tag : Verdict(t) \in Verdicts
    BY DEF Verdict, Verdicts
  <2>2. verdict' \in [Tag -> Verdicts]
    BY <1>3, <2>1 DEF RunChecks, Verdicts
  <2> DEFINE said == {verdict'[t] : t \in Events}
  <2>3. said \subseteq Verdicts
    BY <2>2 DEF Events
  <2>4. results' = [results EXCEPT ![agentNo] = @ \cup said] /\ UNCHANGED agentNo
    BY <1>3 DEF RunChecks
  <2> HIDE DEF said
  <2>5. results' \in Seq(SUBSET Verdicts) /\ Len(results') = Len(results)
    <3>1. DOMAIN results = 1 .. Len(results) /\ Len(results) \in Nat
          /\ \A i \in 1 .. Len(results) : results[i] \in SUBSET Verdicts
      OBVIOUS
    <3>2. results' \in [1 .. Len(results) -> SUBSET Verdicts]
      BY <2>3, <2>4, <3>1
    <3> QED BY <3>1, <3>2, SeqDef
  <2> QED BY <2>2, <2>4, <2>5
<1>4. CASE ReadServed
  BY <1>4, NoVerdictType DEF ReadServed, Verdicts, Tag
<1>5. CASE SkipDeferred \/ Request \/ Hook
  BY <1>5 DEF SkipDeferred, Request, Hook
<1>6. CASE EndRun \/ Finished
  BY <1>6 DEF EndRun, Finished, vars
<1> QED BY <1>1, <1>2, <1>3, <1>4, <1>5, <1>6 DEF Next

LEMMA DomainsStep ==
  ASSUME IInv, Domains, [Next]_vars
  PROVE  Domains'
<1>1. CASE Next
  BY <1>1, NamesStep, NumbersStep, ResultsStep DEF IInv, Domains
<1>2. CASE UNCHANGED vars
  BY <1>2 DEF vars, runnerVars, serverVars, fileVars, historyVars, Domains, Names, Numbers, Results
<1> QED BY <1>1, <1>2

(* Every variable keeps to its domain, for any number of agents and any    *)
(* set of command lines.                                                   *)
THEOREM TypeCorrect == Spec => []TypeOK
<1>1. Spec => []Domains
  BY DomainsInit, DomainsStep, Invariance, PTL DEF Spec
<1>2. IInv /\ Domains => TypeOK
  BY DEF IInv, LogsAreClear, InOrder, Domains, Names, Numbers, Results, TypeOK
<1> QED BY <1>1, <1>2, Invariance, PTL

=============================================================================
