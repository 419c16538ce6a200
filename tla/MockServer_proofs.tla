-------------------------- MODULE MockServer_proofs --------------------------
(***************************************************************************)
(* What holds of MockServer for every set of requests, kinds, tools and    *)
(* paths, and every number of armed calls and cleared logs.                *)
(***************************************************************************)
EXTENDS MockServer, FiniteSetTheorems, TLAPS

-----------------------------------------------------------------------------
(***************************************************************************)
(* Handlers                                                                *)
(***************************************************************************)
\* A handler that has recorded its request and marked it goes on to one of the
\* sections below, whatever its protocol.
LEMMA AfterMarkPC == \A k : AfterMark(k) \in {"text", "side", "offer", "decide"}
BY DEF AfterMark

LEMMA AfterRecordPC ==
  \A k : AfterRecord(k) \in {"done", "mark", "text", "side", "offer", "decide"}
BY AfterMarkPC DEF AfterRecord

\* getToolCall always names a tool.
LEMMA CurrentToolIsATool == TypeOK => CurrentTool \in Tool
BY ToolAssumption DEF TypeOK, CurrentTool

\* A mark leaves the log an equally long log of the same requests.
LEMMA MarkKeepsEntries ==
  ASSUME TypeOK, NEW r \in Request, MarkStreamed(r)
  PROVE  /\ log' \in Seq(Entry)
         /\ Len(log') = Len(log)
         /\ \A i \in 1 .. Len(log) : log'[i].req = log[i].req
<1>1. CASE idx[r] \in DOMAIN log
  <2>1. log' = [log EXCEPT ![idx[r]].streamed = TRUE]
    BY <1>1 DEF MarkStreamed
  <2>2. /\ log \in Seq(Entry)
        /\ idx[r] \in 1 .. Len(log)
        /\ log[idx[r]] \in Entry
    BY <1>1 DEF TypeOK
  <2>3. [log[idx[r]] EXCEPT !.streamed = TRUE] \in Entry
    BY <2>2 DEF Entry
  <2>4. /\ log' \in Seq(Entry)
        /\ Len(log') = Len(log)
    BY <2>1, <2>2, <2>3
  <2>5. ASSUME NEW i \in 1 .. Len(log) PROVE log'[i].req = log[i].req
    BY <2>1, <2>2 DEF Entry
  <2> QED BY <2>4, <2>5
<1>2. CASE idx[r] \notin DOMAIN log
  BY <1>2 DEF MarkStreamed, TypeOK
<1> QED BY <1>1, <1>2

-----------------------------------------------------------------------------
(***************************************************************************)
(* Type correctness                                                        *)
(***************************************************************************)
LEMMA TypeInit == Init => TypeOK
<1> SUFFICES ASSUME Init PROVE TypeOK
  OBVIOUS
<1>1. \A r \in Request : reply[r] \in {"call", "side"} => called[r] \in Tool
  BY DEF Init
<1>2. /\ log \in Seq(Entry)
      /\ kind \in [Request -> Kind]
      /\ toolName \in Tool \cup {NoTool}
      /\ toolCallPath \in Path \cup {AnyPath}
  BY AgentsAssumption DEF Init
<1>5. toolCallMode \in BOOLEAN /\ toolCallServed \in BOOLEAN
  BY DEF Init
<1>3. /\ answers \in Nat
      /\ pc \in [Request -> PC]
      /\ idx \in [Request -> Nat]
      /\ offered \in [Request -> BOOLEAN]
      /\ reply \in [Request -> {"none", "side", "call", "text", "json"}]
      /\ called \in [Request -> Tool \cup {NoTool}]
  BY DEF Init, PC
<1>4. /\ arms \in Nat
      /\ clears \in Nat
      /\ epoch \in [Request -> Nat]
      /\ grant \in [Request -> Nat]
  BY DEF Init
<1> QED BY <1>1, <1>2, <1>3, <1>4, <1>5 DEF TypeOK

LEMMA TypeStep == TypeOK /\ [Next]_vars => TypeOK'
<1> SUFFICES ASSUME TypeOK, [Next]_vars PROVE TypeOK'
  OBVIOUS
<1> USE DEF Goto, At, PC
<1>1. ASSUME NEW p \in Prepared, PrepareToolCall(p) PROVE TypeOK'
  <2>1. toolCallMode' \in BOOLEAN /\ toolCallServed' \in BOOLEAN
    BY <1>1 DEF PrepareToolCall
  <2>2. toolName' \in Tool \cup {NoTool} /\ toolCallPath' \in Path \cup {AnyPath}
    BY <1>1, PreparedAssumption DEF PrepareToolCall
  <2> QED BY <1>1, <2>1, <2>2 DEF PrepareToolCall, TypeOK, requestVars
<1>2. CASE ClearLog
  BY <1>2 DEF ClearLog, TypeOK, requestVars
<1>3. ASSUME NEW r \in Request, Record(r) PROVE TypeOK'
  <2>1. [req |-> r, streamed |-> FALSE] \in Entry
    BY DEF Entry
  <2>2. log' \in Seq(Entry)
    BY <1>3, <2>1 DEF Record, TypeOK
  <2>3. pc' \in [Request -> PC]
    BY <1>3, AfterRecordPC DEF Record, TypeOK
  <2> QED BY <1>3, <2>2, <2>3 DEF Record, NewIndex, TypeOK
<1>4. ASSUME NEW r \in Request, MarkFirst(r) PROVE TypeOK'
  <2>1. pc' \in [Request -> PC]
    BY <1>4, AfterMarkPC DEF MarkFirst, TypeOK
  <2>2. log' \in Seq(Entry)
    BY <1>4, MarkKeepsEntries DEF MarkFirst
  <2> QED BY <1>4, <2>1, <2>2 DEF MarkFirst, TypeOK, historyVars
<1>5. ASSUME NEW r \in Request, SideCall(r) PROVE TypeOK'
  <2>1. kind[r].tools \subseteq Tool
    BY KindAssumption DEF TypeOK
  <2>2. CASE kind[r].tools # {CurrentTool}
    <3>1. PICK t \in kind[r].tools : called' = [called EXCEPT ![r] = t]
      BY <1>5, <2>2 DEF SideCall
    <3> QED BY <1>5, <2>1, <2>2, <3>1 DEF SideCall, TypeOK, serverVars, historyVars
  <2>3. CASE kind[r].tools = {CurrentTool}
    BY <1>5, <2>3 DEF SideCall, TypeOK, serverVars, historyVars
  <2> QED BY <2>2, <2>3
<1>6. ASSUME NEW r \in Request, BodyOffersTool(r) PROVE TypeOK'
  BY <1>6 DEF BodyOffersTool, OffersTool, TypeOK, serverVars, historyVars
<1>7. ASSUME NEW r \in Request, ShouldToolCall(r) PROVE TypeOK'
  <2>1. toolCallMode' \in BOOLEAN /\ toolCallServed' \in BOOLEAN
    BY <1>7 DEF ShouldToolCall, TakeToolCall, TypeOK
  <2>2. grant' \in [Request -> Nat] /\ pc' \in [Request -> PC]
    <3>1. grant' = [grant EXCEPT ![r] = arms] \/ grant' = grant
      BY <1>7 DEF ShouldToolCall, TakeToolCall
    <3>2. \E label \in {"callmark", "call", "text"} : pc' = [pc EXCEPT ![r] = label]
      BY <1>7 DEF ShouldToolCall
    <3> QED BY <3>1, <3>2 DEF TypeOK
  <2> QED BY <1>7, <2>1, <2>2 DEF ShouldToolCall, TypeOK
<1>8. ASSUME NEW r \in Request, MarkCall(r) PROVE TypeOK'
  <2>1. log' \in Seq(Entry)
    BY <1>8, MarkKeepsEntries DEF MarkCall
  <2> QED BY <1>8, <2>1 DEF MarkCall, TypeOK, historyVars
<1>9. ASSUME NEW r \in Request, AnswerCall(r) PROVE TypeOK'
  BY <1>9, CurrentToolIsATool DEF AnswerCall, TypeOK, serverVars, historyVars
<1>10. ASSUME NEW r \in Request, AnswerText(r) PROVE TypeOK'
  BY <1>10 DEF AnswerText, CountAnswer, TypeOK, historyVars
<1>11. ASSUME NEW r \in Request, MarkText(r) PROVE TypeOK'
  <2>1. log' \in Seq(Entry)
    BY <1>11, MarkKeepsEntries DEF MarkText
  <2> QED BY <1>11, <2>1 DEF MarkText, TypeOK, historyVars
<1>12. CASE UNCHANGED vars
  BY <1>12 DEF TypeOK, vars, serverVars, requestVars, historyVars
<1> QED
  BY <1>1, <1>2, <1>3, <1>4, <1>5, <1>6, <1>7, <1>8, <1>9, <1>10, <1>11, <1>12
     DEF Next, Runner, Handle

\* Every variable keeps to its domain, and a function call always names a tool.
THEOREM TypeCorrect == Spec => []TypeOK
BY TypeInit, TypeStep, PTL DEF Spec

-----------------------------------------------------------------------------
(***************************************************************************)
(* The prepared call                                                       *)
(***************************************************************************)
\* What most steps do to the prepared call: nothing, while no handler goes back
\* to before its decision.
CallUntouched ==
  /\ UNCHANGED <<toolCallMode, toolCallServed, arms, grant>>
  /\ \A r \in Request : pc'[r] \in Undecided => pc[r] \in Undecided

LEMMA UntouchedKeepsLedger == GrantLedger /\ CallUntouched => GrantLedger'
BY DEF GrantLedger, OneCallPerArm, ServedIsOfLastArm, CallUntouched

\* Every step of a handler but shouldToolCall leaves the prepared call alone.
LEMMA HandlersLeaveTheCall ==
  ASSUME TypeOK, NEW r \in Request,
         \/ Record(r) \/ MarkFirst(r) \/ SideCall(r) \/ BodyOffersTool(r)
         \/ MarkCall(r) \/ AnswerCall(r) \/ AnswerText(r) \/ MarkText(r)
  PROVE  CallUntouched
<1>1. UNCHANGED <<toolCallMode, toolCallServed, arms, grant>>
  BY DEF Record, MarkFirst, SideCall, BodyOffersTool, MarkCall, AnswerCall,
         AnswerText, MarkText, serverVars, historyVars
<1>2. \E label : pc' = [pc EXCEPT ![r] = label]
                 /\ (label \in Undecided => pc[r] \in Undecided)
  BY DEF Record, MarkFirst, SideCall, BodyOffersTool, MarkCall, AnswerCall,
         AnswerText, MarkText, Goto, At, Undecided
<1> QED BY <1>1, <1>2 DEF CallUntouched, TypeOK

\* shouldToolCall gives the armed call to the one request that asked.
LEMMA DecisionKeepsLedger ==
  ASSUME TypeOK, GrantLedger, NEW r \in Request, ShouldToolCall(r)
  PROVE  GrantLedger'
<1>1. pc[r] = "decide" /\ grant[r] = 0
  BY DEF ShouldToolCall, At, GrantLedger, Undecided
<1>2. CASE Grants(offered[r], kind[r].path)
  <2>1. toolCallMode /\ arms > 0 /\ ~toolCallServed
    BY <1>2 DEF Grants, GrantLedger, ServedIsOfLastArm
  <2>2. \A s \in Request : grant[s] < arms
    BY <2>1 DEF GrantLedger, ServedIsOfLastArm, TypeOK
  <2>3. /\ grant' = [grant EXCEPT ![r] = arms]
        /\ arms' = arms
        /\ ~toolCallMode' /\ toolCallServed'
    BY <1>2 DEF ShouldToolCall, TakeToolCall
  <2>4. pc'[r] \notin Undecided /\ \A s \in Request \ {r} : pc'[s] = pc[s]
    BY <1>2 DEF ShouldToolCall, Goto, TypeOK, Undecided
  <2>5. OneCallPerArm'
    BY <2>2, <2>3 DEF GrantLedger, OneCallPerArm, TypeOK
  <2>6. ServedIsOfLastArm'
    BY <2>1, <2>3 DEF ServedIsOfLastArm, TypeOK
  <2>7. \A s \in Request : grant'[s] <= arms'
    BY <2>2, <2>3 DEF TypeOK
  <2>8. \A s \in Request : pc'[s] \in Undecided => grant'[s] = 0
    BY <2>3, <2>4 DEF GrantLedger, TypeOK
  <2> QED BY <2>3, <2>5, <2>6, <2>7, <2>8 DEF GrantLedger
<1>3. CASE ~Grants(offered[r], kind[r].path)
  <2>1. pc' = [pc EXCEPT ![r] = "text"]
    BY <1>3 DEF ShouldToolCall, Goto
  <2>2. UNCHANGED <<toolCallMode, toolCallServed, arms, grant>>
    BY <1>3 DEF ShouldToolCall
  <2> QED BY <2>1, <2>2, UntouchedKeepsLedger DEF CallUntouched, TypeOK, Undecided
<1> QED BY <1>2, <1>3

LEMMA LedgerStep == TypeOK /\ GrantLedger /\ [Next]_vars => GrantLedger'
<1> SUFFICES ASSUME TypeOK, GrantLedger, [Next]_vars PROVE GrantLedger'
  OBVIOUS
<1>1. ASSUME NEW p \in Prepared, PrepareToolCall(p) PROVE GrantLedger'
  <2>1. /\ arms' = arms + 1
        /\ toolCallMode' /\ ~toolCallServed'
        /\ UNCHANGED <<pc, grant>>
    BY <1>1 DEF PrepareToolCall, requestVars
  <2>2. \A r \in Request : grant'[r] < arms'
    BY <2>1 DEF GrantLedger, TypeOK
  <2>3. arms' > 0
    BY <2>1 DEF TypeOK
  <2>4. ServedIsOfLastArm'
    BY <2>1, <2>2, <2>3 DEF ServedIsOfLastArm, TypeOK
  <2> QED BY <2>1, <2>2, <2>3, <2>4 DEF GrantLedger, OneCallPerArm, TypeOK
<1>2. CASE ClearLog
  BY <1>2, UntouchedKeepsLedger DEF ClearLog, requestVars, CallUntouched
<1>3. ASSUME NEW r \in Request, Handle(r) PROVE GrantLedger'
  BY <1>3, HandlersLeaveTheCall, UntouchedKeepsLedger, DecisionKeepsLedger DEF Handle
<1>4. CASE UNCHANGED vars
  BY <1>4, UntouchedKeepsLedger
     DEF vars, serverVars, requestVars, historyVars, CallUntouched
<1> QED BY <1>1, <1>2, <1>3, <1>4 DEF Next, Runner

LEMMA LedgerInit == Init => GrantLedger
BY DEF Init, GrantLedger, OneCallPerArm, ServedIsOfLastArm

THEOREM LedgerCorrect == Spec => []GrantLedger
BY LedgerInit, LedgerStep, TypeCorrect, PTL DEF Spec

\* A prepared call reaches at most one request, whatever requests arrive and
\* however their handlers interleave with each other and with the runner.
THEOREM AtMostOneCall == Spec => []OneCallPerArm
<1>1. GrantLedger => OneCallPerArm
  BY DEF GrantLedger
<1> QED BY <1>1, LedgerCorrect, PTL

-----------------------------------------------------------------------------
(***************************************************************************)
(* The server implements ToolOffer                                         *)
(***************************************************************************)
OfferState == IF toolCallMode THEN "armed" ELSE IF toolCallServed THEN "served" ELSE "none"

LEMMA OfferInitMaps == Init => Offer!OfferInit
BY DEF Init, Offer!OfferInit

LEMMA UntouchedMaps == CallUntouched => UNCHANGED Offer!offerVars
BY DEF CallUntouched, Offer!offerVars

LEMMA OfferStepMaps ==
  TypeOK /\ GrantLedger /\ [Next]_vars => [Offer!OfferNext]_(Offer!offerVars)
<1> SUFFICES ASSUME TypeOK, GrantLedger, [Next]_vars
             PROVE  [Offer!OfferNext]_(Offer!offerVars)
  OBVIOUS
<1>1. ASSUME NEW p \in Prepared, PrepareToolCall(p) PROVE Offer!Arm
  BY <1>1 DEF PrepareToolCall, Offer!Arm
<1>2. CASE ClearLog
  BY <1>2, UntouchedMaps DEF ClearLog, requestVars, CallUntouched
<1>3. ASSUME NEW r \in Request, ShouldToolCall(r)
      PROVE  Offer!Take(r) \/ UNCHANGED Offer!offerVars
  <2>1. CASE Grants(offered[r], kind[r].path)
    <3>1. toolCallMode /\ grant[r] = 0
      BY <1>3, <2>1 DEF ShouldToolCall, At, Grants, GrantLedger, Undecided
    <3>2. /\ ~toolCallMode' /\ toolCallServed'
          /\ grant' = [grant EXCEPT ![r] = arms]
          /\ arms' = arms
      BY <1>3, <2>1 DEF ShouldToolCall, TakeToolCall
    <3> QED BY <3>1, <3>2 DEF Offer!Take
  <2>2. CASE ~Grants(offered[r], kind[r].path)
    BY <1>3, <2>2 DEF ShouldToolCall, Offer!offerVars
  <2> QED BY <2>1, <2>2
<1>4. ASSUME NEW r \in Request, Handle(r)
      PROVE  Offer!Take(r) \/ UNCHANGED Offer!offerVars
  BY <1>3, <1>4, HandlersLeaveTheCall, UntouchedMaps DEF Handle
<1>5. CASE UNCHANGED vars
  BY <1>5 DEF vars, serverVars, historyVars, Offer!offerVars
<1> QED BY <1>1, <1>2, <1>4, <1>5 DEF Next, Runner, Offer!OfferNext

\* Whatever the handlers do in between, the prepared call is armed, taken by one
\* request or replaced, and nothing else: the server implements ToolOffer.
THEOREM ImplementsToolOffer == Spec => OfferSpec
BY OfferInitMaps, OfferStepMaps, TypeCorrect, LedgerCorrect, PTL
   DEF Spec, OfferSpec, Offer!OfferSpec

-----------------------------------------------------------------------------
(***************************************************************************)
(* Log indices                                                             *)
(***************************************************************************)
\* Every step keeps a recorded request's index its own, unless it clears the log.
LEMMA IndexInit == Init => IndexLedger
BY DEF Init, IndexLedger, IndexIsOwn

LEMMA IndexStep == TypeOK /\ IndexLedger /\ [Next]_vars => IndexLedger'
<1> SUFFICES ASSUME TypeOK, IndexLedger, [Next]_vars PROVE IndexLedger'
  OBVIOUS
\* A step that records nothing and keeps the requests of the log.
<1>1. ASSUME /\ UNCHANGED <<idx, epoch, clears>>
             /\ Len(log') = Len(log) /\ log' \in Seq(Entry)
             /\ \A i \in 1 .. Len(log) : log'[i].req = log[i].req
             /\ \A r \in Request : pc'[r] # "idle" => pc[r] # "idle"
      PROVE  IndexLedger'
  <2>1. DOMAIN log' = 1 .. Len(log) /\ DOMAIN log = 1 .. Len(log)
    BY <1>1 DEF TypeOK
  <2>2. ASSUME NEW r \in Request, pc'[r] # "idle", epoch'[r] = clears'
        PROVE  idx'[r] \in DOMAIN log' /\ log'[idx'[r]].req = r
    <3>1. pc[r] # "idle" /\ epoch[r] = clears
      BY <1>1, <2>2
    <3>2. idx[r] \in DOMAIN log /\ log[idx[r]].req = r
      BY <3>1 DEF IndexLedger, IndexIsOwn
    <3> QED BY <1>1, <2>1, <3>2
  <2>3. \A r \in Request : epoch'[r] <= clears'
    BY <1>1 DEF IndexLedger
  <2> QED BY <2>2, <2>3 DEF IndexLedger, IndexIsOwn
<1>2. ASSUME NEW p \in Prepared, PrepareToolCall(p) PROVE IndexLedger'
  BY <1>2 DEF PrepareToolCall, requestVars, IndexLedger, IndexIsOwn
<1>3. CASE ClearLog
  <2>1. clears' = clears + 1 /\ UNCHANGED epoch
    BY <1>3 DEF ClearLog
  <2>2. \A r \in Request : epoch'[r] < clears'
    BY <2>1 DEF IndexLedger, TypeOK
  <2> QED BY <2>1, <2>2 DEF IndexLedger, IndexIsOwn, TypeOK
<1>4. ASSUME NEW r \in Request, Record(r) PROVE IndexLedger'
  <2>1. /\ log' = Append(log, [req |-> r, streamed |-> FALSE])
        /\ idx' = [idx EXCEPT ![r] = Len(log) + 1]
        /\ epoch' = [epoch EXCEPT ![r] = clears]
        /\ \A s \in Request \ {r} : pc'[s] = pc[s]
        /\ clears' = clears
    BY <1>4 DEF Record, NewIndex, Goto, TypeOK
  <2>2. /\ Len(log') = Len(log) + 1
        /\ log'[Len(log) + 1].req = r
        /\ \A i \in 1 .. Len(log) : log'[i] = log[i]
        /\ DOMAIN log' = 1 .. Len(log')
    BY <2>1 DEF TypeOK, Entry
  <2>3. ASSUME NEW s \in Request, pc'[s] # "idle", epoch'[s] = clears'
        PROVE  idx'[s] \in DOMAIN log' /\ log'[idx'[s]].req = s
    <3>1. CASE s = r
      BY <2>1, <2>2, <3>1 DEF TypeOK
    <3>2. CASE s # r
      <4>1. idx[s] \in 1 .. Len(log) /\ log[idx[s]].req = s
        BY <2>1, <2>3, <3>2 DEF IndexLedger, IndexIsOwn, TypeOK
      <4> QED BY <2>1, <2>2, <3>2, <4>1 DEF TypeOK
    <3> QED BY <3>1, <3>2
  <2>4. \A s \in Request : epoch'[s] <= clears'
    BY <2>1 DEF IndexLedger, TypeOK
  <2> QED BY <2>3, <2>4 DEF IndexLedger, IndexIsOwn
<1>5. ASSUME NEW r \in Request, MarkFirst(r) \/ MarkCall(r) \/ MarkText(r)
      PROVE  IndexLedger'
  <2>1. /\ MarkStreamed(r) /\ UNCHANGED <<idx, epoch, clears>>
        /\ pc[r] # "idle"
        /\ \A s \in Request \ {r} : pc'[s] = pc[s]
    BY <1>5 DEF MarkFirst, MarkCall, MarkText, historyVars, At, Goto, TypeOK
  <2>2. \A s \in Request : pc'[s] # "idle" => pc[s] # "idle"
    BY <2>1
  <2> QED BY <1>1, <2>1, <2>2, MarkKeepsEntries
<1>6. ASSUME NEW r \in Request,
             \/ SideCall(r) \/ BodyOffersTool(r) \/ ShouldToolCall(r)
             \/ AnswerCall(r) \/ AnswerText(r)
      PROVE  IndexLedger'
  <2>1. /\ UNCHANGED <<log, idx, epoch, clears>>
        /\ pc[r] # "idle"
        /\ \A s \in Request \ {r} : pc'[s] = pc[s]
    BY <1>6 DEF SideCall, BodyOffersTool, ShouldToolCall, AnswerCall, AnswerText,
                serverVars, historyVars, At, Goto, TypeOK
  <2>2. \A s \in Request : pc'[s] # "idle" => pc[s] # "idle"
    BY <2>1
  <2>3. /\ Len(log') = Len(log) /\ log' \in Seq(Entry)
        /\ \A i \in 1 .. Len(log) : log'[i].req = log[i].req
    BY <2>1 DEF TypeOK
  <2> QED BY <1>1, <2>1, <2>2, <2>3
<1>7. CASE UNCHANGED vars
  BY <1>7 DEF vars, serverVars, requestVars, historyVars, IndexLedger, IndexIsOwn
<1> QED BY <1>2, <1>3, <1>4, <1>5, <1>6, <1>7 DEF Next, Runner, Handle

\* Between two clears a handler's index is its own entry's, so a mark lands on
\* the request it is about.
THEOREM IndicesAreOwn == Spec => []IndexIsOwn
<1>1. IndexLedger => IndexIsOwn
  BY DEF IndexLedger
<1> QED BY <1>1, IndexInit, IndexStep, TypeCorrect, PTL DEF Spec

-----------------------------------------------------------------------------
(***************************************************************************)
(* The count of answers                                                    *)
(***************************************************************************)
Replied == {r \in Request : reply[r] \in {"text", "json"}}

LEMMA AnswersInit == Init => AnswersLedger
<1> SUFFICES ASSUME Init PROVE AnswersLedger
  OBVIOUS
<1>1. Replied = {}
  BY DEF Init, Replied
<1>2. Cardinality(Replied) = 0
  BY <1>1, FS_EmptySet
<1> QED BY <1>2 DEF Init, AnswersLedger, AnswersCountReplies, Replied

LEMMA AnswersStep == TypeOK /\ AnswersLedger /\ [Next]_vars => AnswersLedger'
<1> SUFFICES ASSUME TypeOK, AnswersLedger, [Next]_vars PROVE AnswersLedger'
  OBVIOUS
\* A step that answers nobody with text.
<1>1. ASSUME Replied' = Replied, answers' = answers
      PROVE  AnswersCountReplies'
  BY <1>1 DEF AnswersLedger, AnswersCountReplies, Replied
<1>2. ASSUME UNCHANGED <<reply, answers>>,
             \A r \in Request : pc[r] \in {"textmark", "done"}
                                => pc'[r] \in {"textmark", "done"}
      PROVE  AnswersLedger'
  <2>1. Replied' = Replied
    BY <1>2 DEF Replied
  <2> QED BY <1>1, <1>2, <2>1 DEF AnswersLedger
<1>3. ASSUME NEW p \in Prepared, PrepareToolCall(p) PROVE AnswersLedger'
  BY <1>2, <1>3 DEF PrepareToolCall, requestVars
<1>4. CASE ClearLog
  BY <1>2, <1>4 DEF ClearLog, requestVars
<1>5. ASSUME NEW r \in Request,
             \/ Record(r) \/ MarkFirst(r) \/ BodyOffersTool(r)
             \/ ShouldToolCall(r) \/ MarkCall(r) \/ MarkText(r)
      PROVE  AnswersLedger'
  <2>1. UNCHANGED <<reply, answers>>
    BY <1>5 DEF Record, MarkFirst, BodyOffersTool, ShouldToolCall, MarkCall,
                MarkText, serverVars
  <2>2. /\ pc[r] \notin {"textmark", "done"} \/ pc'[r] = "done"
        /\ \A s \in Request \ {r} : pc'[s] = pc[s]
    BY <1>5 DEF Record, MarkFirst, BodyOffersTool, ShouldToolCall, MarkCall,
                MarkText, At, Goto, TypeOK
  <2>3. \A s \in Request : pc[s] \in {"textmark", "done"}
                           => pc'[s] \in {"textmark", "done"}
    BY <2>2
  <2> QED BY <1>2, <2>1, <2>3
\* A step that answers with a call, or looks whether to.
<1>6. ASSUME NEW r \in Request, SideCall(r) \/ AnswerCall(r)
      PROVE  AnswersLedger'
  <2>1. pc[r] \in {"side", "call"} /\ reply[r] = "none"
    BY <1>6 DEF SideCall, AnswerCall, At, AnswersLedger
  <2>2. CASE UNCHANGED reply /\ pc' = [pc EXCEPT ![r] = "offer"]
    <3>1. answers' = answers
      BY <1>6 DEF SideCall, AnswerCall, serverVars
    <3> QED BY <1>2, <2>1, <2>2, <3>1 DEF TypeOK
  <2>3. CASE /\ \/ reply' = [reply EXCEPT ![r] = "side"]
                \/ reply' = [reply EXCEPT ![r] = "call"]
             /\ pc' = [pc EXCEPT ![r] = "done"]
    <3>1. answers' = answers
      BY <1>6 DEF SideCall, AnswerCall, serverVars
    <3>2. Replied' = Replied
      BY <2>1, <2>3 DEF Replied, TypeOK
    <3>3. \A s \in Request : pc'[s] \notin {"textmark", "done"} => reply'[s] = "none"
      BY <2>3 DEF AnswersLedger, TypeOK
    <3> QED BY <1>1, <3>1, <3>2, <3>3 DEF AnswersLedger
  <2> QED BY <1>6, <2>2, <2>3 DEF SideCall, AnswerCall, Goto
<1>7. ASSUME NEW r \in Request, AnswerText(r) PROVE AnswersLedger'
  <2>1. /\ reply[r] = "none" /\ answers' = answers + 1
        /\ pc'[r] \in {"textmark", "done"}
        /\ \A s \in Request \ {r} : pc'[s] = pc[s] /\ reply'[s] = reply[s]
        /\ reply'[r] \in {"text", "json"}
    BY <1>7 DEF AnswerText, At, Goto, CountAnswer, AnswersLedger, TypeOK
  <2>2. r \notin Replied /\ Replied' = Replied \cup {r}
    BY <2>1 DEF Replied
  <2>3. IsFiniteSet(Replied)
    BY RequestAssumption, FS_Subset DEF Replied
  <2>4. Cardinality(Replied') = Cardinality(Replied) + 1
    BY <2>2, <2>3, FS_AddElement
  <2>5. AnswersCountReplies'
    BY <2>1, <2>4 DEF AnswersLedger, AnswersCountReplies, Replied
  <2>6. \A s \in Request : pc'[s] \notin {"textmark", "done"} => reply'[s] = "none"
    BY <2>1 DEF AnswersLedger
  <2> QED BY <2>5, <2>6 DEF AnswersLedger
<1>8. CASE UNCHANGED vars
  BY <1>2, <1>8 DEF vars, serverVars, requestVars
<1> QED BY <1>3, <1>4, <1>5, <1>6, <1>7, <1>8 DEF Next, Runner, Handle

\* AnswersServed is the number of requests answered for the model, however many
\* there are and however they interleave.
THEOREM AnswersAreReplies == Spec => []AnswersCountReplies
<1>1. AnswersLedger => AnswersCountReplies
  BY DEF AnswersLedger
<1> QED BY <1>1, AnswersInit, AnswersStep, TypeCorrect, PTL DEF Spec

-----------------------------------------------------------------------------
(***************************************************************************)
(* Offers                                                                  *)
(***************************************************************************)
LEMMA OfferInit == Init => OfferHolds
BY DEF Init, OfferHolds, AwaitedCallWasOffered

\* Where a handler goes after recording or marking is never straight to the
\* decision, unless it skips the offer.
LEMMA OfferComesFirst ==
  ASSUME NEW k \in Kind, Shape(k).offer
  PROVE  /\ AfterMark(k) \in {"text", "side", "offer"}
         /\ AfterRecord(k) \in {"done", "mark", "text", "side", "offer"}
BY DEF AfterMark, AfterRecord

LEMMA OfferStep == TypeOK /\ OfferHolds /\ [Next]_vars => OfferHolds'
<1> SUFFICES ASSUME TypeOK, OfferHolds, [Next]_vars PROVE OfferHolds'
  OBVIOUS
<1>1. ASSUME NEW p \in Prepared, PrepareToolCall(p) PROVE OfferHolds'
  BY <1>1 DEF PrepareToolCall, Quiet, requestVars, OfferHolds, AwaitedCallWasOffered
<1>2. CASE ClearLog
  BY <1>2 DEF ClearLog, requestVars, OfferHolds, AwaitedCallWasOffered, OffersTool,
              CurrentTool
\* The tool and the kinds stand still while a handler runs; a handler that
\* neither decides nor answers keeps what the others saw.
<1>3. ASSUME NEW r \in Request, UNCHANGED <<toolName, kind>>,
             \A s \in Request \ {r} : /\ pc'[s] = pc[s] /\ offered'[s] = offered[s]
                                      /\ reply'[s] = reply[s] /\ called'[s] = called[s],
             (\/ pc'[r] = "decide" /\ offered'[r]
              \/ pc'[r] \in {"callmark", "call"})
             => (kind[r].awaited /\ Shape(kind[r]).offer => OffersTool(kind[r])),
             reply'[r] = "call" =>
               (kind[r].awaited /\ Shape(kind[r]).offer => called'[r] \in kind[r].tools)
      PROVE  OfferHolds'
  BY <1>3 DEF OfferHolds, AwaitedCallWasOffered, OffersTool, CurrentTool
<1>4. ASSUME NEW r \in Request, Record(r) \/ MarkFirst(r) PROVE OfferHolds'
  <2>1. Shape(kind[r]).offer => pc'[r] \in {"done", "mark", "text", "side", "offer"}
    BY <1>4, OfferComesFirst DEF Record, MarkFirst, Goto, TypeOK
  <2>2. /\ UNCHANGED <<toolName, kind, reply, called>>
        /\ \A s \in Request \ {r} : pc'[s] = pc[s] /\ offered'[s] = offered[s]
    BY <1>4 DEF Record, MarkFirst, Goto, TypeOK
  <2> QED BY <1>3, <2>1, <2>2 DEF OfferHolds, AwaitedCallWasOffered
<1>5. ASSUME NEW r \in Request, SideCall(r) PROVE OfferHolds'
  <2>1. /\ UNCHANGED <<toolName, kind, offered>>
        /\ pc'[r] \in {"done", "offer"}
        /\ \A s \in Request \ {r} : /\ pc'[s] = pc[s] /\ reply'[s] = reply[s]
                                    /\ called'[s] = called[s]
    BY <1>5 DEF SideCall, Goto, TypeOK, serverVars
  <2>2. reply'[r] = "call" => reply[r] = "call" /\ called'[r] = called[r]
    BY <1>5 DEF SideCall, TypeOK
  <2> QED BY <1>3, <2>1, <2>2 DEF OfferHolds, AwaitedCallWasOffered
<1>6. ASSUME NEW r \in Request, BodyOffersTool(r) PROVE OfferHolds'
  <2>1. /\ UNCHANGED <<toolName, kind, reply, called>>
        /\ pc'[r] = "decide" /\ (offered'[r] <=> OffersTool(kind[r]))
        /\ \A s \in Request \ {r} : pc'[s] = pc[s] /\ offered'[s] = offered[s]
    BY <1>6, Zenon DEF BodyOffersTool, Goto, TypeOK, serverVars
  <2> QED BY <1>3, <2>1 DEF OfferHolds, AwaitedCallWasOffered
<1>7. ASSUME NEW r \in Request, ShouldToolCall(r) PROVE OfferHolds'
  <2>1. /\ UNCHANGED <<toolName, kind, offered, reply, called>>
        /\ \A s \in Request \ {r} : pc'[s] = pc[s]
        /\ pc[r] = "decide"
    BY <1>7 DEF ShouldToolCall, At, Goto, TypeOK
  <2>2. pc'[r] = "text" \/ (offered[r] /\ pc'[r] \in {"callmark", "call"})
    BY <1>7 DEF ShouldToolCall, Grants, Goto, TypeOK
  <2> QED BY <1>3, <2>1, <2>2 DEF OfferHolds, AwaitedCallWasOffered
<1>8. ASSUME NEW r \in Request, MarkCall(r) \/ AnswerText(r) \/ MarkText(r)
      PROVE  OfferHolds'
  <2>1. /\ UNCHANGED <<toolName, kind, offered, called>>
        /\ \A s \in Request \ {r} : pc'[s] = pc[s] /\ reply'[s] = reply[s]
        /\ pc'[r] \in {"textmark", "done"} \/ (pc[r] = "callmark" /\ pc'[r] = "call")
        /\ reply'[r] = "call" => reply[r] = "call"
    BY <1>8 DEF MarkCall, AnswerText, MarkText, At, Goto, TypeOK
  <2> QED BY <1>3, <2>1 DEF OfferHolds, AwaitedCallWasOffered
<1>9. ASSUME NEW r \in Request, AnswerCall(r) PROVE OfferHolds'
  <2>1. /\ UNCHANGED <<toolName, kind, offered>>
        /\ pc[r] = "call" /\ pc'[r] = "done" /\ called'[r] = CurrentTool
        /\ \A s \in Request \ {r} : /\ pc'[s] = pc[s] /\ reply'[s] = reply[s]
                                    /\ called'[s] = called[s]
    BY <1>9 DEF AnswerCall, At, Goto, TypeOK, serverVars
  <2>2. kind[r].awaited /\ Shape(kind[r]).offer => CurrentTool \in kind[r].tools
    BY <2>1 DEF OfferHolds, OffersTool
  <2> QED BY <1>3, <2>1, <2>2
<1>10. CASE UNCHANGED vars
  BY <1>10 DEF vars, serverVars, requestVars, OfferHolds, AwaitedCallWasOffered,
               OffersTool, CurrentTool
<1> QED BY <1>1, <1>2, <1>4, <1>5, <1>6, <1>7, <1>8, <1>9, <1>10
        DEF Next, Runner, Handle

\* A request the runner waits for, whose handler asks bodyOffersTool, is never
\* answered with a call of a tool it did not declare.
THEOREM AwaitedCallsAreOffered == Spec => []AwaitedCallWasOffered
<1>1. OfferHolds => AwaitedCallWasOffered
  BY DEF OfferHolds
<1> QED BY <1>1, OfferStep, OfferInit, TypeCorrect, PTL DEF Spec
-----------------------------------------------------------------------------
(***************************************************************************)
(* Streamed marks                                                          *)
(***************************************************************************)
\* The marks a handler has behind it, by where it is and what it answered.
HasMarked(r) ==
  \/ Shape(kind[r]).marksFirst /\ pc[r] # "mark"
  \/ Shape(kind[r]).marksCall /\ (pc[r] = "call" \/ (pc[r] = "done" /\ reply[r] = "call"))
  \/ Shape(kind[r]).marksText /\ pc[r] = "done" /\ reply[r] \in {"text", "json"}

\* A handler is only where its protocol takes it.
Placed(r) ==
  /\ pc[r] \notin {"textmark", "done"} => reply[r] = "none"
  /\ pc[r] = "textmark" => reply[r] \in {"text", "json"}
  /\ pc[r] = "done" /\ reply[r] = "none" => ~Shape(kind[r]).marksFirst
  /\ pc[r] = "mark" => Shape(kind[r]).marksFirst
  /\ pc[r] = "callmark" => Shape(kind[r]).marksCall
  /\ pc[r] = "textmark" => Shape(kind[r]).marksText
  /\ pc[r] = "side" \/ reply[r] = "side" => Shape(kind[r]).side
  /\ pc[r] \in {"side", "offer", "decide", "callmark", "call"} \/ reply[r] = "call"
       => Shape(kind[r]).calls

AllAwaited == \A r \in Request : kind[r].awaited

\* While the runner waits for every request no clear comes between a record and
\* its marks, so an entry and the handler that has its index belong together.
EntryIsOwn ==
  /\ \A r \in Request : pc[r] \notin {"idle", "done"} => epoch[r] = clears
  /\ \A i \in DOMAIN log : pc[log[i].req] # "idle" /\ idx[log[i].req] = i

EntriesAreMarked == \A i \in DOMAIN log : log[i].streamed <=> HasMarked(log[i].req)

StreamLedger ==
  /\ \A r \in Request : Placed(r)
  /\ AllAwaited =>
       /\ EntryIsOwn
       /\ EntriesAreMarked

\* A handler that marks what it streams marks it once and on every way to it.
LEMMA MarksAreExact ==
  ASSUME NEW k \in Kind
  PROVE  /\ Shape(k).marksFirst => ~Shape(k).marksCall /\ ~Shape(k).marksText
         /\ ~Shape(k).answers => ~Shape(k).marksFirst
         /\ Marked(k) => /\ Shape(k).side => Shape(k).marksFirst
                         /\ Shape(k).streamsText
                              <=> Shape(k).marksFirst \/ Shape(k).marksText
                         /\ Shape(k).calls =>
                              (Shape(k).streamsCall
                                 <=> Shape(k).marksFirst \/ Shape(k).marksCall)
BY KindAssumption
   DEF Marked, Shape, ChatShape, MessagesShape, ResponsesShape, GeminiShape, BedrockShape,
       KiroShape, RuntimeShape, StubShape

LEMMA StreamInit == Init => StreamLedger
BY DEF Init, StreamLedger, Placed, EntryIsOwn, EntriesAreMarked

\* Where a handler goes after recording or marking, for the shape it has.
LEMMA NextSection ==
  ASSUME NEW k \in Kind
  PROVE  /\ AfterMark(k) \in {"side", "offer", "decide"} => Shape(k).calls
         /\ AfterMark(k) = "side" => Shape(k).side
         /\ \/ AfterRecord(k) = "done" /\ ~Shape(k).answers
            \/ AfterRecord(k) = "mark" /\ Shape(k).marksFirst
            \/ AfterRecord(k) = AfterMark(k) /\ ~Shape(k).marksFirst
BY DEF AfterMark, AfterRecord

LEMMA PlacedStep ==
  ASSUME TypeOK, \A r \in Request : Placed(r), [Next]_vars
  PROVE  (\A r \in Request : Placed(r))'
<1>1. ASSUME NEW r \in Request, UNCHANGED kind,
             \A s \in Request \ {r} : pc'[s] = pc[s] /\ reply'[s] = reply[s],
             Placed(r)'
      PROVE  (\A s \in Request : Placed(s))'
  BY <1>1 DEF Placed
<1>2. CASE UNCHANGED <<pc, kind, reply>>
  BY <1>2 DEF Placed
<1>3. ASSUME NEW r \in Request, Record(r) PROVE (\A s \in Request : Placed(s))'
  <2>1. /\ UNCHANGED <<kind, reply>> /\ reply[r] = "none"
        /\ pc'[r] = AfterRecord(kind[r]) /\ kind[r] \in Kind
        /\ \A s \in Request \ {r} : pc'[s] = pc[s]
    BY <1>3 DEF Record, At, Goto, Placed, TypeOK
  <2>2. Placed(r)'
    BY <2>1, NextSection, MarksAreExact, AfterMarkPC DEF Placed
  <2> QED BY <1>1, <2>1, <2>2
<1>4. ASSUME NEW r \in Request, MarkFirst(r) PROVE (\A s \in Request : Placed(s))'
  <2>1. /\ UNCHANGED <<kind, reply>> /\ reply[r] = "none"
        /\ pc'[r] = AfterMark(kind[r]) /\ kind[r] \in Kind
        /\ \A s \in Request \ {r} : pc'[s] = pc[s]
    BY <1>4 DEF MarkFirst, At, Goto, Placed, TypeOK
  <2>2. Placed(r)'
    BY <2>1, NextSection, AfterMarkPC DEF Placed
  <2> QED BY <1>1, <2>1, <2>2
<1>5. ASSUME NEW r \in Request, SideCall(r) PROVE (\A s \in Request : Placed(s))'
  <2>1. /\ UNCHANGED kind /\ pc[r] = "side" /\ reply[r] = "none"
        /\ \A s \in Request \ {r} : pc'[s] = pc[s] /\ reply'[s] = reply[s]
        /\ \/ pc'[r] = "done" /\ reply'[r] = "side"
           \/ pc'[r] = "offer" /\ reply'[r] = "none"
    BY <1>5 DEF SideCall, At, Goto, Placed, TypeOK
  <2>2. Placed(r)'
    BY <2>1 DEF Placed
  <2> QED BY <1>1, <2>1, <2>2
<1>6. ASSUME NEW r \in Request, BodyOffersTool(r) \/ ShouldToolCall(r) \/ MarkCall(r)
      PROVE  (\A s \in Request : Placed(s))'
  <2>1. /\ UNCHANGED <<kind, reply>> /\ pc[r] \in {"offer", "decide", "callmark"}
        /\ pc'[r] \in {"decide", "callmark", "call", "text"}
        /\ pc'[r] = "callmark" => Shape(kind[r]).marksCall
        /\ \A s \in Request \ {r} : pc'[s] = pc[s]
    BY <1>6 DEF BodyOffersTool, ShouldToolCall, MarkCall, At, Goto, TypeOK, serverVars
  <2>2. Placed(r)'
    BY <2>1 DEF Placed
  <2> QED BY <1>1, <2>1, <2>2
<1>7. ASSUME NEW r \in Request, AnswerCall(r) \/ AnswerText(r) \/ MarkText(r)
      PROVE  (\A s \in Request : Placed(s))'
  <2>1. /\ UNCHANGED kind
        /\ \A s \in Request \ {r} : pc'[s] = pc[s] /\ reply'[s] = reply[s]
        /\ \/ pc[r] = "call" /\ pc'[r] = "done" /\ reply'[r] = "call"
           \/ /\ pc[r] = "text" /\ reply'[r] \in {"text", "json"}
              /\ pc'[r] = IF Shape(kind[r]).marksText THEN "textmark" ELSE "done"
           \/ pc[r] = "textmark" /\ pc'[r] = "done" /\ reply'[r] = reply[r]
    BY <1>7 DEF AnswerCall, AnswerText, MarkText, At, Goto, TypeOK, serverVars
  <2>2. Placed(r)'
    BY <2>1 DEF Placed
  <2> QED BY <1>1, <2>1, <2>2
<1>8. CASE Runner \/ UNCHANGED vars
  BY <1>8, <1>2 DEF Runner, PrepareToolCall, ClearLog, vars, requestVars
<1> QED BY <1>3, <1>4, <1>5, <1>6, <1>7, <1>8 DEF Next, Handle
LEMMA LogTypes ==
  ASSUME TypeOK
  PROVE  /\ DOMAIN log = 1 .. Len(log)
         /\ \A i \in DOMAIN log : log[i] \in Entry /\ log[i].req \in Request
<1>1. DOMAIN log = 1 .. Len(log) /\ \A i \in DOMAIN log : log[i] \in Entry
  BY DEF TypeOK
<1> QED BY <1>1 DEF Entry

LEMMA EntryStep ==
  ASSUME TypeOK, AllAwaited, EntryIsOwn, [Next]_vars
  PROVE  EntryIsOwn'
<1>0. DOMAIN log = 1 .. Len(log) /\ \A i \in DOMAIN log : log[i].req \in Request
  BY LogTypes
\* A step of a handler that is past its record keeps the requests of the log.
<1>1. ASSUME NEW r \in Request, UNCHANGED <<idx, epoch, clears>>,
             pc[r] \notin {"idle", "done"}, pc'[r] # "idle",
             \A s \in Request \ {r} : pc'[s] = pc[s],
             log' = log \/ MarkStreamed(r)
      PROVE  EntryIsOwn'
  <2>1. DOMAIN log' = DOMAIN log /\ \A i \in DOMAIN log : log'[i].req = log[i].req
    BY <1>0, <1>1, MarkKeepsEntries
  <2>2. \A s \in Request : pc[s] # "idle" => pc'[s] # "idle"
    BY <1>1
  <2>3. \A s \in Request : pc'[s] \notin {"idle", "done"} => pc[s] \notin {"idle", "done"}
    BY <1>1
  <2> QED BY <1>0, <1>1, <2>1, <2>2, <2>3 DEF EntryIsOwn
<1>2. CASE ClearLog
  <2>1. log' = << >> /\ DOMAIN log' = {} /\ UNCHANGED pc
    BY <1>2 DEF ClearLog, requestVars
  <2>2. \A r \in Request : pc[r] \in {"idle", "done"}
    BY <1>2 DEF ClearLog, Quiet, AllAwaited
  <2> QED BY <2>1, <2>2 DEF EntryIsOwn
<1>3. ASSUME NEW r \in Request, Record(r) PROVE EntryIsOwn'
  <2>1. /\ log' = Append(log, [req |-> r, streamed |-> FALSE]) /\ pc[r] = "idle"
        /\ idx'[r] = Len(log) + 1 /\ epoch'[r] = clears /\ clears' = clears
        /\ \A s \in Request \ {r} : pc'[s] = pc[s] /\ idx'[s] = idx[s] /\ epoch'[s] = epoch[s]
        /\ pc'[r] # "idle"
    BY <1>3, AfterRecordPC DEF Record, NewIndex, At, Goto, TypeOK
  <2>2. /\ DOMAIN log' = 1 .. Len(log) + 1 /\ log'[Len(log) + 1].req = r
        /\ \A i \in 1 .. Len(log) : log'[i] = log[i]
    BY <2>1 DEF TypeOK, Entry
  <2>3. ASSUME NEW i \in DOMAIN log'
        PROVE  pc'[log'[i].req] # "idle" /\ idx'[log'[i].req] = i
    <3>1. CASE i = Len(log) + 1
      BY <2>1, <2>2, <3>1
    <3>2. CASE i \in DOMAIN log
      BY <1>0, <2>1, <2>2, <3>2 DEF EntryIsOwn
    <3>3. i = Len(log) + 1 \/ i \in DOMAIN log
      <4>1. Len(log) \in Nat /\ i \in 1 .. Len(log) + 1
        BY <2>2 DEF TypeOK
      <4> QED BY <1>0, <4>1
    <3> QED BY <3>1, <3>2, <3>3
  <2>4. \A s \in Request : pc'[s] \notin {"idle", "done"} => epoch'[s] = clears'
    BY <2>1 DEF EntryIsOwn
  <2> QED BY <2>3, <2>4 DEF EntryIsOwn
<1>4. ASSUME NEW r \in Request, MarkFirst(r) \/ MarkCall(r) \/ MarkText(r) PROVE EntryIsOwn'
  BY <1>1, <1>4, AfterMarkPC DEF MarkFirst, MarkCall, MarkText, At, Goto, historyVars, TypeOK
<1>5. ASSUME NEW r \in Request,
             \/ SideCall(r) \/ BodyOffersTool(r) \/ ShouldToolCall(r)
             \/ AnswerCall(r) \/ AnswerText(r)
      PROVE  EntryIsOwn'
  BY <1>1, <1>5 DEF SideCall, BodyOffersTool, ShouldToolCall, AnswerCall, AnswerText, At, Goto,
     serverVars, historyVars, TypeOK
<1>6. CASE (\E p \in Prepared : PrepareToolCall(p)) \/ UNCHANGED vars
  BY <1>6 DEF PrepareToolCall, vars, serverVars, requestVars, historyVars, EntryIsOwn
<1> QED BY <1>2, <1>3, <1>4, <1>5, <1>6 DEF Next, Runner, Handle

\* The marks are exact after a step if they are for every entry.
LEMMA MarksKept ==
  ASSUME \A i \in DOMAIN log' :
           \E s \in Request : log'[i].req = s /\ (log'[i].streamed <=> HasMarked(s)')
  PROVE  EntriesAreMarked'
BY DEF EntriesAreMarked, HasMarked

\* A handler with its entry marks that one, or leaves the log and what it has
\* marked as they are.
LEMMA MarksStep ==
  ASSUME TypeOK, IndexLedger, \A r \in Request : Placed(r), EntryIsOwn, AllAwaited,
         EntriesAreMarked,
         [Next]_vars
  PROVE  EntriesAreMarked'
<1>0. DOMAIN log = 1 .. Len(log) /\ \A i \in DOMAIN log : log[i] \in Entry
  BY DEF TypeOK
<1>1. ASSUME NEW r \in Request, UNCHANGED <<log, kind>>, HasMarked(r)' <=> HasMarked(r),
             \A s \in Request \ {r} : pc'[s] = pc[s] /\ reply'[s] = reply[s]
      PROVE  EntriesAreMarked'
  <2>1. \A s \in Request : HasMarked(s)' <=> HasMarked(s)
    BY <1>1 DEF HasMarked
  <2>2. ASSUME NEW i \in DOMAIN log'
        PROVE  \E s \in Request : log'[i].req = s /\ (log'[i].streamed <=> HasMarked(s)')
    BY <1>1, <2>1, LogTypes DEF EntriesAreMarked
  <2> QED BY <2>2, MarksKept
<1>2. CASE ClearLog
  BY <1>2 DEF ClearLog, EntriesAreMarked
<1>3. ASSUME NEW r \in Request, Record(r)
      PROVE  EntriesAreMarked'
  <2>1. /\ log' = Append(log, [req |-> r, streamed |-> FALSE]) /\ pc[r] = "idle"
        /\ pc'[r] = AfterRecord(kind[r]) /\ kind[r] \in Kind /\ UNCHANGED <<kind, reply>>
        /\ \A s \in Request \ {r} : pc'[s] = pc[s]
        /\ reply[r] = "none"
    BY <1>3 DEF Record, At, Goto, Placed, TypeOK
  <2>2. /\ DOMAIN log' = 1 .. Len(log) + 1
        /\ log'[Len(log) + 1] = [req |-> r, streamed |-> FALSE]
        /\ \A i \in 1 .. Len(log) : log'[i] = log[i]
    BY <2>1 DEF TypeOK, Entry
  <2>3. ~HasMarked(r)'
    BY <2>1, NextSection, MarksAreExact, AfterMarkPC DEF HasMarked
  <2>4. \A s \in Request \ {r} : HasMarked(s)' <=> HasMarked(s)
    BY <2>1 DEF HasMarked
  <2>5. \A i \in DOMAIN log : log[i].req \in Request \ {r}
    BY <1>0, <2>1 DEF EntryIsOwn, Entry
  <2>6. ASSUME NEW i \in DOMAIN log'
        PROVE  \E s \in Request : log'[i].req = s /\ (log'[i].streamed <=> HasMarked(s)')
    <3>1. CASE i = Len(log) + 1
      BY <2>2, <2>3, <3>1
    <3>2. CASE i \in DOMAIN log
      BY <1>0, <2>2, <2>4, <2>5, <3>2 DEF EntriesAreMarked
    <3>3. i = Len(log) + 1 \/ i \in DOMAIN log
      <4>1. Len(log) \in Nat /\ i \in 1 .. Len(log) + 1
        BY <2>2 DEF TypeOK
      <4> QED BY <1>0, <4>1
    <3> QED BY <3>1, <3>2, <3>3
  <2> QED BY <2>6, MarksKept
<1>4. ASSUME NEW r \in Request, MarkFirst(r) \/ MarkCall(r) \/ MarkText(r)
      PROVE  EntriesAreMarked'
  <2>1. /\ MarkStreamed(r) /\ UNCHANGED <<kind, reply, clears, epoch, idx>>
        /\ pc[r] \in {"mark", "callmark", "textmark"}
        /\ \A s \in Request \ {r} : pc'[s] = pc[s]
        /\ pc[r] = "mark" => pc'[r] = AfterMark(kind[r])
        /\ pc[r] = "callmark" => pc'[r] = "call"
        /\ pc[r] = "textmark" => pc'[r] = "done"
    BY <1>4 DEF MarkFirst, MarkCall, MarkText, At, Goto, historyVars, TypeOK
  <2>2. idx[r] \in DOMAIN log /\ log[idx[r]].req = r
    BY <2>1 DEF EntryIsOwn, IndexLedger, IndexIsOwn
  <2>3. /\ DOMAIN log' = DOMAIN log
        /\ log'[idx[r]] = [log[idx[r]] EXCEPT !.streamed = TRUE]
        /\ \A i \in DOMAIN log \ {idx[r]} : log'[i] = log[i]
    BY <2>1, <2>2 DEF MarkStreamed, TypeOK
  <2>4. log'[idx[r]].streamed /\ log'[idx[r]].req = r
    BY <1>0, <2>2, <2>3 DEF Entry
  <2>5. HasMarked(r)'
    <3>1. Placed(r) /\ AfterMark(kind[r]) # "mark"
      BY AfterMarkPC
    <3>2. CASE pc[r] = "mark"
      BY <2>1, <3>1, <3>2 DEF HasMarked, Placed
    <3>3. CASE pc[r] = "callmark"
      BY <2>1, <3>1, <3>3 DEF HasMarked, Placed
    <3>4. CASE pc[r] = "textmark"
      BY <2>1, <3>1, <3>4 DEF HasMarked, Placed
    <3> QED BY <2>1, <3>2, <3>3, <3>4
  <2>6. \A i \in DOMAIN log \ {idx[r]} : log[i].req \in Request \ {r}
    BY <1>0 DEF EntryIsOwn, Entry
  <2>7. \A s \in Request \ {r} : HasMarked(s)' <=> HasMarked(s)
    BY <2>1 DEF HasMarked
  <2>8. ASSUME NEW i \in DOMAIN log'
        PROVE  \E s \in Request : log'[i].req = s /\ (log'[i].streamed <=> HasMarked(s)')
    BY <2>3, <2>4, <2>5, <2>6, <2>7 DEF EntriesAreMarked
  <2> QED BY <2>8, MarksKept
<1>5. ASSUME NEW r \in Request, SideCall(r)
      PROVE  EntriesAreMarked'
  <2>1. /\ UNCHANGED <<log, kind>> /\ pc[r] = "side" /\ reply[r] = "none"
        /\ \A s \in Request \ {r} : pc'[s] = pc[s] /\ reply'[s] = reply[s]
        /\ \/ pc'[r] = "done" /\ reply'[r] = "side"
           \/ pc'[r] = "offer" /\ reply'[r] = "none"
    BY <1>5 DEF SideCall, At, Goto, Placed, TypeOK, serverVars
  <2>2. HasMarked(r)' <=> HasMarked(r)
    BY <2>1 DEF HasMarked
  <2> QED BY <1>1, <2>1, <2>2
<1>6. ASSUME NEW r \in Request, BodyOffersTool(r) \/ ShouldToolCall(r)
      PROVE  EntriesAreMarked'
  <2>1. /\ UNCHANGED <<log, kind, reply>> /\ pc[r] \in {"offer", "decide"}
        /\ \A s \in Request \ {r} : pc'[s] = pc[s]
        /\ pc'[r] \in {"decide", "callmark", "call", "text"}
        /\ pc'[r] = "call" => ~Shape(kind[r]).marksCall
    BY <1>6 DEF BodyOffersTool, ShouldToolCall, At, Goto, TypeOK, serverVars
  <2>2. HasMarked(r)' <=> HasMarked(r)
    BY <2>1 DEF HasMarked
  <2> QED BY <1>1, <2>1, <2>2
<1>7. ASSUME NEW r \in Request, AnswerCall(r) \/ AnswerText(r)
      PROVE  EntriesAreMarked'
  <2>1. /\ UNCHANGED <<log, kind>>
        /\ \A s \in Request \ {r} : pc'[s] = pc[s] /\ reply'[s] = reply[s]
        /\ \/ pc[r] = "call" /\ pc'[r] = "done" /\ reply'[r] = "call"
           \/ /\ pc[r] = "text" /\ reply'[r] \in {"text", "json"}
              /\ pc'[r] = IF Shape(kind[r]).marksText THEN "textmark" ELSE "done"
    BY <1>7 DEF AnswerCall, AnswerText, At, Goto, TypeOK, serverVars
  <2>2. HasMarked(r)' <=> HasMarked(r)
    BY <2>1 DEF HasMarked
  <2> QED BY <1>1, <2>1, <2>2
<1>8. CASE (\E p \in Prepared : PrepareToolCall(p)) \/ UNCHANGED vars
  <2>1. UNCHANGED <<log, pc, kind, reply>>
    BY <1>8 DEF PrepareToolCall, vars, serverVars, requestVars
  <2> QED BY <2>1 DEF HasMarked, EntriesAreMarked
<1> QED BY <1>2, <1>3, <1>4, <1>5, <1>6, <1>7, <1>8 DEF Next, Runner, Handle

LEMMA StreamStep == TypeOK /\ IndexLedger /\ StreamLedger /\ [Next]_vars => StreamLedger'
<1> SUFFICES ASSUME TypeOK, IndexLedger, StreamLedger, [Next]_vars PROVE StreamLedger'
  OBVIOUS
<1>1. (\A r \in Request : Placed(r))'
  BY PlacedStep DEF StreamLedger
<1>2. AllAwaited' <=> AllAwaited
  BY DEF AllAwaited, Next, Runner, Handle, PrepareToolCall, ClearLog, Record, MarkFirst, SideCall,
     BodyOffersTool, ShouldToolCall, MarkCall, AnswerCall, AnswerText, MarkText, vars, requestVars
<1>3. ASSUME AllAwaited PROVE EntryIsOwn'
  BY <1>3, EntryStep DEF StreamLedger
<1>4. ASSUME AllAwaited
      PROVE  EntriesAreMarked'
  BY <1>4, MarksStep DEF StreamLedger
<1> QED BY <1>1, <1>2, <1>3, <1>4 DEF StreamLedger

\* Where the runner waits for every request, the entry of an answered one, of a
\* handler that marks what it streams, says exactly whether it was streamed.
THEOREM StreamedMarksAreTrue == Spec => []AwaitedStreamIsTrue
<1>1. TypeOK /\ StreamLedger => AwaitedStreamIsTrue
  <2> SUFFICES ASSUME TypeOK, StreamLedger, AllAwaited, NEW i \in DOMAIN log,
                      Marked(kind[log[i].req]), At(log[i].req, "done")
               PROVE  log[i].streamed <=> AnsweredWithStream(log[i].req)
    BY DEF AwaitedStreamIsTrue, AllAwaited
  <2> DEFINE r == log[i].req
  <2>0. r \in Request
    BY LogTypes
  <2>1. r \in Request /\ kind[r] \in Kind
        /\ reply[r] \in {"none", "side", "call", "text", "json"}
    BY <2>0 DEF TypeOK
  <2>2. log[i].streamed <=> HasMarked(r)
    BY DEF StreamLedger, EntriesAreMarked
  <2>3. Placed(r) /\ pc[r] = "done" /\ Marked(kind[r])
    BY <2>1 DEF StreamLedger, At
  <2> HIDE DEF r
  <2>4. HasMarked(r) <=> AnsweredWithStream(r)
    BY <2>1, <2>3, MarksAreExact DEF HasMarked, AnsweredWithStream, Placed
  <2> QED BY <2>2, <2>4 DEF r
<1> QED BY <1>1, StreamInit, StreamStep, IndexInit, IndexStep, TypeCorrect, PTL DEF Spec
=============================================================================
