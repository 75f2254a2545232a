-------------------------- MODULE SupervisorTurnProofs --------------------------
(* The turn's safety for any keys, any cap and any drafts. A phase of the graph *)
(* fixes what may still change: before the agents nothing has happened, from    *)
(* escalation on both loops are over, from verification on the reasons are set. *)
EXTENDS SupervisorTurn, FiniteSetTheorems, TLAPS

Early == {"session", "intake", "router", "clarify"}
Writing == {"verify", "regenerate", "recheck"}
Late == {"synthesis", "end"} \cup Writing

\* Routes by node, and what has not happened yet.
RoutesByNode ==
  /\ node \in Early =>
       /\ salesOutcome = "running" /\ accountOutcome = "running"
       /\ salesCalls = << >> /\ accountCalls = << >>
       /\ escalation = "none"
  /\ node = "clarify" => routes = {"clarify"}
  /\ node = "agents" => "escalate" \notin routes
  /\ node \in {"agents", "escalate"} \cup Early => escalation = "none" /\ nodeTickets = 0
  /\ node = "escalate" => routes = {"escalate"} \/ NeedsEscalation
  /\ node \in Late \cup {"escalate"} => LoopsOver

\* The reasons the state gives are those that were noted when they happened.
Noted ==
  /\ node \in Early => mishaps = {} /\ reasons = {} /\ ~degraded
  /\ node \in {"agents", "escalate", "synthesis"} => mishaps = ComputedReasons
  /\ node \in Writing => reasons = mishaps /\ (degraded <=> mishaps # {})

\* Nothing customer-scoped runs for an anonymous caller.
NoExecution == ~authenticated => accountExecuted = {} /\ nodeTickets = 0 /\ cause # "tool"

-----------------------------------------------------------------------------
\* A decision for escalation names nothing else, and one for the agents neither
\* escalation nor clarification.
LEMMA RouteToOne ==
  ASSUME NEW p \in Proposals
  PROVE  /\ NextAfterRouter(RouteTo(p)) = "escalate" => RouteTo(p) = {"escalate"}
         /\ NextAfterRouter(RouteTo(p)) = "clarify" => RouteTo(p) = {"clarify"}
         /\ NextAfterRouter(RouteTo(p)) = "agents" => "escalate" \notin RouteTo(p)
         /\ NextAfterRouter(RouteTo(p)) \in {"clarify", "escalate", "agents"}
         /\ RouteTo(p) \in SUBSET ValidRoutes
<1>1. PICK n \in 0 .. 2 : p \in [1 .. n -> ValidRoutes \cup {"bogus"}]
  BY DEF Proposals
<1>2. DOMAIN p = 1 .. n /\ Len(p) = n
  BY <1>1
<1>3. CASE ~Usable(p)
  BY <1>3 DEF RouteTo, NextAfterRouter, ValidRoutes
<1>4. CASE Usable(p) /\ n > 1
  <2>1. \A i \in 1 .. n : p[i] \in ValidRoutes \ {"clarify", "escalate"}
    BY <1>2, <1>4 DEF Usable
  <2> QED BY <2>1, <1>2, <1>4 DEF RouteTo, NextAfterRouter, ValidRoutes
<1>5. CASE Usable(p) /\ n <= 1
  <2>1. n = 1
    <3>1. n # 0
      <4> SUFFICES ASSUME n = 0 PROVE FALSE
        OBVIOUS
      <4>1. p = << >>
        BY <1>1
      <4> QED BY <4>1, <1>5 DEF Usable
    <3> QED BY <3>1, <1>5
  <2>2. RouteTo(p) = {p[1]} /\ p[1] \in ValidRoutes
    BY <2>1, <1>2, <1>5 DEF RouteTo, Usable
  <2> QED BY <2>2 DEF NextAfterRouter, ValidRoutes
<1> QED BY <1>3, <1>4, <1>5

\* A step of a loop of the sales agent keeps its state typed, adds no execution
\* but to its own, and loses no reason.
LEMMA SalesLoop ==
  ASSUME TypeOK, SalesStep
  PROVE  /\ Sales!ContractTypeOK'
         /\ salesOutcome = "running"
         /\ LoopReasons("sales", salesCalls, salesOutcome)
              \subseteq LoopReasons("sales", salesCalls', salesOutcome')
<1> USE CapAssumption DEF TypeOK, Sales!ContractTypeOK
<1>1. ASSUME NEW k \in AllKeys, Sales!Execute(k)
      PROVE  Sales!ContractTypeOK' /\ salesOutcome = "running" /\ UNCHANGED <<salesCalls, salesOutcome>>
  BY <1>1 DEF Sales!Execute
<1>2. ASSUME NEW k \in AllKeys, NEW s \in Sales!Statuses, Sales!Record(k, s)
      PROVE  /\ Sales!ContractTypeOK' /\ salesOutcome = "running" /\ UNCHANGED salesOutcome
             /\ salesCalls' = Append(salesCalls, [key |-> k, status |-> s])
  BY <1>2 DEF Sales!Record, Sales!CallEntry
<1>3. ASSUME NEW o \in Sales!Outcomes, Sales!Finish(o)
      PROVE  Sales!ContractTypeOK' /\ salesOutcome = "running" /\ UNCHANGED salesCalls
  BY <1>3 DEF Sales!Finish
<1>4. \A cs \in Seq(Sales!CallEntry), e \in Sales!CallEntry :
        ToolErrors(cs) \subseteq ToolErrors(Append(cs, e))
  BY DEF ToolErrors
<1>5. "running" \notin Sales!NoAnswerOutcomes
  BY DEF Sales!NoAnswerOutcomes
<1>6. \A k \in AllKeys, s \in Sales!Statuses : [key |-> k, status |-> s] \in Sales!CallEntry
  BY DEF Sales!CallEntry
<1> QED BY <1>1, <1>2, <1>3, <1>4, <1>5, <1>6 DEF SalesStep, LoopReasons

LEMMA AccountLoop ==
  ASSUME TypeOK, AccountStep \/ LateExecution
  PROVE  /\ Account!ContractTypeOK'
         /\ accountOutcome = "running"
         /\ LoopReasons("account", accountCalls, accountOutcome)
              \subseteq LoopReasons("account", accountCalls', accountOutcome')
         /\ ~authenticated => UNCHANGED accountExecuted
<1> USE CapAssumption DEF TypeOK, Account!ContractTypeOK
<1>1. ASSUME NEW k \in AllKeys, Account!Execute(k)
      PROVE  /\ Account!ContractTypeOK' /\ accountOutcome = "running"
             /\ UNCHANGED <<accountCalls, accountOutcome>>
  BY <1>1 DEF Account!Execute
<1>2. ASSUME NEW k \in AllKeys, NEW s \in Account!Statuses, Account!Record(k, s)
      PROVE  /\ Account!ContractTypeOK' /\ accountOutcome = "running"
             /\ UNCHANGED <<accountOutcome, accountExecuted>>
             /\ accountCalls' = Append(accountCalls, [key |-> k, status |-> s])
  BY <1>2 DEF Account!Record, Account!CallEntry
<1>3. ASSUME NEW o \in Account!Outcomes, Account!Finish(o)
      PROVE  /\ Account!ContractTypeOK' /\ accountOutcome = "running"
             /\ UNCHANGED <<accountCalls, accountExecuted>>
  BY <1>3 DEF Account!Finish
<1>4. \A cs \in Seq(Account!CallEntry), e \in Account!CallEntry :
        ToolErrors(cs) \subseteq ToolErrors(Append(cs, e))
  BY DEF ToolErrors
<1>5. "running" \notin Sales!NoAnswerOutcomes
  BY DEF Sales!NoAnswerOutcomes
<1>6. \A k \in AllKeys, s \in Account!Statuses : [key |-> k, status |-> s] \in Account!CallEntry
  BY DEF Account!CallEntry
<1> QED BY <1>1, <1>2, <1>3, <1>4, <1>5, <1>6
        DEF AccountStep, LateExecution, LoopReasons, CustomerScoped

\* What the loops find wrong is a possible reason.
LEMMA LoopReasonsTyped ==
  ASSUME NEW agent \in {"sales", "account"}, NEW cs, NEW out
  PROVE  LoopReasons(agent, cs, out) \subseteq Reason
BY DEF LoopReasons, Reason

-----------------------------------------------------------------------------
LEMMA TypeInit == Init => TypeOK
<1> SUFFICES ASSUME Init PROVE TypeOK
  OBVIOUS
<1>1. Sales!ContractTypeOK /\ Account!ContractTypeOK
  BY DEF Init, Sales!ContractInit, Account!ContractInit, Sales!ContractTypeOK, Account!ContractTypeOK
<1>2. question \in Text /\ reply \in Text
  BY DEF Init, Text
<1>3. node = "session" /\ routes = {} /\ escalation = "none" /\ nodeTickets = 0
      /\ reasons = {} /\ mishaps = {}
  BY DEF Init
<1>4. degraded \in BOOLEAN
  <2>1. degraded = FALSE
    BY DEF Init
  <2> QED BY <2>1
<1>5. 0 \in 0 .. 1
  OBVIOUS
<1> QED BY <1>1, <1>2, <1>3, <1>4, <1>5 DEF TypeOK

LEMMA TypeStep ==
  ASSUME TypeOK, RoutesByNode, [Next]_vars
  PROVE  TypeOK'
<1> USE DEF TypeOK
<1>1. CASE SalesStep
  <2>1. mishaps' \subseteq Reason
    BY <1>1, LoopReasonsTyped DEF SalesStep, NewMishaps, LoopReasons, ToolErrors
  <2> QED BY <1>1, <2>1, SalesLoop DEF SalesStep, Raise, accountVars, replyVars, Account!ContractTypeOK
<1>2. CASE AccountStep
  <2>1. mishaps' \subseteq Reason
    BY <1>2, LoopReasonsTyped DEF AccountStep, NewMishaps, LoopReasons, ToolErrors
  <2> QED BY <1>2, <2>1, AccountLoop DEF AccountStep, Raise, salesVars, replyVars, Sales!ContractTypeOK
<1>3. CASE LateExecution
  BY <1>3, AccountLoop DEF LateExecution, salesVars, replyVars, Sales!ContractTypeOK
<1>4. CASE Router
  BY <1>4, RouteToOne DEF Router, salesVars, accountVars, replyVars, Sales!ContractTypeOK,
     Account!ContractTypeOK
<1>5. CASE Synthesis
  <2>1. ComputedReasons \subseteq Reason
    BY LoopReasonsTyped DEF ComputedReasons, Reason
  <2> QED BY <1>5, <2>1 DEF Synthesis, salesVars, accountVars, Sales!ContractTypeOK,
       Account!ContractTypeOK, Text
<1>6. CASE EscalateSkipped \/ EscalateCalls
  BY <1>6 DEF EscalateSkipped, EscalateCalls, Raise, RoutesByNode, Reason, salesVars, accountVars,
     replyVars, Sales!ContractTypeOK, Account!ContractTypeOK
<1>7. CASE OpenSession \/ Intake \/ RouterRaises \/ Clarify \/ Merge \/ WriterRaises
           \/ VerifyClean \/ VerifyViolation \/ VerifierReplyMalformed \/ Ended \/ UNCHANGED vars
  BY <1>7 DEF OpenSession, Intake, RouterRaises, Clarify, Merge, WriterRaises, VerifyClean,
     VerifyViolation, VerifierReplyMalformed, Ended, vars, Raise, salesVars, accountVars,
     replyVars, Sales!ContractTypeOK, Account!ContractTypeOK, ValidRoutes
<1>8. CASE Regenerate
  BY <1>8 DEF Regenerate, AfterRegenerate, salesVars, accountVars, Sales!ContractTypeOK,
     Account!ContractTypeOK, Text
<1>9. CASE RecheckClean \/ RecheckViolation
  BY <1>9 DEF RecheckClean, RecheckViolation, FinishVerify, WithReason, Replacement, Reason, Text,
     salesVars, accountVars, Sales!ContractTypeOK, Account!ContractTypeOK
<1> QED BY <1>1, <1>2, <1>3, <1>4, <1>5, <1>6, <1>7, <1>8, <1>9 DEF Next, GraphStep

-----------------------------------------------------------------------------
LEMMA RoutesInit == Init => RoutesByNode
BY DEF Init, RoutesByNode, Early, Late, Writing, Sales!ContractInit, Account!ContractInit

LEMMA RoutesStep ==
  ASSUME TypeOK, RoutesByNode, [Next]_vars
  PROVE  RoutesByNode'
<1> USE DEF RoutesByNode, Early, Late, Writing, LoopsOver, LoopOver, NeedsEscalation
<1>1. CASE SalesStep
  BY <1>1 DEF SalesStep, Raise
<1>2. CASE AccountStep
  BY <1>2 DEF AccountStep, Raise
<1>3. CASE LateExecution
  BY <1>3 DEF LateExecution
<1>4. CASE Router
  BY <1>4, RouteToOne DEF Router, salesVars, accountVars
<1>5. CASE OpenSession \/ Intake \/ RouterRaises \/ Clarify
  BY <1>5 DEF OpenSession, Intake, RouterRaises, Clarify, Raise, salesVars, accountVars
<1>6. CASE Merge \/ EscalateSkipped \/ EscalateCalls
  BY <1>6 DEF Merge, EscalateSkipped, EscalateCalls, Raise, salesVars, accountVars
<1>7. CASE Synthesis \/ WriterRaises \/ VerifyClean \/ VerifyViolation \/ VerifierReplyMalformed
  BY <1>7 DEF Synthesis, WriterRaises, VerifyClean, VerifyViolation, VerifierReplyMalformed, Raise,
     salesVars, accountVars
<1>8. CASE Regenerate \/ RecheckClean \/ RecheckViolation
  BY <1>8 DEF Regenerate, AfterRegenerate, RecheckClean, RecheckViolation, FinishVerify,
     salesVars, accountVars
<1>9. CASE Ended \/ UNCHANGED vars
  BY <1>9 DEF Ended, vars, salesVars, accountVars
<1> QED BY <1>1, <1>2, <1>3, <1>4, <1>5, <1>6, <1>7, <1>8, <1>9 DEF Next, GraphStep

-----------------------------------------------------------------------------
LEMMA NotedInit == Init => Noted
BY DEF Init, Noted, Early, Writing

LEMMA NotedStep ==
  ASSUME TypeOK, RoutesByNode, Noted, [Next]_vars
  PROVE  Noted'
<1> USE DEF Noted, RoutesByNode, Early, Writing
<1>1. CASE SalesStep
  BY <1>1, SalesLoop DEF SalesStep, Raise, ComputedReasons, LoopReasons, ToolErrors, NewMishaps,
     accountVars
<1>2. CASE AccountStep
  BY <1>2, AccountLoop DEF AccountStep, Raise, ComputedReasons, LoopReasons, ToolErrors, NewMishaps,
     salesVars
<1>3. CASE LateExecution
  BY <1>3 DEF LateExecution
<1>4. CASE Router
  <2>1. ComputedReasons' = {}
    BY <1>4 DEF Router, ComputedReasons, LoopReasons, ToolErrors, Sales!NoAnswerOutcomes, salesVars,
       accountVars
  <2> QED BY <1>4, <2>1, RouteToOne DEF Router, replyVars
<1>5. CASE OpenSession \/ Intake \/ RouterRaises \/ Clarify
  BY <1>5 DEF OpenSession, Intake, RouterRaises, Clarify, Raise, replyVars
<1>6. CASE Merge \/ EscalateSkipped \/ EscalateCalls
  BY <1>6 DEF Merge, EscalateSkipped, EscalateCalls, Raise, ComputedReasons, salesVars, accountVars
<1>7. CASE Synthesis
  <2>1. node' = "verify" /\ reasons' = ComputedReasons /\ mishaps' = mishaps /\ node = "synthesis"
    BY <1>7 DEF Synthesis
  <2>2. degraded' <=> ComputedReasons # {}
    BY <1>7 DEF Synthesis
  <2> QED BY <2>1, <2>2
<1>10. CASE WriterRaises \/ VerifyClean \/ VerifyViolation \/ VerifierReplyMalformed
  BY <1>10 DEF WriterRaises, VerifyClean, VerifyViolation, VerifierReplyMalformed, Raise, replyVars
<1>8. CASE Regenerate \/ RecheckClean \/ RecheckViolation
  BY <1>8 DEF Regenerate, AfterRegenerate, RecheckClean, RecheckViolation, FinishVerify
<1>9. CASE Ended \/ UNCHANGED vars
  BY <1>9 DEF Ended, vars, ComputedReasons, salesVars, accountVars, replyVars
<1> QED BY <1>1, <1>2, <1>3, <1>4, <1>5, <1>6, <1>7, <1>8, <1>9, <1>10 DEF Next, GraphStep

-----------------------------------------------------------------------------
LEMMA ReportedStep ==
  ASSUME TypeOK, Noted, MishapsReported, [Next]_vars
  PROVE  MishapsReported'
<1> USE DEF MishapsReported, Noted, Early, Writing
<1>1. CASE SalesStep \/ AccountStep \/ LateExecution
  BY <1>1 DEF SalesStep, AccountStep, LateExecution, Raise
<1>2. CASE Router
  BY <1>2, RouteToOne DEF Router
<1>3. CASE Clarify \/ VerifyClean
  BY <1>3 DEF Clarify, VerifyClean, replyVars
<1>4. CASE RecheckClean \/ RecheckViolation
  <2>1. PICK r : reasons' = reasons \cup {r} /\ mishaps' = mishaps \cup {r}
    BY <1>4 DEF RecheckClean, RecheckViolation, FinishVerify, WithReason
  <2>2. degraded' = TRUE /\ node = "recheck"
    BY <1>4 DEF RecheckClean, RecheckViolation, FinishVerify
  <2> QED BY <2>1, <2>2
<1>5. CASE OpenSession \/ Intake \/ RouterRaises \/ Merge \/ EscalateSkipped \/ EscalateCalls
           \/ Synthesis \/ WriterRaises \/ VerifyViolation \/ VerifierReplyMalformed \/ Regenerate
  BY <1>5 DEF OpenSession, Intake, RouterRaises, Merge, EscalateSkipped, EscalateCalls, Synthesis,
     WriterRaises, VerifyViolation, VerifierReplyMalformed, Regenerate, AfterRegenerate, Raise
<1>6. CASE Ended \/ UNCHANGED vars
  BY <1>6 DEF Ended, vars, replyVars
<1> QED BY <1>1, <1>2, <1>3, <1>4, <1>5, <1>6 DEF Next, GraphStep

\* The escalate node has been there for all who needed it and for nothing else,
\* and a turn is called escalated exactly when that opened its ticket.
Escalated ==
  /\ node \in Late => (escalation # "none" <=> routes = {"escalate"} \/ NeedsEscalation)
  /\ nodeTickets > 0 => routes = {"escalate"} \/ NeedsEscalation
  /\ escalation = "escalated" => nodeTickets = 1
  /\ node # "raised" /\ nodeTickets = 1 => escalation = "escalated"

LEMMA EscalatedInit == Init => Escalated
BY DEF Init, Escalated, Late, Writing

LEMMA EscalatedStep ==
  ASSUME TypeOK, RoutesByNode, Escalated, [Next]_vars
  PROVE  Escalated'
<1> USE DEF Escalated, RoutesByNode, Early, Late, Writing, NeedsEscalation, TypeOK
<1>1. CASE SalesStep
  <2>1. nodeTickets = 0 /\ nodeTickets' = 0 /\ escalation' = "none" /\ node' \notin Late
    BY <1>1 DEF SalesStep, Raise
  <2> QED BY <2>1
<1>2. CASE AccountStep
  <2>1. nodeTickets = 0 /\ nodeTickets' = 0 /\ escalation' = "none" /\ node' \notin Late
    BY <1>2 DEF AccountStep, Raise
  <2> QED BY <2>1
<1>3. CASE LateExecution
  <2>1. PICK k \in AllKeys : Account!Execute(k)
    BY <1>3 DEF LateExecution
  <2>2. UNCHANGED <<accountOutcome, salesOutcome, routes, nodeTickets, escalation, node>> /\ node = "raised"
    BY <1>3, <2>1 DEF LateExecution, Account!Execute, salesVars
  <2> QED BY <2>2
<1>4. CASE Router
  BY <1>4, RouteToOne DEF Router, salesVars, accountVars
<1>5. CASE OpenSession \/ Intake \/ RouterRaises \/ Clarify
  BY <1>5 DEF OpenSession, Intake, RouterRaises, Clarify, Raise, salesVars, accountVars,
     Sales!NoAnswerOutcomes
<1>6. CASE Merge \/ EscalateSkipped \/ EscalateCalls
  BY <1>6 DEF Merge, EscalateSkipped, EscalateCalls, Raise, salesVars, accountVars
<1>7. CASE Synthesis \/ WriterRaises \/ VerifyClean \/ VerifyViolation \/ VerifierReplyMalformed
  BY <1>7 DEF Synthesis, WriterRaises, VerifyClean, VerifyViolation, VerifierReplyMalformed, Raise,
     salesVars, accountVars
<1>8. CASE Regenerate \/ RecheckClean \/ RecheckViolation
  BY <1>8 DEF Regenerate, AfterRegenerate, RecheckClean, RecheckViolation, FinishVerify,
     salesVars, accountVars
<1>9. CASE Ended \/ UNCHANGED vars
  BY <1>9 DEF Ended, vars, salesVars, accountVars
<1> QED BY <1>1, <1>2, <1>3, <1>4, <1>5, <1>6, <1>7, <1>8, <1>9 DEF Next, GraphStep

-----------------------------------------------------------------------------
LEMMA NoExecutionStep ==
  ASSUME TypeOK, NoExecution, [Next]_vars
  PROVE  NoExecution'
<1> USE DEF NoExecution
<1>1. CASE SalesStep
  BY <1>1 DEF SalesStep, Raise, accountVars
<1>2. CASE AccountStep \/ LateExecution
  BY <1>2, AccountLoop DEF AccountStep, LateExecution, Raise
<1>3. CASE OpenSession \/ Intake \/ Router \/ RouterRaises \/ Clarify \/ Merge
  BY <1>3 DEF OpenSession, Intake, Router, RouterRaises, Clarify, Merge, Raise, accountVars
<1>4. CASE EscalateSkipped \/ EscalateCalls
  BY <1>4 DEF EscalateSkipped, EscalateCalls, MayCallEscalate, Raise, accountVars
<1>5. CASE Synthesis \/ WriterRaises \/ VerifyClean \/ VerifyViolation \/ VerifierReplyMalformed
           \/ Regenerate \/ RecheckClean \/ RecheckViolation
  BY <1>5 DEF Synthesis, WriterRaises, VerifyClean, VerifyViolation, VerifierReplyMalformed,
     Regenerate, RecheckClean, RecheckViolation, FinishVerify, Raise, accountVars
<1>6. CASE Ended \/ UNCHANGED vars
  BY <1>6 DEF Ended, vars, accountVars
<1> QED BY <1>1, <1>2, <1>3, <1>4, <1>5, <1>6 DEF Next, GraphStep

\* Tickets can be counted.
Finitely == IsFiniteSet({p \in accountExecuted : p[2] \in TicketKeys})

LEMMA FinitelyStep ==
  ASSUME TypeOK, Finitely, [Next]_vars
  PROVE  Finitely'
<1>1. CASE UNCHANGED accountExecuted
  BY <1>1 DEF Finitely
<1>2. ASSUME NEW k \in AllKeys, Account!Execute(k) PROVE Finitely'
  <2>1. accountExecuted' = accountExecuted \cup {<<Len(accountCalls) + 1, k>>}
    BY <1>2 DEF Account!Execute
  <2>2. IsFiniteSet({p \in accountExecuted : p[2] \in TicketKeys} \cup {<<Len(accountCalls) + 1, k>>})
    BY FS_AddElement DEF Finitely
  <2>3. {p \in accountExecuted' : p[2] \in TicketKeys}
          \subseteq {p \in accountExecuted : p[2] \in TicketKeys} \cup {<<Len(accountCalls) + 1, k>>}
    BY <2>1
  <2> QED BY <2>2, <2>3, FS_Subset DEF Finitely
<1>3. CASE AccountStep
  BY <1>1, <1>2, <1>3 DEF AccountStep, Account!Record, Account!Finish
<1>4. CASE LateExecution
  BY <1>2, <1>4 DEF LateExecution
<1>5. CASE SalesStep \/ Ended \/ UNCHANGED vars
  BY <1>1, <1>5 DEF SalesStep, Ended, vars, accountVars
<1>6. CASE OpenSession \/ Intake \/ Router \/ RouterRaises \/ Clarify \/ Merge \/ EscalateSkipped
           \/ EscalateCalls
  BY <1>1, <1>6 DEF OpenSession, Intake, Router, RouterRaises, Clarify, Merge, EscalateSkipped,
     EscalateCalls, accountVars
<1>7. CASE Synthesis \/ WriterRaises \/ VerifyClean \/ VerifyViolation \/ VerifierReplyMalformed
           \/ Regenerate \/ RecheckClean \/ RecheckViolation
  BY <1>1, <1>7 DEF Synthesis, WriterRaises, VerifyClean, VerifyViolation, VerifierReplyMalformed,
     Regenerate, RecheckClean, RecheckViolation, FinishVerify, accountVars
<1> QED BY <1>3, <1>4, <1>5, <1>6, <1>7 DEF Next, GraphStep

\* What the server ran for the account agent is in its record once the loop is
\* over, and what the record has against the turn is among its reasons.
Recorded ==
  /\ node \in Early => accountExecuted = {}
  /\ \A p \in accountExecuted : p[1] \in DOMAIN accountCalls =>
       accountCalls[p[1]].key = p[2] /\ accountCalls[p[1]].status \in {"result", "error"}
  /\ "account" \notin routes \/ accountOutcome # "running" =>
       \A p \in accountExecuted : p[1] \in DOMAIN accountCalls
  /\ node \in Writing \cup {"end"} => ComputedReasons \subseteq reasons

LEMMA RecordedInit == Init => Recorded
BY DEF Init, Recorded, Early, Writing, Account!ContractInit

LEMMA RecordedLoop ==
  ASSUME TypeOK, Recorded, AccountStep \/ LateExecution
  PROVE  /\ \A p \in accountExecuted' : p[1] \in DOMAIN accountCalls' =>
              accountCalls'[p[1]].key = p[2] /\ accountCalls'[p[1]].status \in {"result", "error"}
         /\ accountOutcome' # "running" =>
              \A p \in accountExecuted' : p[1] \in DOMAIN accountCalls'
<1> USE DEF Recorded
<1>0. /\ accountCalls \in Seq(Account!CallEntry) /\ accountExecuted \subseteq (1 .. MaxIterations) \X AllKeys
      /\ \A p \in accountExecuted : p[1] \in Nat \ {0}
  BY CapAssumption DEF TypeOK, Account!ContractTypeOK, AllKeys
<1>1. ASSUME NEW k \in AllKeys, Account!Execute(k)
      PROVE  /\ \A p \in accountExecuted' : p[1] \in DOMAIN accountCalls' =>
                  accountCalls'[p[1]].key = p[2] /\ accountCalls'[p[1]].status \in {"result", "error"}
             /\ accountOutcome' = "running"
  <2>1. UNCHANGED <<accountCalls, accountOutcome>> /\ accountOutcome = "running"
    BY <1>1 DEF Account!Execute
  <2>2. accountExecuted' = accountExecuted \cup {<<Len(accountCalls) + 1, k>>}
    BY <1>1 DEF Account!Execute
  <2>3. Len(accountCalls) + 1 \notin DOMAIN accountCalls
    BY <1>0
  <2> QED BY <2>1, <2>2, <2>3
<1>2. ASSUME NEW k \in AllKeys, NEW s \in Account!Statuses, Account!Record(k, s)
      PROVE  /\ \A p \in accountExecuted' : p[1] \in DOMAIN accountCalls' =>
                  accountCalls'[p[1]].key = p[2] /\ accountCalls'[p[1]].status \in {"result", "error"}
             /\ accountOutcome' = "running"
  <2>1. /\ UNCHANGED <<accountExecuted, accountOutcome>> /\ accountOutcome = "running"
        /\ \A p \in accountExecuted : p[1] = Len(accountCalls) + 1 => p[2] = k /\ s # "cached"
        /\ accountCalls' = Append(accountCalls, [key |-> k, status |-> s])
    BY <1>2 DEF Account!Record
  <2>2. ASSUME NEW p \in accountExecuted, p[1] \in DOMAIN accountCalls'
        PROVE  accountCalls'[p[1]].key = p[2] /\ accountCalls'[p[1]].status \in {"result", "error"}
    <3>1. [key |-> k, status |-> s] \in Account!CallEntry
      BY <1>2 DEF Account!CallEntry
    <3>2. p[1] \in 1 .. Len(accountCalls) + 1
      BY <1>0, <2>1, <2>2, <3>1
    <3>3. CASE p[1] = Len(accountCalls) + 1
      <4>1. accountCalls'[p[1]] = [key |-> k, status |-> s]
        BY <1>0, <2>1, <3>1, <3>3
      <4> QED BY <1>2, <2>1, <3>3, <4>1 DEF Account!Statuses
    <3>4. CASE p[1] # Len(accountCalls) + 1
      <4>1. p[1] \in DOMAIN accountCalls /\ accountCalls'[p[1]] = accountCalls[p[1]]
        BY <1>0, <2>1, <3>1, <3>2, <3>4
      <4> QED BY <4>1
    <3> QED BY <3>3, <3>4
  <2> QED BY <2>1, <2>2
<1>3. ASSUME NEW o \in Account!Outcomes, Account!Finish(o)
      PROVE  /\ UNCHANGED <<accountCalls, accountExecuted>>
             /\ \A p \in accountExecuted : p[1] \in DOMAIN accountCalls
  <2>1. /\ UNCHANGED <<accountCalls, accountExecuted>>
        /\ \A p \in accountExecuted : p[1] <= Len(accountCalls)
    BY <1>3 DEF Account!Finish
  <2>2. ASSUME NEW p \in accountExecuted PROVE p[1] \in DOMAIN accountCalls
    <3>1. p[1] \in Nat \ {0} /\ p[1] <= Len(accountCalls) /\ Len(accountCalls) \in Nat
      BY <1>0, <2>1
    <3>2. DOMAIN accountCalls = 1 .. Len(accountCalls)
      BY <1>0
    <3> QED BY <3>1, <3>2
  <2> QED BY <2>1, <2>2
<1>4. CASE AccountStep
  BY <1>1, <1>2, <1>3, <1>4 DEF AccountStep
<1>5. CASE LateExecution
  BY <1>1, <1>5 DEF LateExecution
<1> QED BY <1>4, <1>5

LEMMA RecordedStep ==
  ASSUME TypeOK, RoutesByNode, Noted, Recorded, [Next]_vars
  PROVE  Recorded'
<1> DEFINE Same == UNCHANGED <<accountVars, salesVars, escalation, routes, reasons>>
<1>0. ASSUME Same, node' \in Early => node \in Early,
             node' \in Writing \cup {"end"} => node \in Writing \cup {"end"}
      PROVE  Recorded'
  BY <1>0 DEF Recorded, accountVars, salesVars, ComputedReasons
<1>1. CASE SalesStep
  BY <1>1 DEF SalesStep, Raise, Recorded, Early, Writing, accountVars
<1>2. CASE AccountStep
  <2>1. /\ node' \notin Early \cup Writing \cup {"end"} /\ UNCHANGED routes /\ "account" \in routes
    BY <1>2 DEF AccountStep, Raise, Early, Writing
  <2> QED BY <1>2, <2>1, RecordedLoop DEF Recorded
<1>3. CASE LateExecution
  <2>1. /\ node' \notin Early \cup Writing \cup {"end"} /\ UNCHANGED routes /\ "account" \in routes
    BY <1>3 DEF LateExecution, Early, Writing
  <2> QED BY <1>3, <2>1, RecordedLoop DEF Recorded
<1>4. CASE Intake \/ Router
  <2>1. node' \notin Writing \cup {"end"} /\ node \in Early /\ UNCHANGED <<accountCalls, accountExecuted>>
    BY <1>4, RouteToOne DEF Intake, Router, Early, Writing, accountVars
  <2> QED BY <2>1 DEF Recorded
<1>5. CASE OpenSession \/ RouterRaises \/ Merge \/ VerifyClean \/ VerifyViolation
  <2>1. Same
    BY <1>5 DEF OpenSession, RouterRaises, Merge, VerifyClean, VerifyViolation, replyVars
  <2> QED BY <1>0, <1>5, <2>1 DEF OpenSession, RouterRaises, Merge, VerifyClean, VerifyViolation,
        Raise, Early, Writing
<1>6. CASE WriterRaises \/ VerifierReplyMalformed \/ Regenerate \/ Ended \/ UNCHANGED vars
  <2>1. Same
    BY <1>6 DEF WriterRaises, VerifierReplyMalformed, Regenerate, Ended, vars, replyVars
  <2> QED BY <1>0, <1>6, <2>1 DEF WriterRaises, VerifierReplyMalformed, Regenerate, AfterRegenerate,
        Ended, vars, Raise, Early, Writing
<1>7. CASE Clarify
  <2>1. ComputedReasons = {}
    BY <1>7 DEF Clarify, RoutesByNode, Early, ComputedReasons, LoopReasons, ToolErrors,
       Sales!NoAnswerOutcomes
  <2>2. Same /\ node' = "end"
    BY <1>7 DEF Clarify
  <2>3. ComputedReasons' = ComputedReasons
    BY <2>2 DEF ComputedReasons, salesVars, accountVars
  <2> QED BY <2>1, <2>2, <2>3 DEF Recorded, accountVars, Early
<1>8. CASE EscalateSkipped \/ EscalateCalls
  BY <1>8 DEF EscalateSkipped, EscalateCalls, Raise, Recorded, accountVars, Early, Writing
<1>9. CASE Synthesis
  <2>1. /\ UNCHANGED <<salesVars, accountVars, escalation, routes>> /\ node' = "verify"
        /\ reasons' = ComputedReasons
    BY <1>9 DEF Synthesis
  <2>2. ComputedReasons' = ComputedReasons
    BY <2>1 DEF ComputedReasons, salesVars, accountVars
  <2> QED BY <2>1, <2>2 DEF Recorded, accountVars, Early
<1>10. CASE RecheckClean \/ RecheckViolation
  <2>1. /\ UNCHANGED <<salesVars, accountVars, escalation, routes>> /\ node' = "end"
        /\ reasons \subseteq reasons' /\ node = "recheck"
    BY <1>10 DEF RecheckClean, RecheckViolation, FinishVerify, WithReason
  <2>2. ComputedReasons' = ComputedReasons
    BY <2>1 DEF ComputedReasons, salesVars, accountVars
  <2> QED BY <2>1, <2>2 DEF Recorded, accountVars, Early, Writing
<1> QED BY <1>1, <1>2, <1>3, <1>4, <1>5, <1>6, <1>7, <1>8, <1>9, <1>10 DEF Next, GraphStep

IInv == /\ TypeOK /\ RoutesByNode /\ Noted /\ MishapsReported /\ Escalated /\ NoExecution /\ Finitely
        /\ Recorded

LEMMA Invariant == Spec => []IInv
<1>1. Init => IInv
  <2>1. Init => MishapsReported /\ NoExecution
    BY DEF Init, MishapsReported, NoExecution, Account!ContractInit
  <2>2. Init => Finitely
    <3>1. Init => {p \in accountExecuted : p[2] \in TicketKeys} = {}
      BY DEF Init, Account!ContractInit
    <3> QED BY <3>1, FS_EmptySet DEF Finitely
  <2> QED BY <2>1, <2>2, TypeInit, RoutesInit, NotedInit, EscalatedInit, RecordedInit DEF IInv
<1>2. IInv /\ [Next]_vars => IInv'
  BY TypeStep, RoutesStep, NotedStep, ReportedStep, EscalatedStep, NoExecutionStep, FinitelyStep,
     RecordedStep DEF IInv
<1> QED BY <1>1, <1>2, PTL DEF Spec

\* The turn's state is well typed, and a turn opens at most one ticket of its own.
THEOREM TurnTyped == Spec => []TypeOK
<1>1. IInv => TypeOK
  BY DEF IInv
<1> QED BY <1>1, Invariant, PTL

\* No mishap is lost or invented between the node that met it and the response.
THEOREM EveryMishapReported == Spec => []MishapsReported
<1>1. IInv => MishapsReported
  BY DEF IInv
<1> QED BY <1>1, Invariant, PTL

\* No ticket is opened behind the back of the model that writes the reply: the
\* merge waits for both loops, a finished loop has recorded what the server ran,
\* and what it recorded as an error stays among the reasons to the end.
THEOREM NoTicketUndisclosed == Spec => []TicketsDisclosed
<1>1. IInv => TicketsDisclosed
  <2> SUFFICES ASSUME IInv, node = "end" PROVE TicketsDisclosed
    BY DEF TicketsDisclosed
  <2>1. nodeTickets = (IF escalation = "escalated" THEN 1 ELSE 0)
    BY DEF IInv, TypeOK, Escalated
  <2>2. ASSUME NEW p \in accountExecuted
        PROVE  /\ p[1] \in DOMAIN accountCalls /\ accountCalls[p[1]].key = p[2]
               /\ \/ accountCalls[p[1]].status = "result"
                  \/ accountCalls[p[1]].status = "error" /\ <<"account", "tool_error">> \in reasons
    <3>1. "account" \notin routes \/ accountOutcome # "running"
      BY DEF IInv, RoutesByNode, Late, LoopsOver, LoopOver
    <3>2. /\ p[1] \in DOMAIN accountCalls /\ accountCalls[p[1]].key = p[2]
          /\ accountCalls[p[1]].status \in {"result", "error"}
      BY <3>1 DEF IInv, Recorded
    <3>3. ComputedReasons \subseteq reasons
      BY DEF IInv, Recorded
    <3>4. accountCalls[p[1]].status = "error" => <<"account", "tool_error">> \in ComputedReasons
      BY <3>2 DEF ComputedReasons, LoopReasons, ToolErrors
    <3> QED BY <3>2, <3>3, <3>4
  <2> QED BY <2>1, <2>2 DEF TicketsDisclosed
<1> QED BY <1>1, Invariant, PTL

\* A loop that ended with a flag, or a router that asked for a human, leads to an
\* escalation before the reply is written, and nothing else does.
THEOREM FlaggedLoopsEscalate == Spec => []FlaggedEscalated
<1>1. IInv => FlaggedEscalated
  BY DEF IInv, FlaggedEscalated, EscalationDue, Escalated, Late, Writing, NeedsEscalation
<1> QED BY <1>1, Invariant, PTL

\* Neither the account agent's server nor the escalate node acts for an anonymous
\* caller: no account tool runs, no ticket is opened, no refusal ends the turn.
THEOREM AnonymousTurnsRunNoAccountTool == Spec => []AnonymousDegrades
<1>1. IInv => AnonymousDegrades
  <2> SUFFICES ASSUME IInv, ~authenticated
               PROVE  accountExecuted = {} /\ Tickets = 0 /\ cause # "tool"
    BY DEF AnonymousDegrades
  <2>1. accountExecuted = {} /\ nodeTickets = 0 /\ cause # "tool"
    BY DEF IInv, NoExecution
  <2>2. {p \in accountExecuted : p[2] \in TicketKeys} = {}
    BY <2>1
  <2> QED BY <2>1, <2>2, FS_EmptySet DEF Tickets
<1> QED BY <1>1, Invariant, PTL

-----------------------------------------------------------------------------
\* What a verifier that follows its prompts lets pass is backed.
LEMMA CleanIsBacked ==
  ASSUME VerifierSound, \A d \in Drafts : d.claim # "none" => d.vocab,
         reply \in Text, MayBeClean(reply)
  PROVE  Backed(reply)
<1>1. reply.claim # "none" => reply.vocab
  BY DEF Text, NoClaim
<1> QED BY <1>1 DEF MayBeClean, Stage1, Stage2, Backed

\* A reply at the end was let pass, replaced by a fallback, or asks a question.
Vouched == node = "end" => routes = {"clarify"} \/ Backed(reply)

LEMMA VouchedStep ==
  ASSUME VerifierSound, \A d \in Drafts : d.claim # "none" => d.vocab,
         IInv, Vouched, [Next]_vars
  PROVE  Vouched'
<1> USE DEF Vouched
<1>1. CASE SalesStep \/ AccountStep \/ LateExecution
  BY <1>1 DEF SalesStep, AccountStep, LateExecution, Raise
<1>2. CASE Clarify
  BY <1>2 DEF Clarify, IInv, RoutesByNode
<1>3. CASE VerifyClean
  <2>1. Backed(reply) /\ UNCHANGED <<reply, escalation>>
    BY <1>3, CleanIsBacked DEF VerifyClean, IInv, TypeOK, replyVars
  <2> QED BY <2>1 DEF Backed
<1>4. CASE RecheckClean
  <2>1. Backed(reply) /\ UNCHANGED <<reply, escalation>>
    BY <1>4, CleanIsBacked DEF RecheckClean, FinishVerify, IInv, TypeOK
  <2> QED BY <2>1 DEF Backed
<1>5. CASE RecheckViolation
  BY <1>5 DEF RecheckViolation, FinishVerify, Replacement, NoClaim, Backed
<1>6. CASE Router
  BY <1>6, RouteToOne DEF Router
<1>7. CASE OpenSession \/ Intake \/ RouterRaises \/ Merge \/ EscalateSkipped \/ EscalateCalls
           \/ Synthesis \/ WriterRaises \/ VerifyViolation \/ VerifierReplyMalformed \/ Regenerate
  BY <1>7 DEF OpenSession, Intake, RouterRaises, Merge, EscalateSkipped, EscalateCalls, Synthesis,
     WriterRaises, VerifyViolation, VerifierReplyMalformed, Regenerate, AfterRegenerate, Raise
<1>8. CASE Ended \/ UNCHANGED vars
  BY <1>8 DEF Ended, vars, replyVars, Backed
<1> QED BY <1>1, <1>2, <1>3, <1>4, <1>5, <1>6, <1>7, <1>8 DEF Next, GraphStep

\* A backed reply is an honest one: a handoff has its ticket.
LEMMA BackedIsHonest ==
  ASSUME IInv, Vouched
  PROVE  HonestReply
<1>1. \A d : Backed(d) => d.claim \in {"none", "handoff"}
  BY DEF Backed
<1>2. ASSUME escalation = "escalated" PROVE Tickets > 0
  <2>1. IsFiniteSet({p \in accountExecuted : p[2] \in TicketKeys})
    BY DEF IInv, Finitely
  <2> QED BY <1>2, <2>1, FS_CardinalityType DEF Tickets, IInv, Escalated, TypeOK
<1> QED BY <1>1, <1>2 DEF HonestReply, Vouched, Synthesized, Backed

\* If the verifier follows its prompts and no claim avoids the gate's vocabulary,
\* the code around it lets no unbacked claim reach the customer.
THEOREM RepliesAreHonest ==
  ASSUME VerifierSound, \A d \in Drafts : d.claim # "none" => d.vocab
  PROVE  Spec => []HonestReply
<1>1. Init => Vouched
  BY DEF Init, Vouched
<1>2. IInv /\ Vouched /\ [Next]_vars => Vouched'
  BY VouchedStep
<1>3. IInv /\ Vouched => HonestReply
  BY BackedIsHonest
<1> QED BY <1>1, <1>2, <1>3, Invariant, PTL DEF Spec
=============================================================================
