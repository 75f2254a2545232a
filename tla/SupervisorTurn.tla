--------------------------- MODULE SupervisorTurn ---------------------------
(***************************************************************************)
(* One conversation turn: agents/runner.py::run_turn, which opens an MCP   *)
(* session and runs the supervisor graph of agents/graph.py, whose nodes   *)
(* are in agents/nodes.py and agents/action_claims.py.                     *)
(*                                                                         *)
(* The two sub-agents run in the same superstep and interleave at every    *)
(* await; each is an instance of ToolLoopContract, which ToolLoop          *)
(* implements.  Every other node runs alone and blocks, so it is one step  *)
(* except where it awaits or can stop half-way.  An exception that no node *)
(* catches leaves run_turn: node "raised".                                 *)
(***************************************************************************)
EXTENDS Naturals, Sequences, FiniteSets

CONSTANTS
  SalesKeys,      \* calls search_listings and search_policy_docs may take
  OrderKeys,      \* calls of get_order_status and list_my_orders
  TicketKeys,     \* calls of escalate_to_human the account agent may make
  MaxIterations,  \* cap of each sub-agent's loop
  Drafts,         \* replies a model may write: [claim, vocab]
  VerifierSound   \* whether the verifier model follows its two prompts

ASSUME CapAssumption == MaxIterations \in Nat
ASSUME DraftsAssumption ==
  \A d \in Drafts : d.claim \in {"none", "handoff", "other"} /\ d.vocab \in BOOLEAN

VARIABLES
  node,          \* the graph node about to run, or "end" / "raised"
  authenticated, \* identity.customer_id is not None
  routes,        \* state["routes"]
  question,      \* state["clarify_question"]: a default, or the router model's
  salesCalls, salesExecuted, salesOutcome,         \* the sales agent's loop
  accountCalls, accountExecuted, accountOutcome,   \* the account agent's loop
  escalation,    \* state["escalate_result"]: "none", "escalated", "not_created"
  nodeTickets,   \* escalations rows committed by the escalate node
  reply,         \* state["final_response"]
  degraded, reasons,
  mishaps,       \* history: what went wrong, noted when it happened
  cause          \* history: what raised

salesVars == <<salesCalls, salesExecuted, salesOutcome>>
accountVars == <<accountCalls, accountExecuted, accountOutcome>>
replyVars == <<reply, degraded, reasons>>
vars == <<node, authenticated, routes, question, salesVars, accountVars,
          escalation, nodeTickets, replyVars, mishaps, cause>>

AllKeys == SalesKeys \cup OrderKeys \cup TicketKeys

Sales == INSTANCE ToolLoopContract WITH
  Keys <- AllKeys, AllowedKeys <- SalesKeys,
  calls <- salesCalls, executed <- salesExecuted, outcome <- salesOutcome

Account == INSTANCE ToolLoopContract WITH
  Keys <- AllKeys, AllowedKeys <- OrderKeys \cup TicketKeys,
  calls <- accountCalls, executed <- accountExecuted, outcome <- accountOutcome

\* Every account tool goes through customer_scoped_connection, which refuses an
\* anonymous session before the tool's statement runs.
CustomerScoped == authenticated

NoClaim == [claim |-> "none", vocab |-> TRUE]     \* any fixed text of the code
Text == Drafts \cup {NoClaim}

Init ==
  /\ node = "session"
  /\ authenticated \in BOOLEAN
  /\ routes = {}
  /\ question = NoClaim
  /\ Sales!ContractInit
  /\ Account!ContractInit
  /\ escalation = "none"
  /\ nodeTickets = 0
  /\ reply = NoClaim
  /\ degraded = FALSE
  /\ reasons = {}
  /\ mishaps = {}
  /\ cause = "none"

Raise(why) ==
  /\ node' = "raised"
  /\ cause' = why

-----------------------------------------------------------------------------
\* open_mcp_session spawns the tool server and the sub-agents bind its tools.
OpenSession ==
  /\ node = "session"
  /\ \/ node' = "intake" /\ UNCHANGED cause
     \/ Raise("session")
  /\ UNCHANGED <<authenticated, routes, question, salesVars, accountVars, escalation,
                 nodeTickets, replyVars, mishaps>>

\* A blank message is asked back without a model call.
Intake ==
  /\ node = "intake"
  /\ \/ node' = "router" /\ UNCHANGED routes
     \/ node' = "clarify" /\ routes' = {"clarify"}
  /\ UNCHANGED <<authenticated, question, salesVars, accountVars, escalation,
                 nodeTickets, replyVars, mishaps, cause>>

ValidRoutes == {"sales", "account", "clarify", "escalate"}

\* What the router model may put in "routes": any list, names of ours or not.
Proposals == UNION {[1 .. n -> ValidRoutes \cup {"bogus"}] : n \in 0 .. 2}

Usable(p) ==
  /\ p # << >>
  /\ \A i \in DOMAIN p : p[i] \in ValidRoutes
  /\ Len(p) > 1 => \A i \in DOMAIN p : p[i] \notin {"clarify", "escalate"}

RouteTo(p) == IF Usable(p) THEN {p[i] : i \in DOMAIN p} ELSE {"clarify"}

NextAfterRouter(rs) ==
  IF "clarify" \in rs THEN "clarify" ELSE IF "escalate" \in rs THEN "escalate" ELSE "agents"

\* An unparseable reply is the empty decision; its clarify_question, when it
\* has one, replaces the default question.
Router ==
  /\ node = "router"
  /\ \E p \in Proposals :
       /\ routes' = RouteTo(p)
       /\ node' = NextAfterRouter(RouteTo(p))
  /\ question' \in Text
  /\ UNCHANGED <<authenticated, salesVars, accountVars, escalation, nodeTickets,
                 replyVars, mishaps, cause>>

\* The router's own model call is not guarded, and a reply that is no object
\* has no .get.
RouterRaises ==
  /\ node = "router"
  /\ \/ Raise("provider")
     \/ Raise("reply")
  /\ UNCHANGED <<authenticated, routes, question, salesVars, accountVars, escalation,
                 nodeTickets, replyVars, mishaps>>

Clarify ==
  /\ node = "clarify"
  /\ node' = "end"
  /\ reply' = question
  /\ UNCHANGED <<authenticated, routes, question, salesVars, accountVars, escalation,
                 nodeTickets, degraded, reasons, mishaps, cause>>

-----------------------------------------------------------------------------
\* The sub-agents' superstep.
NewMishaps(agent, cs, out) ==
  {<<agent, o>> : o \in {out} \cap Sales!NoAnswerOutcomes}
  \cup {<<agent, "tool_error">> : i \in {j \in DOMAIN cs : cs[j].status = "error"}}

\* A step of one loop while the superstep runs; an exception ends the turn and
\* cancels the other loop.
SalesStep ==
  /\ node = "agents"
  /\ "sales" \in routes
  /\ \/ \E k \in AllKeys : Sales!Execute(k)
     \/ \E k \in AllKeys, s \in Sales!Statuses : Sales!Record(k, s)
     \/ \E o \in Sales!Outcomes : Sales!Finish(o)
  /\ IF salesOutcome' = "raised" THEN Raise("reply") ELSE UNCHANGED <<node, cause>>
  /\ mishaps' = mishaps \cup NewMishaps("sales", salesCalls', salesOutcome')
  /\ UNCHANGED <<authenticated, routes, question, accountVars, escalation, nodeTickets,
                 replyVars>>

AccountStep ==
  /\ node = "agents"
  /\ "account" \in routes
  /\ \/ CustomerScoped /\ \E k \in AllKeys : Account!Execute(k)
     \/ \E k \in AllKeys, s \in Account!Statuses : Account!Record(k, s)
     \/ \E o \in Account!Outcomes : Account!Finish(o)
  /\ IF accountOutcome' = "raised" THEN Raise("reply") ELSE UNCHANGED <<node, cause>>
  /\ mishaps' = mishaps \cup NewMishaps("account", accountCalls', accountOutcome')
  /\ UNCHANGED <<authenticated, routes, question, salesVars, escalation, nodeTickets,
                 replyVars>>

\* A cancelled loop's call may already be with the server, which finishes it.
LateExecution ==
  /\ node = "raised"
  /\ "account" \in routes
  /\ CustomerScoped
  /\ \E k \in AllKeys : Account!Execute(k)
  /\ UNCHANGED <<node, authenticated, routes, question, salesVars, escalation,
                 nodeTickets, replyVars, mishaps, cause>>

LoopOver(agent, out) == agent \in routes => out # "running"
LoopsOver_Either ==
  \E a \in {<<"sales", salesOutcome>>, <<"account", accountOutcome>>} :
    a[1] \in routes /\ LoopOver(a[1], a[2])
LoopsOver == LoopOver("sales", salesOutcome) /\ LoopOver("account", accountOutcome)

NeedsEscalation_CapOnly == "hit_cap" \in {salesOutcome, accountOutcome}
\* any_result_needs_escalation: some loop ended without an answer.
NeedsEscalation == {salesOutcome, accountOutcome} \cap Sales!NoAnswerOutcomes # {}

Merge ==
  /\ node = "agents"
  /\ LoopsOver
  /\ node' = IF NeedsEscalation THEN "escalate" ELSE "synthesis"
  /\ UNCHANGED <<authenticated, routes, question, salesVars, accountVars, escalation,
                 nodeTickets, replyVars, mishaps, cause>>

-----------------------------------------------------------------------------
MayCallEscalate_Always == TRUE
MayCallEscalate == authenticated

\* No customer to open a ticket for: said so instead of called.
EscalateSkipped ==
  /\ node = "escalate"
  /\ ~MayCallEscalate
  /\ node' = "synthesis"
  /\ escalation' = "not_created"
  /\ mishaps' = mishaps \cup {<<"escalation", "not_created">>}
  /\ UNCHANGED <<authenticated, routes, question, salesVars, accountVars, nodeTickets,
                 replyVars, cause>>

\* The unguarded call: the row is committed and the result comes back, or the
\* call raises, before or after the commit.
EscalateCalls ==
  /\ node = "escalate"
  /\ MayCallEscalate
  /\ \/ /\ authenticated
        /\ nodeTickets' = nodeTickets + 1
        /\ escalation' = "escalated"
        /\ node' = "synthesis"
        /\ UNCHANGED cause
     \/ /\ nodeTickets' \in {nodeTickets} \cup (IF authenticated THEN {nodeTickets + 1} ELSE {})
        /\ Raise("tool")
        /\ UNCHANGED escalation
  /\ UNCHANGED <<authenticated, routes, question, salesVars, accountVars, replyVars, mishaps>>

-----------------------------------------------------------------------------
ToolErrors(cs) == {i \in DOMAIN cs : cs[i].status = "error"}

LoopReasons(agent, cs, out) ==
  {<<agent, o>> : o \in {out} \cap Sales!NoAnswerOutcomes}
  \cup {<<agent, "tool_error">> : i \in ToolErrors(cs)}

\* compute_degradation, from the state alone.
ComputedReasons ==
  LoopReasons("sales", salesCalls, salesOutcome)
  \cup LoopReasons("account", accountCalls, accountOutcome)
  \cup (IF escalation = "not_created" THEN {<<"escalation", "not_created">>} ELSE {})

Synthesis ==
  /\ node = "synthesis"
  /\ reply' \in Drafts
  /\ reasons' = ComputedReasons
  /\ degraded' = (ComputedReasons # {})
  /\ node' = "verify"
  /\ UNCHANGED <<authenticated, routes, question, salesVars, accountVars, escalation,
                 nodeTickets, mishaps, cause>>

\* Neither synthesis nor the verifier guards its model calls.
WriterRaises ==
  /\ node \in {"synthesis", "verify", "regenerate", "recheck"}
  /\ node \in {"verify", "recheck"} => reply.vocab
  /\ Raise("provider")
  /\ UNCHANGED <<authenticated, routes, question, salesVars, accountVars, escalation,
                 nodeTickets, replyVars, mishaps>>

-----------------------------------------------------------------------------
(* check_draft.  Stage 0 clears a draft without action vocabulary.  Stages  *)
(* 1 and 2 are model calls whose verdict is free, except that a sound       *)
(* verifier detects every claim and substantiates a handoff only by the     *)
(* escalation result, and nothing else ever.                                *)

Backed(d) == d.claim = "none" \/ (d.claim = "handoff" /\ escalation = "escalated")

Stage1(d) == {"unparseable", "claim"} \cup
             (IF VerifierSound /\ d.claim # "none" THEN {} ELSE {"no_claim"})
Stage2(d) == {"unparseable", "unsubstantiated"} \cup
             (IF VerifierSound /\ ~Backed(d) THEN {} ELSE {"substantiated"})

MayBeClean_FailsOpen(d) ==
  ~d.vocab \/ Stage1(d) \cap {"unparseable", "no_claim"} # {} \/ "substantiated" \in Stage2(d)
MayBeClean(d) ==
  ~d.vocab \/ "no_claim" \in Stage1(d) \/ "substantiated" \in Stage2(d)
MayBeViolation(d) ==
  d.vocab /\ ("unparseable" \in Stage1(d) \/ Stage2(d) \cap {"unparseable", "unsubstantiated"} # {})

VerifyClean ==
  /\ node = "verify"
  /\ MayBeClean(reply)
  /\ node' = "end"
  /\ UNCHANGED <<authenticated, routes, question, salesVars, accountVars, escalation,
                 nodeTickets, replyVars, mishaps, cause>>

\* The one regeneration: same results, the draft and a correction, no note.
VerifyViolation ==
  /\ node = "verify"
  /\ MayBeViolation(reply)
  /\ node' = "regenerate"
  /\ UNCHANGED <<authenticated, routes, question, salesVars, accountVars, escalation,
                 nodeTickets, replyVars, mishaps, cause>>

\* Claims that lack the keys or the shape format_violations and check_draft
\* expect raise instead of failing closed.
VerifierReplyMalformed ==
  /\ node \in {"verify", "recheck"}
  /\ reply.vocab
  /\ Raise("reply")
  /\ UNCHANGED <<authenticated, routes, question, salesVars, accountVars, escalation,
                 nodeTickets, replyVars, mishaps>>

AfterRegenerate_Unbounded == "verify"
AfterRegenerate == "recheck"

Regenerate ==
  /\ node = "regenerate"
  /\ reply' \in Drafts
  /\ node' = AfterRegenerate
  /\ UNCHANGED <<authenticated, routes, question, salesVars, accountVars, escalation,
                 nodeTickets, degraded, reasons, mishaps, cause>>

WithReason_Overwrites(r) == {r}
WithReason(r) == reasons \cup {r}

FinishVerify(text, r) ==
  /\ node' = "end"
  /\ reply' = text
  /\ degraded' = TRUE
  /\ reasons' = WithReason(r)
  /\ mishaps' = mishaps \cup {r}
  /\ UNCHANGED <<authenticated, routes, question, salesVars, accountVars, escalation,
                 nodeTickets, cause>>

RecheckClean ==
  /\ node = "recheck"
  /\ MayBeClean(reply)
  /\ FinishVerify(reply, <<"reply", "corrected">>)

Replacement == NoClaim

RecheckViolation ==
  /\ node = "recheck"
  /\ MayBeViolation(reply)
  /\ FinishVerify(Replacement, <<"reply", "replaced">>)

-----------------------------------------------------------------------------
GraphStep ==
  \/ OpenSession \/ Intake \/ Router \/ RouterRaises \/ Clarify
  \/ Merge \/ EscalateSkipped \/ EscalateCalls
  \/ Synthesis \/ WriterRaises \/ VerifyClean \/ VerifyViolation
  \/ VerifierReplyMalformed \/ Regenerate \/ RecheckClean \/ RecheckViolation

Ended == node \in {"end", "raised"} /\ UNCHANGED vars

Next == GraphStep \/ SalesStep \/ AccountStep \/ LateExecution \/ Ended

Spec == Init /\ [][Next]_vars

\* Model calls and awaited tool replies come back, and each loop is scheduled.
FairSpec == Spec /\ WF_vars(GraphStep) /\ WF_vars(SalesStep) /\ WF_vars(AccountStep)

-----------------------------------------------------------------------------
Tickets == nodeTickets + Cardinality({p \in accountExecuted : p[2] \in TicketKeys})
Synthesized == node = "end" /\ routes # {"clarify"}

Reason ==
  ({"sales", "account"} \X (Sales!NoAnswerOutcomes \cup {"tool_error"}))
  \cup {<<"escalation", "not_created">>, <<"reply", "corrected">>, <<"reply", "replaced">>}

TypeOK ==
  /\ node \in {"session", "intake", "router", "clarify", "agents", "escalate", "synthesis",
              "verify", "regenerate", "recheck", "end", "raised"}
  /\ routes \in SUBSET ValidRoutes
  /\ question \in Text /\ reply \in Text
  /\ Sales!ContractTypeOK /\ Account!ContractTypeOK
  /\ escalation \in {"none", "escalated", "not_created"}
  /\ nodeTickets \in 0 .. 1
  /\ degraded \in BOOLEAN
  /\ reasons \subseteq Reason /\ mishaps \subseteq Reason

\* A reply written for the customer after the agents ran claims a handoff only
\* if this turn really opened a ticket, and never another state change: no
\* tool can cancel, book or refund.  Holds if the verifier follows its prompts.
HonestReply ==
  Synthesized =>
    /\ reply.claim # "other"
    /\ reply.claim = "handoff" => Tickets > 0

\* Everything that went wrong in the turn is named in degradation_reasons, and
\* nothing else is: neither a later node nor the verifier loses a reason.
MishapsReported ==
  node = "end" => reasons = mishaps /\ (degraded <=> mishaps # {})

\* A loop ended with one of the three flags, or the router asked for a human.
EscalationDue ==
  routes = {"escalate"} \/ {salesOutcome, accountOutcome} \cap Sales!NoAnswerOutcomes # {}

\* The reply is written after the escalation was made, or recorded as impossible,
\* exactly when a loop ended with a flag or the router asked for it, and the
\* escalate node opens no ticket for another reason. A final reply with a null
\* answer carries no flag and is not covered: ToolLoop's AnswerOrFlag.
FlaggedEscalated ==
  /\ node \in {"synthesis", "verify", "regenerate", "recheck", "end"} =>
       (escalation # "none" <=> EscalationDue)
  /\ nodeTickets > 0 => EscalationDue

\* Every ticket of a turn that ends with a reply was before the model that wrote
\* it: as the escalation's result, or in the account agent's call record as a
\* result, or, its reply lost, as an error that is among the reasons.
TicketsDisclosed ==
  node = "end" =>
    /\ nodeTickets = (IF escalation = "escalated" THEN 1 ELSE 0)
    /\ \A p \in accountExecuted : p[2] \in TicketKeys =>
         \E i \in DOMAIN accountCalls :
           /\ i = p[1] /\ accountCalls[i].key = p[2]
           /\ \/ accountCalls[i].status = "result"
              \/ accountCalls[i].status = "error" /\ <<"account", "tool_error">> \in reasons

\* An anonymous turn runs no tool of the account agent, whatever its model asks
\* for, opens no ticket by either path, and never fails for being unable to.
AnonymousDegrades == ~authenticated => accountExecuted = {} /\ Tickets = 0 /\ cause # "tool"

\* Every turn ends, with a reply or an exception.
TurnEnds == <>(node \in {"end", "raised"})

-----------------------------------------------------------------------------
(* What a test of the repository says and the code does not do.             *)

\* A provider hiccup never propagates an exception out of run_turn.
ProviderHiccupContained == cause # "provider"
=============================================================================
