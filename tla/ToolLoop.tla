------------------------------ MODULE ToolLoop ------------------------------
(***************************************************************************)
(* One run of agents/tool_loop.py::run_tool_loop for one sub-agent, with    *)
(* the tool server at the other end of SubAgent.call_tool.                 *)
(*                                                                         *)
(* The code between two awaits is one step: the budget check, the          *)
(* (blocking) LLM call, the handling of its reply and, when no tool is     *)
(* called, the recording of the observation.  A call that reaches the      *)
(* server suspends the loop; the server may run it and still not deliver   *)
(* its reply.                                                              *)
(***************************************************************************)
EXTENDS Naturals, Sequences

CONSTANTS
  Keys,           \* cache keys: (tool, arguments) pairs the model may ask for
  AllowedKeys,    \* those whose tool is in sub_agent.allowed_tools
  MaxIterations,  \* max_iterations
  TokenBudget,    \* token_budget
  FirstPrompts,   \* estimated sizes of the system and user messages
  StepTokens,     \* what one assistant message and its observation can add
  Answer,         \* any text of a final answer
  NoAnswer        \* Python's None

ASSUME KeysAssumption == AllowedKeys \subseteq Keys
ASSUME BoundsAssumption == MaxIterations \in Nat \ {0} /\ TokenBudget \in Nat
ASSUME TokensAssumption == FirstPrompts \subseteq Nat /\ StepTokens \subseteq Nat
ASSUME AnswerAssumption == Answer # NoAnswer

VARIABLES
  pc,         \* "prompt", "calling" (request sent), "served" (server ran it), "done", "raised"
  request,    \* the key of the call that is out
  tokens,     \* estimate_messages_tokens(messages)
  calls,      \* tool_calls, abstracted to key and kind of entry
  cache,      \* DOMAIN of call_cache
  result,     \* the ToolLoopResult's answer and flags
  executed,   \* history: <<n, k>> when the server ran k as the n-th call
  spent       \* history: estimated tokens of all prompts sent so far

vars == <<pc, request, tokens, calls, cache, result, executed, spent>>

CallEntry == [key : Keys, status : {"result", "error", "cached"}]
LoopResult == [final_answer : {Answer, NoAnswer}, hit_cap : BOOLEAN,
               llm_call_failed : BOOLEAN, hit_budget_guard : BOOLEAN]

\* _loop_result's defaults: no answer and no flag.
EmptyResult == [final_answer |-> NoAnswer, hit_cap |-> FALSE,
                llm_call_failed |-> FALSE, hit_budget_guard |-> FALSE]

Init ==
  /\ pc = "prompt"
  /\ request \in Keys
  /\ tokens \in FirstPrompts
  /\ calls = << >>
  /\ cache = {}
  /\ result = EmptyResult
  /\ executed = {}
  /\ spent = 0

-----------------------------------------------------------------------------
\* `iteration` counts the calls recorded so far: every pass of the for loop
\* that does not return records exactly one.
Capped == Len(calls) = MaxIterations

OverBudget_FirstPromptUnchecked == Len(calls) > 1 /\ tokens >= TokenBudget
OverBudget == tokens >= TokenBudget

Return(r) ==
  /\ pc' = "done"
  /\ result' = r
  /\ UNCHANGED <<request, tokens, calls, cache, executed>>

HitCap ==
  /\ pc = "prompt"
  /\ Capped
  /\ Return([EmptyResult EXCEPT !.hit_cap = TRUE])
  /\ UNCHANGED spent

BudgetGuard ==
  /\ pc = "prompt"
  /\ ~Capped
  /\ OverBudget
  /\ Return([EmptyResult EXCEPT !.hit_budget_guard = TRUE])
  /\ UNCHANGED spent

\* llm.complete(messages) is reached, whatever comes back.
Prompt ==
  /\ pc = "prompt"
  /\ ~Capped
  /\ ~OverBudget
  /\ spent' = spent + tokens

LLMCallFails == Prompt /\ Return([EmptyResult EXCEPT !.llm_call_failed = TRUE])

\* Unparseable JSON or an unknown action: the raw reply is the answer.
RawReply == Prompt /\ Return([EmptyResult EXCEPT !.final_answer = Answer])

\* {"action": "final"}: the answer is whatever the object holds, null included.
FinalReply == \E a \in {Answer, NoAnswer} :
  Prompt /\ Return([EmptyResult EXCEPT !.final_answer = a])

\* JSON that is not an object has no .get: the exception leaves the loop.
NotAnObject ==
  /\ Prompt
  /\ pc' = "raised"
  /\ UNCHANGED <<request, tokens, calls, cache, result, executed>>

-----------------------------------------------------------------------------
\* One more recorded call and its observation in the message history.
Observe_RecordsErrorAsResult(k, status) ==
  /\ calls' = Append(calls, [key |-> k, status |-> "result"])
  /\ \E d \in StepTokens : tokens' = tokens + d
  /\ pc' = "prompt"
Observe(k, status) ==
  /\ calls' = Append(calls, [key |-> k, status |-> status])
  /\ \E d \in StepTokens : tokens' = tokens + d
  /\ pc' = "prompt"

CacheHolds_Never(k) == FALSE
CacheHolds(k) == k \in cache

\* The same tool with the same arguments already returned in this loop.
CachedCall(k) ==
  /\ Prompt
  /\ CacheHolds(k)
  /\ Observe(k, "cached")
  /\ UNCHANGED <<request, cache, result, executed>>

\* SubAgent.call_tool raises PermissionError before touching the session.
ForbiddenCall(k) ==
  /\ Prompt
  /\ ~CacheHolds(k)
  /\ k \notin AllowedKeys
  /\ Observe(k, "error")
  /\ UNCHANGED <<request, cache, result, executed>>

\* The call goes to the server and the loop awaits the reply.
SendCall(k) ==
  /\ Prompt
  /\ ~CacheHolds(k)
  /\ k \in AllowedKeys
  /\ pc' = "calling"
  /\ request' = k
  /\ UNCHANGED <<tokens, calls, cache, result, executed>>

\* The server runs the tool's function (for escalate_to_human: commits).
ServerRuns ==
  /\ pc = "calling"
  /\ pc' = "served"
  /\ executed' = executed \cup {<<Len(calls) + 1, request>>}
  /\ UNCHANGED <<request, tokens, calls, cache, result, spent>>

\* isError is false: the result is cached, recorded and observed. Compaction and
\* json.dumps follow in the same try and are taken not to raise: they would have
\* the call recorded a second time, as an error.
CallReturns ==
  /\ pc = "served"
  /\ cache' = cache \cup {request}
  /\ Observe(request, "result")
  /\ UNCHANGED <<request, result, executed, spent>>

CallFails_DeathUnnoticed ==
  /\ pc = "served"
  /\ Observe(request, "error")
  /\ UNCHANGED <<request, cache, result, executed, spent>>
\* isError, a dead server or a lost reply; an error is never cached.
CallFails ==
  /\ pc \in {"calling", "served"}
  /\ Observe(request, "error")
  /\ UNCHANGED <<request, cache, result, executed, spent>>

-----------------------------------------------------------------------------
LoopStep ==
  \/ HitCap \/ BudgetGuard \/ LLMCallFails \/ RawReply \/ FinalReply \/ NotAnObject
  \/ \E k \in Keys : CachedCall(k) \/ ForbiddenCall(k) \/ SendCall(k)
  \/ CallReturns \/ CallFails

\* A loop that has returned or raised takes no further step.
Ended == pc \in {"done", "raised"} /\ UNCHANGED vars

Next == LoopStep \/ ServerRuns \/ Ended

Spec == Init /\ [][Next]_vars

\* llm.complete returns or raises (client timeouts, bounded retries) and the
\* awaited reply or its failure arrives; the server itself owes nothing.
FairSpec == Spec /\ WF_vars(LoopStep)

-----------------------------------------------------------------------------
TypeOK ==
  /\ pc \in {"prompt", "calling", "served", "done", "raised"}
  /\ request \in Keys
  /\ tokens \in Nat
  /\ calls \in Seq(CallEntry)
  /\ cache \in SUBSET Keys
  /\ result \in LoopResult
  /\ executed \in SUBSET ((1 .. MaxIterations) \X Keys)
  /\ spent \in Nat

\* Every entry marked "cached" repeats a key that an earlier entry of the same
\* loop recorded a result for: an error is never served again as a result.
CachedRepeatsResult ==
  \A i \in DOMAIN calls : calls[i].status = "cached" =>
    \E j \in 1 .. i - 1 : calls[j] = [key |-> calls[i].key, status |-> "result"]

\* A result the model was given is never fetched again: two "result" entries
\* of one loop never have the same key.
ResultsDistinct ==
  \A i, j \in DOMAIN calls :
    /\ calls[i].status = "result" /\ calls[j].status = "result"
    /\ calls[i].key = calls[j].key
    => i = j

\* tool_calls is an honest account of what the server did: everything the
\* server ran, except a call still out, is one recorded result or error for
\* that same key, and every recorded result was run and was allowed.
CallsAccountForExecutions ==
  /\ \A p \in executed : p[1] <= Len(calls) =>
       calls[p[1]].key = p[2] /\ calls[p[1]].status \in {"result", "error"}
  /\ \A p \in executed : p[1] > Len(calls) =>
       pc = "served" /\ p = <<Len(calls) + 1, request>>
  /\ \A i \in DOMAIN calls : calls[i].status = "result" =>
       <<i, calls[i].key>> \in executed /\ calls[i].key \in AllowedKeys

\* The three no-answer flags exclude one another and an answer, and the cap is
\* reported exactly when every iteration was spent on a call.
FlagsExclusive ==
  /\ result.hit_cap => result.final_answer = NoAnswer /\ ~result.llm_call_failed
                       /\ ~result.hit_budget_guard
  /\ result.llm_call_failed => result.final_answer = NoAnswer /\ ~result.hit_budget_guard
  /\ result.hit_budget_guard => result.final_answer = NoAnswer
  /\ pc = "done" => (result.hit_cap <=> Len(calls) = MaxIterations)

\* The prompts of a whole loop stay below one budget per iteration, however
\* large the observations are that they carry.
SpentBounded == spent <= (Len(calls) + 1) * TokenBudget

\* Once the loop has been given a result for a key, no later step makes the
\* server run that key again.
NoRepeatedExecution ==
  [][\A p \in executed' \ executed : p[2] \notin cache]_vars

\* Every loop ends, provided LLM calls and awaited replies come back.
Termination == <>(pc \in {"done", "raised"})

-----------------------------------------------------------------------------
\* What run_tool_loop's docstring promises a caller, and a final reply with a
\* null answer breaks: a returned loop has an answer, or one of the three flags.
AnswerOrFlag ==
  pc = "done" => \/ result.final_answer # NoAnswer
                 \/ result.hit_cap \/ result.llm_call_failed \/ result.hit_budget_guard

-----------------------------------------------------------------------------
\* The outcome a caller sees, for the contract.
OutcomeSeen ==
  CASE pc = "raised" -> "raised"
    [] pc = "done" /\ result.hit_cap -> "hit_cap"
    [] pc = "done" /\ result.llm_call_failed -> "llm_call_failed"
    [] pc = "done" /\ result.hit_budget_guard -> "hit_budget_guard"
    [] pc = "done" /\ result = EmptyResult -> "empty"
    [] pc = "done" /\ result.final_answer = Answer -> "answered"
    [] OTHER -> "running"

Contract == INSTANCE ToolLoopContract WITH outcome <- OutcomeSeen

\* The loop implements its contract.
ImplementsContract == Contract!ContractSpec
=============================================================================
