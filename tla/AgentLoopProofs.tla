--------------------------- MODULE AgentLoopProofs ---------------------------
(***************************************************************************)
(* A sub-agent's loop, and the completions it acts on.                     *)
(*                                                                         *)
(* The safety of ToolLoop for every set of keys, cap and token budget.     *)
(* The three claims about tool_calls need one another and two facts about  *)
(* the suspended loop: what cache holds, and that a call that is out is    *)
(* allowed, not cached and within the cap.                                 *)
(*                                                                         *)
(* The span that NormalizeResponse extracts, for a completion of any       *)
(* length.  What the scanner has read is as many openers as it is deep,    *)
(* each followed by what the grammar lets stand inside (HasRead); and it   *)
(* reads over whatever the grammar lets stand inside (InsideIsRead).       *)
(***************************************************************************)
EXTENDS ToolLoop, NormalizeResponse, WellFoundedInduction, TLAPS

\* The cache holds exactly the keys with a recorded result.
CacheIsResults ==
  \A k \in Keys :
    k \in cache <=> \E i \in DOMAIN calls : calls[i] = [key |-> k, status |-> "result"]

\* A call that is out was allowed, not cached, and is within the cap; when the
\* server has run it, the execution log says so.
RequestOut ==
  /\ Len(calls) <= MaxIterations
  /\ pc \in {"calling", "served"} =>
       Len(calls) < MaxIterations /\ request \in AllowedKeys /\ request \notin cache
  /\ pc = "served" => <<Len(calls) + 1, request>> \in executed

\* The result is written by the step that returns, and by no other.
ResultOnce == pc # "done" => result = EmptyResult

\* One budget per prompt already sent.
PromptsSent == IF pc = "prompt" THEN Len(calls) ELSE Len(calls) + 1
SpentPerPrompt == spent <= PromptsSent * TokenBudget

IInv ==
  /\ TypeOK
  /\ CacheIsResults
  /\ RequestOut
  /\ CachedRepeatsResult
  /\ ResultsDistinct
  /\ CallsAccountForExecutions
  /\ ResultOnce
  /\ FlagsExclusive
  /\ SpentPerPrompt

-----------------------------------------------------------------------------
\* Appending an entry extends the list by one and keeps what it held.
LEMMA AppendEntry ==
  ASSUME NEW s \in Seq(CallEntry), NEW e \in CallEntry, NEW t, t = Append(s, e)
  PROVE  /\ t \in Seq(CallEntry)
         /\ Len(s) \in Nat
         /\ Len(t) = Len(s) + 1
         /\ DOMAIN s = 1 .. Len(s)
         /\ DOMAIN t = 1 .. Len(s) + 1
         /\ t[Len(s) + 1] = e
         /\ \A i \in 1 .. Len(s) : t[i] = s[i] /\ s[i] \in CallEntry
  OBVIOUS

\* One more prompt is paid for by one more budget.
LEMMA OneMoreBudget ==
  ASSUME NEW n \in Nat, NEW b \in Nat
  PROVE  /\ n * b \in Nat
         /\ (n + 1) * b = n * b + b
  OBVIOUS

LEMMA InitIInv == Init => IInv
  BY BoundsAssumption, TokensAssumption, AnswerAssumption, SMTT(30)
  DEF Init, IInv, TypeOK, CacheIsResults, RequestOut, CachedRepeatsResult, ResultsDistinct,
      CallsAccountForExecutions, ResultOnce, FlagsExclusive, SpentPerPrompt, PromptsSent,
      EmptyResult, LoopResult, CallEntry

-----------------------------------------------------------------------------
\* At most one flag, and no answer beside it.
Exclusive(r) ==
  /\ r.hit_cap => r.final_answer = NoAnswer /\ ~r.llm_call_failed /\ ~r.hit_budget_guard
  /\ r.llm_call_failed => r.final_answer = NoAnswer /\ ~r.hit_budget_guard
  /\ r.hit_budget_guard => r.final_answer = NoAnswer

\* Returning writes the result and touches nothing the invariant relates
\* except the flags.
LEMMA ReturnKeepsIInv ==
  ASSUME IInv, pc = "prompt", NEW r \in LoopResult, Return(r),
         Exclusive(r),
         r.hit_cap <=> Capped,
         spent' = spent \/ (~OverBudget /\ spent' = spent + tokens)
  PROVE  IInv'
  <1>1. TypeOK' /\ CacheIsResults' /\ RequestOut' /\ CachedRepeatsResult' /\ ResultsDistinct'
        /\ CallsAccountForExecutions' /\ ResultOnce'
    BY DEF IInv, TypeOK, CacheIsResults, RequestOut, CachedRepeatsResult, ResultsDistinct,
           CallsAccountForExecutions, ResultOnce, Return
  <1>2. FlagsExclusive'
    BY DEF FlagsExclusive, Return, Exclusive, Capped
  <1>3. SpentPerPrompt'
    <2>1. spent' <= spent + TokenBudget
      BY BoundsAssumption DEF IInv, TypeOK, OverBudget
    <2>2. PromptsSent = Len(calls) /\ PromptsSent' = Len(calls) + 1
      BY DEF PromptsSent, Return
    <2>3. /\ Len(calls) * TokenBudget \in Nat
          /\ (Len(calls) + 1) * TokenBudget = Len(calls) * TokenBudget + TokenBudget
      BY OneMoreBudget, BoundsAssumption DEF IInv, TypeOK
    <2>4. spent <= Len(calls) * TokenBudget
      BY <2>2 DEF IInv, SpentPerPrompt
    <2>5. spent' \in Nat
      BY <1>1 DEF TypeOK
    <2>. QED
      BY <2>1, <2>2, <2>3, <2>4, <2>5, BoundsAssumption DEF IInv, TypeOK, SpentPerPrompt
  <1>. QED
    BY <1>1, <1>2, <1>3 DEF IInv

\* Recording one call, with everything the four ways to record share.
LEMMA ObserveKeepsIInv ==
  ASSUME IInv, NEW k \in Keys, NEW status \in {"result", "error", "cached"},
         pc \in {"prompt", "calling", "served"}, Len(calls) < MaxIterations,
         Observe(k, status), UNCHANGED <<request, result, executed>>,
         cache' = IF status = "result" THEN cache \cup {k} ELSE cache,
         status = "cached" => k \in cache,
         status = "result" => pc = "served",
         pc # "prompt" => k = request /\ status \in {"result", "error"},
         spent' \in Nat, spent' <= (Len(calls) + 1) * TokenBudget
  PROVE  IInv'
  <1> DEFINE e == [key |-> k, status |-> status]
             n == Len(calls) + 1
  <1>1. /\ calls \in Seq(CallEntry) /\ e \in CallEntry /\ calls' = Append(calls, e)
    BY DEF IInv, TypeOK, CallEntry, Observe
  <1>2. /\ calls' \in Seq(CallEntry)
        /\ Len(calls) \in Nat
        /\ Len(calls') = n
        /\ DOMAIN calls = 1 .. Len(calls)
        /\ DOMAIN calls' = 1 .. n
        /\ calls'[n] = e
        /\ \A i \in 1 .. Len(calls) : calls'[i] = calls[i] /\ calls[i] \in CallEntry
    BY <1>1, AppendEntry
  <1>3. TypeOK'
    BY <1>2, TokensAssumption DEF IInv, TypeOK, Observe
  <1>4. CacheIsResults'
    <2>1. \A q \in Keys : (\E i \in DOMAIN calls' : calls'[i] = [key |-> q, status |-> "result"])
             <=> \/ \E i \in DOMAIN calls : calls[i] = [key |-> q, status |-> "result"]
                 \/ e = [key |-> q, status |-> "result"]
      BY <1>2
    <2>2. \A q \in Keys : e = [key |-> q, status |-> "result"] <=> status = "result" /\ k = q
      OBVIOUS
    <2>. QED
      BY <2>1, <2>2 DEF IInv, TypeOK, CacheIsResults
  <1>5. RequestOut'
    BY <1>2, BoundsAssumption DEF RequestOut, Observe, IInv
  <1>6. CachedRepeatsResult'
    <2>1. ASSUME k \in cache
          PROVE  \E j \in 1 .. n - 1 : calls'[j] = [key |-> k, status |-> "result"]
      BY <1>2, <2>1 DEF IInv, CacheIsResults
    <2>2. \A i \in 1 .. Len(calls) : calls'[i].status = "cached" =>
            \E j \in 1 .. i - 1 : calls'[j] = [key |-> calls'[i].key, status |-> "result"]
      BY <1>2 DEF IInv, CachedRepeatsResult
    <2>3. calls'[n].key = k /\ calls'[n].status = status
      BY <1>2
    <2>. QED
      BY <1>2, <2>1, <2>2, <2>3 DEF CachedRepeatsResult
  <1>7. status = "result" => \A i \in 1 .. Len(calls) :
            calls[i].status = "result" => calls[i].key # k
    <2>1. ASSUME status = "result", NEW i \in 1 .. Len(calls),
                 calls[i].status = "result", calls[i].key = k
          PROVE  FALSE
      <3>1. calls[i] = [key |-> k, status |-> "result"]
        BY <1>2, <2>1 DEF CallEntry
      <3>2. k \in cache
        BY <1>2, <3>1 DEF IInv, CacheIsResults
      <3>. QED
        BY <2>1, <3>2 DEF IInv, RequestOut
    <2>. QED
      BY <2>1
  <1>8. ResultsDistinct'
    BY <1>2, <1>7 DEF IInv, ResultsDistinct
  <1>9. CallsAccountForExecutions'
    <2>1. \A p \in executed : p[1] \in Nat
      BY DEF IInv, TypeOK
    <2>2. \A p \in executed' : p[1] <= Len(calls') =>
            calls'[p[1]].key = p[2] /\ calls'[p[1]].status \in {"result", "error"}
      <3> SUFFICES ASSUME NEW p \in executed, p[1] <= n
                   PROVE  calls'[p[1]].key = p[2] /\ calls'[p[1]].status \in {"result", "error"}
        BY <1>2
      <3>1. CASE p[1] <= Len(calls)
        BY <1>2, <3>1 DEF IInv, TypeOK, CallsAccountForExecutions
      <3>2. CASE p[1] > Len(calls)
        BY <1>2, <3>2 DEF IInv, CallsAccountForExecutions
      <3>. QED
        BY <1>2, <2>1, <3>1, <3>2
    <2>3. \A p \in executed' : p[1] <= Len(calls')
      BY <1>2, <2>1 DEF IInv, CallsAccountForExecutions
    <2>4. \A i \in DOMAIN calls' : calls'[i].status = "result" =>
            <<i, calls'[i].key>> \in executed' /\ calls'[i].key \in AllowedKeys
      BY <1>2 DEF IInv, CallsAccountForExecutions, RequestOut
    <2>. QED
      BY <1>2, <2>1, <2>2, <2>3, <2>4 DEF CallsAccountForExecutions
  <1>10. ResultOnce' /\ FlagsExclusive'
    BY DEF IInv, ResultOnce, FlagsExclusive, Observe, EmptyResult
  <1>11. SpentPerPrompt'
    BY <1>2 DEF SpentPerPrompt, PromptsSent, Observe
  <1>. QED
    BY <1>3, <1>4, <1>5, <1>6, <1>8, <1>9, <1>10, <1>11 DEF IInv

\* A prompt is sent within the cap and under the budget.
LEMMA PromptFacts ==
  ASSUME IInv, Prompt
  PROVE  /\ pc = "prompt" /\ ~Capped /\ Len(calls) < MaxIterations
         /\ ~OverBudget /\ spent' = spent + tokens
         /\ spent' \in Nat /\ spent' <= (Len(calls) + 1) * TokenBudget
  <1>1. pc = "prompt" /\ ~Capped /\ ~OverBudget /\ spent' = spent + tokens
    BY DEF Prompt
  <1>2. Len(calls) < MaxIterations
    BY <1>1, BoundsAssumption DEF IInv, TypeOK, RequestOut, Capped
  <1>3. /\ Len(calls) * TokenBudget \in Nat
        /\ (Len(calls) + 1) * TokenBudget = Len(calls) * TokenBudget + TokenBudget
    BY OneMoreBudget, BoundsAssumption DEF IInv, TypeOK
  <1>4. spent \in Nat /\ spent <= Len(calls) * TokenBudget /\ tokens \in Nat /\ tokens < TokenBudget
    BY <1>1, BoundsAssumption DEF IInv, TypeOK, SpentPerPrompt, PromptsSent, OverBudget
  <1>. QED
    BY <1>1, <1>2, <1>3, <1>4, BoundsAssumption

LEMMA NextIInv == IInv /\ [Next]_vars => IInv'
  <1> SUFFICES ASSUME IInv, [Next]_vars
               PROVE  IInv'
    OBVIOUS
  <1>1. CASE HitCap
    BY <1>1, ReturnKeepsIInv DEF HitCap, Exclusive, EmptyResult, LoopResult
  <1>2. CASE BudgetGuard
    BY <1>2, ReturnKeepsIInv DEF BudgetGuard, Exclusive, EmptyResult, LoopResult
  <1>3. CASE LLMCallFails
    <2>1. Prompt /\ Return([EmptyResult EXCEPT !.llm_call_failed = TRUE])
      BY <1>3 DEF LLMCallFails
    <2>. QED
      BY <2>1, PromptFacts, ReturnKeepsIInv DEF Exclusive, EmptyResult, LoopResult
  <1>4. ASSUME NEW a \in {Answer, NoAnswer}, Prompt,
               Return([EmptyResult EXCEPT !.final_answer = a])
        PROVE  IInv'
    BY <1>4, PromptFacts, ReturnKeepsIInv DEF Exclusive, EmptyResult, LoopResult
  <1>5. CASE NotAnObject
    <2>1. /\ Prompt /\ pc' = "raised"
          /\ UNCHANGED <<request, tokens, calls, cache, result, executed>>
      BY <1>5 DEF NotAnObject
    <2>2. pc = "prompt" /\ spent' \in Nat /\ spent' <= (Len(calls) + 1) * TokenBudget
      BY <2>1, PromptFacts
    <2>. QED
      BY <2>1, <2>2 DEF IInv, TypeOK, CacheIsResults, RequestOut, CachedRepeatsResult,
        ResultsDistinct, CallsAccountForExecutions, ResultOnce, FlagsExclusive,
        SpentPerPrompt, PromptsSent
  <1>6. ASSUME NEW k \in Keys, CachedCall(k)
        PROVE  IInv'
    <2>1. Prompt /\ k \in cache /\ Observe(k, "cached")
          /\ UNCHANGED <<request, cache, result, executed>>
      BY <1>6 DEF CachedCall, CacheHolds
    <2>. QED
      BY <2>1, PromptFacts, ObserveKeepsIInv
  <1>7. ASSUME NEW k \in Keys, ForbiddenCall(k)
        PROVE  IInv'
    <2>1. Prompt /\ Observe(k, "error") /\ UNCHANGED <<request, cache, result, executed>>
      BY <1>7 DEF ForbiddenCall
    <2>. QED
      BY <2>1, PromptFacts, ObserveKeepsIInv
  <1>8. ASSUME NEW k \in Keys, SendCall(k)
        PROVE  IInv'
    <2>1. /\ Prompt /\ k \notin cache /\ k \in AllowedKeys /\ pc' = "calling" /\ request' = k
          /\ UNCHANGED <<tokens, calls, cache, result, executed>>
      BY <1>8 DEF SendCall, CacheHolds
    <2>2. /\ pc = "prompt" /\ Len(calls) < MaxIterations
          /\ spent' \in Nat /\ spent' <= (Len(calls) + 1) * TokenBudget
      BY <2>1, PromptFacts
    <2>. QED
      BY <2>1, <2>2 DEF IInv, TypeOK, CacheIsResults, RequestOut, CachedRepeatsResult,
        ResultsDistinct, CallsAccountForExecutions, ResultOnce, FlagsExclusive,
        SpentPerPrompt, PromptsSent
  <1>9. CASE ServerRuns
    <2>1. /\ pc = "calling" /\ pc' = "served"
          /\ executed' = executed \cup {<<Len(calls) + 1, request>>}
          /\ UNCHANGED <<request, tokens, calls, cache, result, spent>>
      BY <1>9 DEF ServerRuns
    <2>2. Len(calls) \in Nat /\ Len(calls) + 1 \in 1 .. MaxIterations
      BY <2>1, BoundsAssumption DEF IInv, TypeOK, RequestOut
    <2>3. TypeOK' /\ RequestOut' /\ ResultOnce' /\ FlagsExclusive' /\ SpentPerPrompt'
      BY <2>1, <2>2 DEF IInv, TypeOK, RequestOut, ResultOnce, FlagsExclusive,
                        SpentPerPrompt, PromptsSent
    <2>4. CacheIsResults' /\ CachedRepeatsResult' /\ ResultsDistinct'
      BY <2>1 DEF IInv, CacheIsResults, CachedRepeatsResult, ResultsDistinct
    <2>5. CallsAccountForExecutions'
      BY <2>1, <2>2 DEF IInv, CallsAccountForExecutions
    <2>. QED
      BY <2>3, <2>4, <2>5 DEF IInv
  <1>10. CASE CallReturns
    <2>1. /\ pc = "served" /\ cache' = cache \cup {request} /\ Observe(request, "result")
          /\ UNCHANGED <<request, result, executed, spent>>
      BY <1>10 DEF CallReturns
    <2>. QED
      BY <2>1, ObserveKeepsIInv
      DEF IInv, TypeOK, RequestOut, SpentPerPrompt, PromptsSent
  <1>11. CASE CallFails
    <2>1. /\ pc \in {"calling", "served"} /\ Observe(request, "error")
          /\ UNCHANGED <<request, cache, result, executed, spent>>
      BY <1>11 DEF CallFails
    <2>. QED
      BY <2>1, ObserveKeepsIInv
      DEF IInv, TypeOK, RequestOut, SpentPerPrompt, PromptsSent
  <1>12. CASE UNCHANGED vars
    BY <1>12 DEF vars, IInv, TypeOK, CacheIsResults, RequestOut, CachedRepeatsResult,
      ResultsDistinct, CallsAccountForExecutions, ResultOnce, FlagsExclusive,
      SpentPerPrompt, PromptsSent
  <1>. QED
    BY <1>1, <1>2, <1>3, <1>4, <1>5, <1>6, <1>7, <1>8, <1>9, <1>10, <1>11, <1>12
    DEF Next, LoopStep, Ended, RawReply, FinalReply

LEMMA Inductive == Spec => []IInv
  <1>. QED
    BY InitIInv, NextIInv, PTL DEF Spec

-----------------------------------------------------------------------------
\* The variables of run_tool_loop keep their types.
THEOREM TypeCorrect == Spec => []TypeOK
  <1>1. IInv => TypeOK
    BY DEF IInv
  <1>. QED
    BY <1>1, Inductive, PTL

\* Memoization in run_tool_loop: a "cached" entry repeats an earlier result and
\* no key has two results.
THEOREM MemoizationSound == Spec => [](CachedRepeatsResult /\ ResultsDistinct)
  <1>1. IInv => CachedRepeatsResult /\ ResultsDistinct
    BY DEF IInv
  <1>. QED
    BY <1>1, Inductive, PTL

\* The tool_calls list accounts for everything the tool server ran for a loop.
THEOREM Accounting == Spec => []CallsAccountForExecutions
  <1>1. IInv => CallsAccountForExecutions
    BY DEF IInv
  <1>. QED
    BY <1>1, Inductive, PTL

\* The three no-answer flags of a ToolLoopResult exclude each other and an
\* answer, and hit_cap is reported exactly when the iterations ran out.
THEOREM FlagsExclude == Spec => []FlagsExclusive
  <1>1. IInv => FlagsExclusive
    BY DEF IInv
  <1>. QED
    BY <1>1, Inductive, PTL

\* The prompts of one run_tool_loop stay below one token budget per iteration.
THEOREM SpentWithinBudgets == Spec => []SpentBounded
  <1>1. ASSUME IInv PROVE SpentBounded
    <2>1. /\ Len(calls) * TokenBudget \in Nat
          /\ (Len(calls) + 1) * TokenBudget = Len(calls) * TokenBudget + TokenBudget
      BY <1>1, OneMoreBudget, BoundsAssumption DEF IInv, TypeOK
    <2>. QED
      BY <1>1, <2>1, BoundsAssumption DEF IInv, TypeOK, SpentPerPrompt, PromptsSent, SpentBounded
  <1>. QED
    BY <1>1, Inductive, PTL

\* The server is never asked again for a key the loop holds a result for.
THEOREM NeverFetchedTwice == Spec => NoRepeatedExecution
  <1>1. ASSUME IInv, [Next]_vars
        PROVE  [\A p \in executed' \ executed : p[2] \notin cache]_vars
    <2>1. CASE ServerRuns
      BY <1>1, <2>1 DEF ServerRuns, IInv, RequestOut
    <2>2. CASE ~ServerRuns
      <3>1. executed' = executed
        BY <1>1, <2>2 DEF Next, LoopStep, Ended, vars, HitCap, BudgetGuard, LLMCallFails,
          RawReply, FinalReply, NotAnObject, CachedCall, ForbiddenCall, SendCall,
          CallReturns, CallFails, Return
      <3>. QED
        BY <3>1
    <2>. QED
      BY <2>1, <2>2
  <1>. QED
    BY <1>1, Inductive, PTL DEF Spec, NoRepeatedExecution

-----------------------------------------------------------------------------
\* A loop that has neither returned nor raised is "running" for its caller.
LEMMA StillRunning == pc \in {"prompt", "calling", "served"} => OutcomeSeen = "running"
  BY DEF OutcomeSeen

\* What the cache holds is what the contract calls succeeded.
LEMMA CacheIsSucceeded == IInv => cache = Contract!Succeeded(calls)
  <1> SUFFICES ASSUME IInv
               PROVE  cache = Contract!Succeeded(calls)
    OBVIOUS
  <1>1. ASSUME NEW i \in DOMAIN calls, calls[i].status = "result"
        PROVE  calls[i] = [key |-> calls[i].key, status |-> "result"] /\ calls[i].key \in Keys
    <2>1. calls[i] \in CallEntry
      BY DEF IInv, TypeOK
    <2>. QED
      BY <1>1, <2>1 DEF CallEntry
  <1>2. ASSUME NEW k \in Keys
        PROVE  k \in cache <=> k \in Contract!Succeeded(calls)
    BY <1>1, <1>2 DEF IInv, CacheIsResults, Contract!Succeeded
  <1>3. cache \subseteq Keys /\ Contract!Succeeded(calls) \subseteq Keys
    BY <1>1 DEF IInv, TypeOK, Contract!Succeeded
  <1>. QED
    BY <1>2, <1>3

\* Recording a call is the contract's Record.
LEMMA ObserveRefines ==
  ASSUME IInv, NEW k \in Keys, NEW status \in {"result", "error", "cached"},
         pc \in {"prompt", "calling", "served"}, Len(calls) < MaxIterations,
         Observe(k, status), executed' = executed,
         status = "cached" <=> k \in cache,
         status = "result" => pc = "served",
         pc # "prompt" => k = request
  PROVE  Contract!ContractNext
  <1>1. OutcomeSeen = "running" /\ OutcomeSeen' = "running"
    BY DEF OutcomeSeen, Observe
  <1>2. \A p \in executed : p[1] = Len(calls) + 1 => p[2] = k /\ status # "cached"
    <2>1. Len(calls) \in Nat
      BY DEF IInv, TypeOK
    <2>. QED
      BY <2>1 DEF IInv, CallsAccountForExecutions, RequestOut
  <1>3. status = "result" => <<Len(calls) + 1, k>> \in executed
    BY DEF IInv, RequestOut
  <1>4. status = "cached" <=> k \in Contract!Succeeded(calls)
    BY CacheIsSucceeded
  <1>5. Contract!Record(k, status)
    BY <1>1, <1>2, <1>3, <1>4 DEF Contract!Record, Observe
  <1>. QED
    BY <1>5 DEF Contract!ContractNext, Contract!Statuses

\* Returning or raising is the contract's Finish.
LEMMA FinishRefines ==
  ASSUME IInv, pc = "prompt", OutcomeSeen' \in Contract!Outcomes,
         OutcomeSeen' = "hit_cap" <=> Capped, UNCHANGED <<calls, executed>>
  PROVE  Contract!ContractNext
  <1>1. OutcomeSeen = "running"
    BY StillRunning
  <1>2. \A p \in executed : p[1] <= Len(calls)
    BY DEF IInv, TypeOK, CallsAccountForExecutions
  <1>3. Contract!Finish(OutcomeSeen')
    BY <1>1, <1>2 DEF Contract!Finish, Capped
  <1>. QED
    BY <1>3 DEF Contract!ContractNext

LEMMA StepRefines == IInv /\ [Next]_vars => [Contract!ContractNext]_Contract!contractVars
  <1> SUFFICES ASSUME IInv, [Next]_vars
               PROVE  [Contract!ContractNext]_Contract!contractVars
    OBVIOUS
  <1>1. CASE HitCap
    <2>1. OutcomeSeen' = "hit_cap"
      BY <1>1, AnswerAssumption DEF HitCap, Return, OutcomeSeen, EmptyResult
    <2>. QED
      BY <1>1, <2>1, FinishRefines
      DEF HitCap, Return, Contract!Outcomes, Contract!NoAnswerOutcomes
  <1>2. CASE BudgetGuard
    <2>1. OutcomeSeen' = "hit_budget_guard"
      BY <1>2, AnswerAssumption DEF BudgetGuard, Return, OutcomeSeen, EmptyResult
    <2>. QED
      BY <1>2, <2>1, FinishRefines
      DEF BudgetGuard, Return, Contract!Outcomes, Contract!NoAnswerOutcomes
  <1>3. CASE LLMCallFails
    <2>1. OutcomeSeen' = "llm_call_failed"
      BY <1>3, AnswerAssumption DEF LLMCallFails, Return, OutcomeSeen, EmptyResult
    <2>. QED
      BY <1>3, <2>1, FinishRefines
      DEF LLMCallFails, Prompt, Return, Contract!Outcomes, Contract!NoAnswerOutcomes
  <1>4. ASSUME NEW a \in {Answer, NoAnswer}, Prompt,
               Return([EmptyResult EXCEPT !.final_answer = a])
        PROVE  Contract!ContractNext
    <2>1. OutcomeSeen' \in {"empty", "answered"}
      BY <1>4, AnswerAssumption DEF Return, OutcomeSeen, EmptyResult
    <2>. QED
      BY <1>4, <2>1, FinishRefines DEF Prompt, Return, Contract!Outcomes
  <1>5. CASE NotAnObject
    <2>1. OutcomeSeen' = "raised"
      BY <1>5 DEF NotAnObject, OutcomeSeen
    <2>. QED
      BY <1>5, <2>1, FinishRefines DEF NotAnObject, Prompt, Contract!Outcomes
  <1>6. ASSUME NEW k \in Keys, CachedCall(k)
        PROVE  Contract!ContractNext
    BY <1>6, PromptFacts, ObserveRefines DEF CachedCall, CacheHolds
  <1>7. ASSUME NEW k \in Keys, ForbiddenCall(k)
        PROVE  Contract!ContractNext
    BY <1>7, PromptFacts, ObserveRefines DEF ForbiddenCall, CacheHolds
  <1>8. ASSUME NEW k \in Keys, SendCall(k)
        PROVE  UNCHANGED Contract!contractVars
    BY <1>8 DEF SendCall, Prompt, OutcomeSeen, Contract!contractVars
  <1>9. CASE ServerRuns
    <2>1. OutcomeSeen = "running" /\ OutcomeSeen' = "running"
      BY <1>9 DEF ServerRuns, OutcomeSeen
    <2>2. \A p \in executed : p[1] # Len(calls) + 1
      BY <1>9 DEF ServerRuns, IInv, TypeOK, CallsAccountForExecutions
    <2>3. request \in AllowedKeys \ Contract!Succeeded(calls) /\ Len(calls) < MaxIterations
      BY <1>9, CacheIsSucceeded DEF ServerRuns, IInv, RequestOut
    <2>4. Contract!Execute(request)
      BY <1>9, <2>1, <2>2, <2>3 DEF ServerRuns, Contract!Execute
    <2>. QED
      BY <2>4 DEF IInv, TypeOK, Contract!ContractNext
  <1>10. CASE CallReturns
    BY <1>10, ObserveRefines DEF CallReturns, IInv, TypeOK, RequestOut
  <1>11. CASE CallFails
    BY <1>11, ObserveRefines DEF CallFails, IInv, TypeOK, RequestOut
  <1>12. CASE UNCHANGED vars
    BY <1>12 DEF vars, OutcomeSeen, Contract!contractVars
  <1>. QED
    BY <1>1, <1>2, <1>3, <1>4, <1>5, <1>6, <1>7, <1>8, <1>9, <1>10, <1>11, <1>12
    DEF Next, LoopStep, Ended, RawReply, FinalReply

\* run_tool_loop implements the contract its caller relies on.
THEOREM Refinement == Spec => ImplementsContract
  <1>1. Init => Contract!ContractInit
    BY DEF Init, Contract!ContractInit, OutcomeSeen
  <1>. QED
    BY <1>1, StepRefines, Inductive, PTL DEF Spec, ImplementsContract, Contract!ContractSpec
-----------------------------------------------------------------------------
(* NormalizeResponse.                                                         *)

\* A set of numbers that has a member has a least one.
LEMMA LeastOne ==
  ASSUME NEW T \in SUBSET Nat, T # {}
  PROVE  \E x \in T : \A y \in T : ~(y < x)
<1>1. \E x \in T : \A y \in T : ~(<<y, x>> \in OpToRel(<, Nat))
  BY NatLessThanWellFounded, WFMin
<1>2. PICK x \in T : \A y \in T : ~(<<y, x>> \in OpToRel(<, Nat)) BY <1>1
<1>3. \A y \in T : y < x => <<y, x>> \in OpToRel(<, Nat) BY DEF OpToRel
<1> QED BY <1>2, <1>3
-----------------------------------------------------------------------------
(* The recursive functions of the grammar, and the scanner's registers before  *)
(* each character as a third one.                                              *)

QuotedStep(t, f, n) ==
  {k \in Places(t, n) :
     \/ n = 0
     \/ /\ n > 0 /\ t[k] \notin {"quote", "backslash"}
        /\ k + 1 \in f[n - 1]
     \/ /\ n > 1 /\ t[k] = "backslash"
        /\ k + 2 \in f[n - 2]}

InsideStep(t, f, n) ==
  {k \in Places(t, n) :
     \/ n = 0
     \/ /\ n > 0 /\ t[k] \in {"other", "backslash"}
        /\ k + 1 \in f[n - 1]
     \/ \E m \in 0 .. n - 2 :
          /\ t[k] = "quote" /\ k + 1 \in Quoted(t)[m] /\ t[k + m + 1] = "quote"
          /\ k + m + 2 \in f[n - m - 2]
     \/ \E m \in 0 .. n - 2 :
          /\ t[k] = "open" /\ k + 1 \in f[m] /\ t[k + m + 1] = "close"
          /\ k + m + 2 \in f[n - m - 2]}

\* What the code makes of its registers at a character.
AtRest(d) == [d |-> d, str |-> FALSE, esc |-> FALSE]
Within(d) == [d |-> d, str |-> TRUE, esc |-> FALSE]
Escaped(d) == [d |-> d, str |-> TRUE, esc |-> TRUE]
Depth(c, d) == IF c = "open" THEN d + 1 ELSE IF c = "close" THEN d - 1 ELSE d
Reads(c, x) ==
  IF x.str THEN [d |-> x.d, str |-> x.esc \/ c # "quote", esc |-> ~x.esc /\ c = "backslash"]
  ELSE [d |-> Depth(c, x.d), str |-> c = "quote", esc |-> FALSE]

ScanStep(t, s, f, n) == IF n <= s THEN AtRest(0) ELSE Reads(t[n - 1], f[n - 1])

Grows(kind, t, s, f, n) ==
  IF kind = "quoted" THEN QuotedStep(t, f, n)
  ELSE IF kind = "inside" THEN InsideStep(t, f, n) ELSE ScanStep(t, s, f, n)

\* Each value depends on the smaller arguments only.
LEMMA OnlySmaller ==
  ASSUME NEW kind, NEW t, NEW s \in Nat, NEW f, NEW g, NEW n \in Nat,
         \A m \in 0 .. n - 1 : f[m] = g[m]
  PROVE  Grows(kind, t, s, f, n) = Grows(kind, t, s, g, n)
<1>1. n > 0 => f[n - 1] = g[n - 1]
  <2>1. n > 0 => n - 1 \in 0 .. n - 1 OBVIOUS
  <2> QED BY <2>1
<1>2. n > 1 => f[n - 2] = g[n - 2]
  <2>1. n > 1 => n - 2 \in 0 .. n - 1 OBVIOUS
  <2> QED BY <2>1
<1>3. \A m \in 0 .. n - 2 : f[m] = g[m] /\ f[n - m - 2] = g[n - m - 2]
  <2>1. \A m \in 0 .. n - 2 : m \in 0 .. n - 1 /\ n - m - 2 \in 0 .. n - 1 OBVIOUS
  <2> QED BY <2>1
<1>4. QuotedStep(t, f, n) = QuotedStep(t, g, n) BY <1>1, <1>2 DEF QuotedStep
<1>5. InsideStep(t, f, n) = InsideStep(t, g, n) BY <1>1, <1>3 DEF InsideStep
<1>6. ScanStep(t, s, f, n) = ScanStep(t, s, g, n) BY <1>1 DEF ScanStep
<1> QED BY <1>4, <1>5, <1>6 DEF Grows

Unfolded(kind, t, s, f, m) ==
  DOMAIN f = 0 .. m /\ \A n \in 0 .. m : f[n] = Grows(kind, t, s, f, n)

\* So there is such a function, as far as one likes.
LEMMA Unfolds ==
  \A kind, t : \A s, m \in Nat : \E f : Unfolded(kind, t, s, f, m)
<1> SUFFICES ASSUME NEW kind, NEW t, NEW s \in Nat
             PROVE  \A m \in Nat : \E f : Unfolded(kind, t, s, f, m)
  OBVIOUS
<1>1. PICK T : T = {m \in Nat : ~\E f : Unfolded(kind, t, s, f, m)} OBVIOUS
<1> SUFFICES ASSUME T # {} PROVE FALSE BY <1>1
<1>2. T \in SUBSET Nat BY <1>1
<1>3. PICK m \in T : \A y \in T : ~(y < m) BY <1>2, LeastOne
<1>4. m \in Nat /\ ~\E f : Unfolded(kind, t, s, f, m) BY <1>1, <1>3
<1>5. PICK f : m > 0 => Unfolded(kind, t, s, f, m - 1)
  <2>1. m > 0 => m - 1 \in Nat /\ m - 1 < m /\ ~(m - 1 \in T) BY <1>3, <1>4
  <2>2. m > 0 => \E h : Unfolded(kind, t, s, h, m - 1) BY <1>1, <2>1
  <2> QED BY <2>2
<1>6. PICK g : g = [n \in 0 .. m |-> IF n = m THEN Grows(kind, t, s, f, m) ELSE f[n]] OBVIOUS
<1>7. \A n \in 0 .. m : n # m => g[n] = f[n] BY <1>6
<1>8. ASSUME NEW n \in 0 .. m PROVE g[n] = Grows(kind, t, s, g, n)
  <2>1. n \in Nat /\ \A k \in 0 .. n - 1 : f[k] = g[k]
    <3>1. \A k \in 0 .. n - 1 : k \in 0 .. m /\ k # m BY <1>4
    <3> QED BY <1>7, <3>1
  <2>2. Grows(kind, t, s, f, n) = Grows(kind, t, s, g, n) BY <2>1, OnlySmaller
  <2>3. CASE n = m
    <3>1. g[n] = Grows(kind, t, s, f, m) BY <1>6, <2>3
    <3> QED BY <2>2, <2>3, <3>1
  <2>4. CASE n # m
    <3>1. m > 0 /\ n \in 0 .. m - 1 BY <1>4, <2>4
    <3>2. f[n] = Grows(kind, t, s, f, n) BY <1>5, <3>1 DEF Unfolded
    <3> QED BY <1>7, <2>2, <2>4, <3>2
  <2> QED BY <2>3, <2>4
<1>9. DOMAIN g = 0 .. m BY <1>6
<1> QED BY <1>4, <1>8, <1>9 DEF Unfolded

\* The two functions of the grammar unfold by their definitions.
LEMMA QuotedUnfolds ==
  ASSUME NEW t, Len(t) \in Nat, NEW n \in 0 .. Len(t)
  PROVE  Quoted(t)[n] = QuotedStep(t, Quoted(t), n)
<1>1. PICK N \in Nat : N = Len(t) OBVIOUS
<1>2. PICK f : Unfolded("quoted", t, 0, f, N) BY Unfolds
<1> DEFINE Run(g) == [x \in 0 .. Len(t) |->
        {k \in Places(t, x) :
           \/ x = 0
           \/ /\ x > 0 /\ t[k] \notin {"quote", "backslash"}
              /\ k + 1 \in g[x - 1]
           \/ /\ x > 1 /\ t[k] = "backslash"
              /\ k + 2 \in g[x - 2]}]
<1>3. \A g : \A x \in 0 .. N : Run(g)[x] = QuotedStep(t, g, x) BY <1>1 DEF QuotedStep
<1>4. Quoted(t) = CHOOSE g : g = Run(g) BY DEF Quoted
<1>5. \E g : g = Run(g)
  <2>1. PICK g : g = [x \in 0 .. N |-> f[x]] OBVIOUS
  <2>2. ASSUME NEW x \in 0 .. N PROVE g[x] = Run(g)[x]
    <3>1. \A y \in 0 .. x - 1 : f[y] = g[y]
      <4>1. \A y \in 0 .. x - 1 : y \in 0 .. N OBVIOUS
      <4> QED BY <2>1, <4>1
    <3>2. Grows("quoted", t, 0, f, x) = Grows("quoted", t, 0, g, x) BY <3>1, OnlySmaller
    <3>3. f[x] = Grows("quoted", t, 0, f, x) BY <1>2 DEF Unfolded
    <3>4. g[x] = QuotedStep(t, g, x) BY <2>1, <3>2, <3>3 DEF Grows
    <3> QED BY <1>3, <3>4
  <2>3. DOMAIN g = 0 .. N /\ DOMAIN Run(g) = 0 .. N BY <1>1, <2>1
  <2>4. g = Run(g) BY <1>1, <2>1, <2>2, <2>3
  <2> QED BY <2>4
<1>6. PICK g : g = (CHOOSE h : h = Run(h)) OBVIOUS
<1>7. g = Run(g)
  <2> HIDE DEF Run
  <2> QED BY <1>5, <1>6
<1>8. g[n] = QuotedStep(t, g, n)
  <2>1. Run(g)[n] = QuotedStep(t, g, n) BY <1>1, <1>3
  <2> HIDE DEF Run
  <2> QED BY <1>7, <2>1
<1> QED BY <1>4, <1>6, <1>8

\* Likewise for what may stand inside.
LEMMA InsideUnfolds ==
  ASSUME NEW t, Len(t) \in Nat, NEW n \in 0 .. Len(t)
  PROVE  Inside(t)[n] = InsideStep(t, Inside(t), n)
<1>1. PICK N \in Nat : N = Len(t) OBVIOUS
<1>2. PICK f : Unfolded("inside", t, 0, f, N) BY Unfolds
<1> DEFINE Run(g) == [x \in 0 .. Len(t) |->
        {k \in Places(t, x) :
           \/ x = 0
           \/ /\ x > 0 /\ t[k] \in {"other", "backslash"}
              /\ k + 1 \in g[x - 1]
           \/ \E m \in 0 .. x - 2 :
                /\ t[k] = "quote" /\ k + 1 \in Quoted(t)[m] /\ t[k + m + 1] = "quote"
                /\ k + m + 2 \in g[x - m - 2]
           \/ \E m \in 0 .. x - 2 :
                /\ t[k] = "open" /\ k + 1 \in g[m] /\ t[k + m + 1] = "close"
                /\ k + m + 2 \in g[x - m - 2]}]
<1>3. \A g : \A x \in 0 .. N : Run(g)[x] = InsideStep(t, g, x) BY <1>1 DEF InsideStep
<1>4. Inside(t) = CHOOSE g : g = Run(g) BY DEF Inside
<1>5. \E g : g = Run(g)
  <2>1. PICK g : g = [x \in 0 .. N |-> f[x]] OBVIOUS
  <2>2. ASSUME NEW x \in 0 .. N PROVE g[x] = Run(g)[x]
    <3>1. \A y \in 0 .. x - 1 : f[y] = g[y]
      <4>1. \A y \in 0 .. x - 1 : y \in 0 .. N OBVIOUS
      <4> QED BY <2>1, <4>1
    <3>2. Grows("inside", t, 0, f, x) = Grows("inside", t, 0, g, x) BY <3>1, OnlySmaller
    <3>3. f[x] = Grows("inside", t, 0, f, x) BY <1>2 DEF Unfolded
    <3>4. g[x] = InsideStep(t, g, x) BY <2>1, <3>2, <3>3 DEF Grows
    <3> QED BY <1>3, <3>4
  <2>3. DOMAIN g = 0 .. N /\ DOMAIN Run(g) = 0 .. N BY <1>1, <2>1
  <2>4. g = Run(g) BY <1>1, <2>1, <2>2, <2>3
  <2> QED BY <2>4
<1>6. PICK g : g = (CHOOSE h : h = Run(h)) OBVIOUS
<1>7. g = Run(g)
  <2> HIDE DEF Run
  <2> QED BY <1>5, <1>6
<1>8. g[n] = InsideStep(t, g, n)
  <2>1. Run(g)[n] = InsideStep(t, g, n) BY <1>1, <1>3
  <2> HIDE DEF Run
  <2> QED BY <1>7, <2>1
<1> QED BY <1>4, <1>6, <1>8
-----------------------------------------------------------------------------
(* The grammar by places alone: from k, up to but without l.                   *)
IsQuoted(t, k, l) == k <= l /\ l <= Len(t) + 1 /\ k \in Quoted(t)[l - k]
IsInside(t, k, l) == k <= l /\ l <= Len(t) + 1 /\ k \in Inside(t)[l - k]

QuotedForm(t, k, l) ==
  \/ k = l
  \/ k < l /\ t[k] \notin {"quote", "backslash"} /\ IsQuoted(t, k + 1, l)
  \/ k + 1 < l /\ t[k] = "backslash" /\ IsQuoted(t, k + 2, l)

Enclosed(t, k, e) ==
  \/ t[k] = "quote" /\ IsQuoted(t, k + 1, e) /\ t[e] = "quote"
  \/ t[k] = "open" /\ IsInside(t, k + 1, e) /\ t[e] = "close"

InsideForm(t, k, l) ==
  \/ k = l
  \/ k < l /\ t[k] \in {"other", "backslash"} /\ IsInside(t, k + 1, l)
  \/ \E e \in k + 1 .. l - 1 : Enclosed(t, k, e) /\ IsInside(t, e + 1, l)

\* The rules of the grammar, place by place.
LEMMA QuotedRule ==
  ASSUME NEW t, Len(t) \in Nat, NEW k \in Nat \ {0}, NEW l \in Nat
  PROVE  IsQuoted(t, k, l) <=> k <= l /\ l <= Len(t) + 1 /\ QuotedForm(t, k, l)
<1> SUFFICES ASSUME k <= l, l <= Len(t) + 1
             PROVE  k \in Quoted(t)[l - k] <=> QuotedForm(t, k, l)
  BY DEF IsQuoted
<1>1. PICK n \in 0 .. Len(t) : n = l - k OBVIOUS
<1>2. k \in Places(t, n) BY <1>1 DEF Places
<1>3. PICK q : q = Quoted(t) OBVIOUS
<1>4. q[n] = QuotedStep(t, q, n) BY <1>3, QuotedUnfolds
<1>5. k \in q[n] <=> \/ n = 0
                     \/ n > 0 /\ t[k] \notin {"quote", "backslash"} /\ k + 1 \in q[n - 1]
                     \/ n > 1 /\ t[k] = "backslash" /\ k + 2 \in q[n - 2]
  BY <1>2, <1>4 DEF QuotedStep
<1>6. n > 0 => (IsQuoted(t, k + 1, l) <=> k + 1 \in q[n - 1])
  <2>1. l - (k + 1) = n - 1 /\ (n > 0 => k + 1 <= l) BY <1>1
  <2> QED BY <1>3, <2>1 DEF IsQuoted
<1>7. n > 1 => (IsQuoted(t, k + 2, l) <=> k + 2 \in q[n - 2])
  <2>1. l - (k + 2) = n - 2 /\ (n > 1 => k + 2 <= l) BY <1>1
  <2> QED BY <1>3, <2>1 DEF IsQuoted
<1>8. (n = 0 <=> k = l) /\ (n > 0 <=> k < l) /\ (n > 1 <=> k + 1 < l) BY <1>1
<1> QED BY <1>1, <1>3, <1>5, <1>6, <1>7, <1>8 DEF QuotedForm

LEMMA InsideRule ==
  ASSUME NEW t, Len(t) \in Nat, NEW k \in Nat \ {0}, NEW l \in Nat
  PROVE  IsInside(t, k, l) <=> k <= l /\ l <= Len(t) + 1 /\ InsideForm(t, k, l)
<1> SUFFICES ASSUME k <= l, l <= Len(t) + 1
             PROVE  k \in Inside(t)[l - k] <=> InsideForm(t, k, l)
  BY DEF IsInside
<1>1. PICK n \in 0 .. Len(t) : n = l - k OBVIOUS
<1>2. k \in Places(t, n) BY <1>1 DEF Places
<1>3. PICK q : q = Inside(t) OBVIOUS
<1>4. q[n] = InsideStep(t, q, n) BY <1>3, InsideUnfolds
<1>5. k \in q[n] <=> \/ n = 0
                     \/ n > 0 /\ t[k] \in {"other", "backslash"} /\ k + 1 \in q[n - 1]
                     \/ \E m \in 0 .. n - 2 :
                          /\ t[k] = "quote" /\ k + 1 \in Quoted(t)[m] /\ t[k + m + 1] = "quote"
                          /\ k + m + 2 \in q[n - m - 2]
                     \/ \E m \in 0 .. n - 2 :
                          /\ t[k] = "open" /\ k + 1 \in q[m] /\ t[k + m + 1] = "close"
                          /\ k + m + 2 \in q[n - m - 2]
  BY <1>2, <1>4 DEF InsideStep
<1>6. n > 0 => (IsInside(t, k + 1, l) <=> k + 1 \in q[n - 1])
  <2>1. l - (k + 1) = n - 1 /\ (n > 0 => k + 1 <= l) BY <1>1
  <2> QED BY <1>3, <2>1 DEF IsInside
<1>7. ASSUME NEW m \in 0 .. n - 2, NEW e \in k + 1 .. l - 1, e = k + m + 1
      PROVE  /\ IsQuoted(t, k + 1, e) <=> k + 1 \in Quoted(t)[m]
             /\ IsInside(t, k + 1, e) <=> k + 1 \in q[m]
             /\ IsInside(t, e + 1, l) <=> k + m + 2 \in q[n - m - 2]
  <2>1. e - (k + 1) = m /\ k + 1 <= e /\ e <= Len(t) + 1 BY <1>1, <1>7
  <2>2. l - (e + 1) = n - m - 2 /\ e + 1 <= l /\ e + 1 = k + m + 2 BY <1>1, <1>7
  <2> QED BY <1>3, <2>1, <2>2 DEF IsQuoted, IsInside
<1>8. ASSUME NEW m \in 0 .. n - 2
      PROVE  \E e \in k + 1 .. l - 1 : e = k + m + 1
  <2>1. k + m + 1 \in k + 1 .. l - 1 BY <1>1
  <2> QED BY <2>1
<1>9. ASSUME NEW e \in k + 1 .. l - 1
      PROVE  \E m \in 0 .. n - 2 : e = k + m + 1
  <2>1. e - k - 1 \in 0 .. n - 2 /\ e = k + (e - k - 1) + 1 BY <1>1
  <2> QED BY <2>1
<1>10. (\E e \in k + 1 .. l - 1 : Enclosed(t, k, e) /\ IsInside(t, e + 1, l))
       <=> \/ \E m \in 0 .. n - 2 :
                /\ t[k] = "quote" /\ k + 1 \in Quoted(t)[m] /\ t[k + m + 1] = "quote"
                /\ k + m + 2 \in q[n - m - 2]
           \/ \E m \in 0 .. n - 2 :
                /\ t[k] = "open" /\ k + 1 \in q[m] /\ t[k + m + 1] = "close"
                /\ k + m + 2 \in q[n - m - 2]
  <2> DEFINE Pair(m) == \/ /\ t[k] = "quote" /\ k + 1 \in Quoted(t)[m] /\ t[k + m + 1] = "quote"
                           /\ k + m + 2 \in q[n - m - 2]
                        \/ /\ t[k] = "open" /\ k + 1 \in q[m] /\ t[k + m + 1] = "close"
                           /\ k + m + 2 \in q[n - m - 2]
  <2>1. ASSUME NEW m \in 0 .. n - 2, NEW e \in k + 1 .. l - 1, e = k + m + 1
        PROVE  Enclosed(t, k, e) /\ IsInside(t, e + 1, l) <=> Pair(m)
    BY <1>7, <2>1 DEF Enclosed
  <2>2. (\E e \in k + 1 .. l - 1 : Enclosed(t, k, e) /\ IsInside(t, e + 1, l))
        <=> \E m \in 0 .. n - 2 : Pair(m)
    <3> HIDE DEF Pair
    <3> QED BY <1>8, <1>9, <2>1
  <2> QED BY <2>2
<1>11. (n = 0 <=> k = l) /\ (n > 0 <=> k < l) BY <1>1
<1> QED BY <1>1, <1>3, <1>5, <1>6, <1>10, <1>11 DEF InsideForm

\* What may follow one another may stand there together.
LEMMA QuotedJoins ==
  ASSUME NEW t, Len(t) \in Nat, NEW m \in Nat
  PROVE  \A k, l \in Nat \ {0} : IsQuoted(t, k, l) /\ IsQuoted(t, l, m) => IsQuoted(t, k, m)
<1> DEFINE Fails(k, l) == IsQuoted(t, k, l) /\ IsQuoted(t, l, m) /\ ~IsQuoted(t, k, m)
<1>1. PICK T : T = {n \in Nat : \E k, l \in Nat \ {0} : n = l - k /\ Fails(k, l)} OBVIOUS
<1>2. T = {}
  <2> SUFFICES ASSUME T # {} PROVE FALSE OBVIOUS
  <2>1. T \in SUBSET Nat BY <1>1
  <2>2. PICK n \in T : \A y \in T : ~(y < n) BY <2>1, LeastOne
  <2>3. PICK k \in Nat \ {0}, l \in Nat \ {0} : n = l - k /\ Fails(k, l) BY <1>1, <2>2
  <2>4. k <= l /\ l <= Len(t) + 1 /\ QuotedForm(t, k, l) /\ l <= m /\ m <= Len(t) + 1
    BY <2>3, QuotedRule
  <2>5. ASSUME NEW h \in Nat \ {0}, k < h, h <= l, IsQuoted(t, h, l) PROVE IsQuoted(t, h, m)
    <3>1. l - h \in Nat /\ l - h < n BY <2>3, <2>5
    <3>2. ~(l - h \in T) BY <2>2, <3>1
    <3> QED BY <1>1, <2>3, <2>5, <3>1, <3>2
  <2>6. ~QuotedForm(t, k, m) BY <2>3, <2>4, QuotedRule
  <2>7. CASE k = l BY <2>3, <2>7
  <2>8. CASE k < l /\ t[k] \notin {"quote", "backslash"} /\ IsQuoted(t, k + 1, l)
    <3>1. IsQuoted(t, k + 1, m) BY <2>5, <2>8
    <3> QED BY <2>4, <2>6, <2>8, <3>1 DEF QuotedForm
  <2>9. CASE k + 1 < l /\ t[k] = "backslash" /\ IsQuoted(t, k + 2, l)
    <3>1. IsQuoted(t, k + 2, m) BY <2>5, <2>9
    <3> QED BY <2>4, <2>6, <2>9, <3>1 DEF QuotedForm
  <2> QED BY <2>4, <2>7, <2>8, <2>9 DEF QuotedForm
<1>3. ASSUME NEW k \in Nat \ {0}, NEW l \in Nat \ {0}, Fails(k, l) PROVE FALSE
  <2>1. l - k \in Nat BY <1>3 DEF IsQuoted
  <2> QED BY <1>1, <1>2, <1>3, <2>1
<1> QED BY <1>3

\* Likewise for what may stand inside.
LEMMA InsideJoins ==
  ASSUME NEW t, Len(t) \in Nat, NEW m \in Nat
  PROVE  \A k, l \in Nat \ {0} : IsInside(t, k, l) /\ IsInside(t, l, m) => IsInside(t, k, m)
<1> DEFINE Fails(k, l) == IsInside(t, k, l) /\ IsInside(t, l, m) /\ ~IsInside(t, k, m)
<1>1. PICK T : T = {n \in Nat : \E k, l \in Nat \ {0} : n = l - k /\ Fails(k, l)} OBVIOUS
<1>2. T = {}
  <2> SUFFICES ASSUME T # {} PROVE FALSE OBVIOUS
  <2>1. T \in SUBSET Nat BY <1>1
  <2>2. PICK n \in T : \A y \in T : ~(y < n) BY <2>1, LeastOne
  <2>3. PICK k \in Nat \ {0}, l \in Nat \ {0} : n = l - k /\ Fails(k, l) BY <1>1, <2>2
  <2>4. k <= l /\ l <= Len(t) + 1 /\ InsideForm(t, k, l) /\ l <= m /\ m <= Len(t) + 1
    BY <2>3, InsideRule
  <2>5. ASSUME NEW h \in Nat \ {0}, k < h, h <= l, IsInside(t, h, l) PROVE IsInside(t, h, m)
    <3>1. l - h \in Nat /\ l - h < n BY <2>3, <2>5
    <3>2. ~(l - h \in T) BY <2>2, <3>1
    <3> QED BY <1>1, <2>3, <2>5, <3>1, <3>2
  <2>6. ~InsideForm(t, k, m) BY <2>3, <2>4, InsideRule
  <2>7. CASE k = l BY <2>3, <2>7
  <2>8. CASE k < l /\ t[k] \in {"other", "backslash"} /\ IsInside(t, k + 1, l)
    <3>1. IsInside(t, k + 1, m) BY <2>5, <2>8
    <3> QED BY <2>4, <2>6, <2>8, <3>1 DEF InsideForm
  <2>9. CASE \E e \in k + 1 .. l - 1 : Enclosed(t, k, e) /\ IsInside(t, e + 1, l)
    <3>1. PICK e \in k + 1 .. l - 1 : Enclosed(t, k, e) /\ IsInside(t, e + 1, l) BY <2>9
    <3>2. e + 1 \in Nat \ {0} /\ k < e + 1 /\ e + 1 <= l /\ e \in k + 1 .. m - 1 BY <2>4
    <3>3. IsInside(t, e + 1, m) BY <2>5, <3>1, <3>2
    <3> QED BY <2>6, <3>1, <3>2, <3>3 DEF InsideForm
  <2> QED BY <2>4, <2>7, <2>8, <2>9 DEF InsideForm
<1>3. ASSUME NEW k \in Nat \ {0}, NEW l \in Nat \ {0}, Fails(k, l) PROVE FALSE
  <2>1. l - k \in Nat BY <1>3 DEF IsInside
  <2> QED BY <1>1, <1>2, <1>3, <2>1
<1> QED BY <1>3
-----------------------------------------------------------------------------
(* What the scanner has read: as many openers as it is deep, each followed by  *)
(* what may stand inside, and perhaps the beginning of a string.               *)
Stacked(t, s, p, d, e) ==
  /\ d \in Nat \ {0} /\ p \in [1 .. d -> Nat \ {0}] /\ p[1] = s /\ e \in Nat \ {0}
  /\ \A j \in 1 .. d : p[j] <= Len(t) /\ t[p[j]] = "open"
  /\ \A j \in 1 .. d - 1 : IsInside(t, p[j] + 1, p[j + 1])
  /\ IsInside(t, p[d] + 1, e)

Unquoted(t, e, i, str, esc) ==
  IF ~str THEN e = i /\ ~esc
  ELSE /\ e < i /\ t[e] = "quote"
       /\ IF ~esc THEN IsQuoted(t, e + 1, i)
          ELSE e + 1 < i /\ t[i - 1] = "backslash" /\ IsQuoted(t, e + 1, i - 1)

HasRead(t, s, i, d, str, esc) ==
  \E p, e : Stacked(t, s, p, d, e) /\ Unquoted(t, e, i, str, esc)

\* One more piece may follow what stands inside.
LEMMA InsideGrows ==
  ASSUME NEW t, Len(t) \in Nat, NEW k \in Nat \ {0}, NEW l \in Nat \ {0}, NEW m \in Nat,
         IsInside(t, k, l), l < m, m <= Len(t) + 1,
         \/ m = l + 1 /\ t[l] \in {"other", "backslash"}
         \/ l < m - 1 /\ Enclosed(t, l, m - 1)
  PROVE  IsInside(t, k, m)
<1>1. IsInside(t, m, m)
  <2>1. m \in Nat \ {0} /\ InsideForm(t, m, m) BY DEF InsideForm
  <2> QED BY <2>1, InsideRule
<1>2. InsideForm(t, l, m)
  <2>1. CASE m = l + 1 /\ t[l] \in {"other", "backslash"} BY <1>1, <2>1 DEF InsideForm
  <2>2. CASE l < m - 1 /\ Enclosed(t, l, m - 1)
    <3>1. m - 1 \in l + 1 .. m - 1 /\ (m - 1) + 1 = m BY <2>2
    <3> QED BY <1>1, <2>2, <3>1 DEF InsideForm
  <2> QED BY <2>1, <2>2
<1>3. IsInside(t, l, m) BY <1>2, InsideRule
<1> QED BY <1>3, InsideJoins

\* A plain character, or one that a backslash takes along, may follow in a string.
LEMMA QuotedGrows ==
  ASSUME NEW t, Len(t) \in Nat, NEW k \in Nat \ {0}, NEW l \in Nat \ {0}, NEW m \in Nat,
         IsQuoted(t, k, l), m <= Len(t) + 1,
         \/ m = l + 1 /\ t[l] \notin {"quote", "backslash"}
         \/ m = l + 2 /\ t[l] = "backslash"
  PROVE  IsQuoted(t, k, m)
<1>1. IsQuoted(t, m, m)
  <2>1. m \in Nat \ {0} /\ QuotedForm(t, m, m) BY DEF QuotedForm
  <2> QED BY <2>1, QuotedRule
<1>2. QuotedForm(t, l, m) BY <1>1 DEF QuotedForm
<1>3. IsQuoted(t, l, m) BY <1>2, QuotedRule
<1> QED BY <1>3, QuotedJoins

\* A plain character outside a string.
LEMMA ReadsPlain ==
  ASSUME NEW t, Len(t) \in Nat, NEW s, NEW d, NEW i \in Nat \ {0}, i <= Len(t),
         HasRead(t, s, i, d, FALSE, FALSE), t[i] \in {"other", "backslash"}
  PROVE  HasRead(t, s, i + 1, d, FALSE, FALSE)
<1>1. PICK p, e : Stacked(t, s, p, d, e) /\ Unquoted(t, e, i, FALSE, FALSE) BY DEF HasRead
<1>2. e = i BY <1>1 DEF Unquoted
<1>3. p[d] \in Nat \ {0} /\ IsInside(t, p[d] + 1, i) BY <1>1, <1>2 DEF Stacked
<1>4. IsInside(t, p[d] + 1, i + 1)
  <2>1. p[d] + 1 \in Nat \ {0} /\ i + 1 \in Nat /\ i + 1 <= Len(t) + 1 /\ i < i + 1 BY <1>3
  <2> QED BY <1>3, <2>1, InsideGrows
<1>5. Stacked(t, s, p, d, i + 1) BY <1>1, <1>4 DEF Stacked
<1>6. Unquoted(t, i + 1, i + 1, FALSE, FALSE) BY DEF Unquoted
<1> QED BY <1>5, <1>6 DEF HasRead

\* A quote outside a string begins one.
LEMMA ReadsQuote ==
  ASSUME NEW t, Len(t) \in Nat, NEW s, NEW d, NEW i \in Nat \ {0}, i <= Len(t),
         HasRead(t, s, i, d, FALSE, FALSE), t[i] = "quote"
  PROVE  HasRead(t, s, i + 1, d, TRUE, FALSE)
<1>1. PICK p, e : Stacked(t, s, p, d, e) /\ Unquoted(t, e, i, FALSE, FALSE) BY DEF HasRead
<1>2. e = i BY <1>1 DEF Unquoted
<1>3. IsQuoted(t, i + 1, i + 1)
  <2>1. i + 1 \in Nat \ {0} /\ i + 1 <= Len(t) + 1 /\ QuotedForm(t, i + 1, i + 1) BY DEF QuotedForm
  <2> QED BY <2>1, QuotedRule
<1>4. Unquoted(t, e, i + 1, TRUE, FALSE) BY <1>2, <1>3 DEF Unquoted
<1> QED BY <1>1, <1>4 DEF HasRead

\* Inside a string.
LEMMA ReadsQuoted ==
  ASSUME NEW t, Len(t) \in Nat, NEW s, NEW d, NEW i \in Nat \ {0}, i <= Len(t),
         NEW esc \in BOOLEAN, HasRead(t, s, i, d, TRUE, esc)
  PROVE  HasRead(t, s, i + 1, d, esc \/ t[i] # "quote", ~esc /\ t[i] = "backslash")
<1>1. PICK p, e : Stacked(t, s, p, d, e) /\ Unquoted(t, e, i, TRUE, esc) BY DEF HasRead
<1>2. /\ e \in Nat \ {0} /\ e < i /\ t[e] = "quote"
      /\ IF ~esc THEN IsQuoted(t, e + 1, i)
         ELSE e + 1 < i /\ t[i - 1] = "backslash" /\ IsQuoted(t, e + 1, i - 1)
  BY <1>1 DEF Unquoted, Stacked
<1>3. CASE esc
  <2>1. e + 1 \in Nat \ {0} /\ e < i + 1 /\ i - 1 \in Nat \ {0} /\ i + 1 \in Nat /\ i + 1 = (i - 1) + 2 BY <1>2, <1>3
  <2>2. IsQuoted(t, e + 1, i + 1) BY <1>2, <1>3, <2>1, QuotedGrows
  <2>3. Unquoted(t, e, i + 1, TRUE, FALSE) BY <1>2, <2>1, <2>2 DEF Unquoted
  <2>4. HasRead(t, s, i + 1, d, TRUE, FALSE) BY <1>1, <2>3 DEF HasRead
  <2>5. (esc \/ t[i] # "quote") = TRUE /\ (~esc /\ t[i] = "backslash") = FALSE BY <1>3
  <2> QED BY <2>4, <2>5
<1>4. CASE ~esc /\ t[i] = "quote"
  <2>1. IsQuoted(t, e + 1, i) BY <1>2, <1>4
  <2>2. e \in Nat \ {0} /\ p[d] \in Nat \ {0} /\ IsInside(t, p[d] + 1, e) BY <1>1 DEF Stacked
  <2>3. Enclosed(t, e, i) BY <1>2, <1>4, <2>1 DEF Enclosed
  <2>4. IsInside(t, p[d] + 1, i + 1)
    <3>1. p[d] + 1 \in Nat \ {0} /\ i + 1 \in Nat /\ e < i + 1 /\ i + 1 <= Len(t) + 1
          /\ e < (i + 1) - 1 /\ (i + 1) - 1 = i
      BY <1>2, <2>2
    <3> QED BY <2>2, <2>3, <3>1, InsideGrows
  <2>5. Stacked(t, s, p, d, i + 1) BY <1>1, <2>4 DEF Stacked
  <2>6. Unquoted(t, i + 1, i + 1, FALSE, FALSE) BY DEF Unquoted
  <2>7. HasRead(t, s, i + 1, d, FALSE, FALSE) BY <2>5, <2>6 DEF HasRead
  <2>8. (esc \/ t[i] # "quote") = FALSE /\ (~esc /\ t[i] = "backslash") = FALSE BY <1>4
  <2> QED BY <2>7, <2>8
<1>5. CASE ~esc /\ t[i] = "backslash"
  <2>1. (i + 1) - 1 = i /\ e + 1 < i + 1 /\ e < i + 1 BY <1>2
  <2>2. IsQuoted(t, e + 1, i) BY <1>2, <1>5
  <2>3. Unquoted(t, e, i + 1, TRUE, TRUE) BY <1>2, <1>5, <2>1, <2>2 DEF Unquoted
  <2>4. HasRead(t, s, i + 1, d, TRUE, TRUE) BY <1>1, <2>3 DEF HasRead
  <2>5. (esc \/ t[i] # "quote") = TRUE /\ (~esc /\ t[i] = "backslash") = TRUE BY <1>5
  <2> QED BY <2>4, <2>5
<1>6. CASE ~esc /\ t[i] \notin {"quote", "backslash"}
  <2>1. IsQuoted(t, e + 1, i) /\ e + 1 \in Nat \ {0} /\ e < i + 1 BY <1>2, <1>6
  <2>2. IsQuoted(t, e + 1, i + 1) BY <1>2, <1>6, <2>1, QuotedGrows
  <2>3. Unquoted(t, e, i + 1, TRUE, FALSE) BY <1>2, <2>1, <2>2 DEF Unquoted
  <2>4. HasRead(t, s, i + 1, d, TRUE, FALSE) BY <1>1, <2>3 DEF HasRead
  <2>5. (esc \/ t[i] # "quote") = TRUE /\ (~esc /\ t[i] = "backslash") = FALSE BY <1>6
  <2> QED BY <2>4, <2>5
<1> QED BY <1>3, <1>4, <1>5, <1>6

\* The first opener.
LEMMA ReadsFirst ==
  ASSUME NEW t, Len(t) \in Nat, NEW s \in Nat \ {0}, s <= Len(t), t[s] = "open"
  PROVE  HasRead(t, s, s + 1, 1, FALSE, FALSE)
<1>1. PICK p : p = [j \in 1 .. 1 |-> s] OBVIOUS
<1>2. IsInside(t, s + 1, s + 1)
  <2>1. s + 1 \in Nat \ {0} /\ s + 1 <= Len(t) + 1 /\ InsideForm(t, s + 1, s + 1) BY DEF InsideForm
  <2> QED BY <2>1, InsideRule
<1>3. Stacked(t, s, p, 1, s + 1)
  <2>1. p \in [1 .. 1 -> Nat \ {0}] /\ p[1] = s BY <1>1
  <2>2. \A j \in 1 .. 1 : p[j] <= Len(t) /\ t[p[j]] = "open" BY <1>1
  <2>3. 1 .. 1 - 1 = {} OBVIOUS
  <2> QED BY <1>2, <2>1, <2>2, <2>3 DEF Stacked
<1>4. Unquoted(t, s + 1, s + 1, FALSE, FALSE) BY DEF Unquoted
<1> QED BY <1>3, <1>4 DEF HasRead

\* Any other opener.
LEMMA ReadsOpen ==
  ASSUME NEW t, Len(t) \in Nat, NEW s, NEW d, NEW i \in Nat \ {0}, i <= Len(t),
         HasRead(t, s, i, d, FALSE, FALSE), t[i] = "open"
  PROVE  HasRead(t, s, i + 1, d + 1, FALSE, FALSE)
<1>1. PICK p, e : Stacked(t, s, p, d, e) /\ Unquoted(t, e, i, FALSE, FALSE) BY DEF HasRead
<1>2. e = i BY <1>1 DEF Unquoted
<1>3. /\ d \in Nat \ {0} /\ p \in [1 .. d -> Nat \ {0}] /\ p[1] = s
      /\ \A j \in 1 .. d : p[j] <= Len(t) /\ t[p[j]] = "open"
      /\ \A j \in 1 .. d - 1 : IsInside(t, p[j] + 1, p[j + 1])
      /\ IsInside(t, p[d] + 1, i)
  BY <1>1, <1>2 DEF Stacked
<1>4. PICK q : q = [j \in 1 .. d + 1 |-> IF j = d + 1 THEN i ELSE p[j]] OBVIOUS
<1>5. q[d + 1] = i /\ \A j \in 1 .. d : q[j] = p[j]
  <2>1. d + 1 \in 1 .. d + 1 /\ \A j \in 1 .. d : j \in 1 .. d + 1 /\ j # d + 1 BY <1>3
  <2> QED BY <1>4, <2>1
<1>6. \A j \in 1 .. d + 1 : j \in 1 .. d \/ j = d + 1 BY <1>3
<1>7. q \in [1 .. d + 1 -> Nat \ {0}] /\ q[1] = s
  <2>1. \A j \in 1 .. d + 1 : q[j] \in Nat \ {0} BY <1>3, <1>5, <1>6
  <2>2. 1 \in 1 .. d BY <1>3
  <2> QED BY <1>3, <1>4, <1>5, <2>1, <2>2
<1>8. \A j \in 1 .. d + 1 : q[j] <= Len(t) /\ t[q[j]] = "open" BY <1>3, <1>5, <1>6
<1>9. ASSUME NEW j \in 1 .. (d + 1) - 1 PROVE IsInside(t, q[j] + 1, q[j + 1])
  <2>1. j \in 1 .. d BY <1>3
  <2>2. CASE j = d BY <1>3, <1>5, <2>1, <2>2
  <2>3. CASE j # d
    <3>1. j \in 1 .. d - 1 /\ j + 1 \in 1 .. d BY <1>3, <2>1, <2>3
    <3> QED BY <1>3, <1>5, <2>1, <3>1
  <2> QED BY <2>2, <2>3
<1>10. IsInside(t, i + 1, i + 1)
  <2>1. i + 1 \in Nat \ {0} /\ i + 1 <= Len(t) + 1 /\ InsideForm(t, i + 1, i + 1) BY DEF InsideForm
  <2> QED BY <2>1, InsideRule
<1>11. Stacked(t, s, q, d + 1, i + 1)
  <2>1. d + 1 \in Nat \ {0} /\ i + 1 \in Nat \ {0} BY <1>3
  <2> QED BY <1>5, <1>7, <1>8, <1>9, <1>10, <2>1 DEF Stacked
<1>12. Unquoted(t, i + 1, i + 1, FALSE, FALSE) BY DEF Unquoted
<1> QED BY <1>11, <1>12 DEF HasRead

\* A closer ends what the last opener began.
LEMMA ReadsClose ==
  ASSUME NEW t, Len(t) \in Nat, NEW s, NEW d, NEW i \in Nat \ {0}, i <= Len(t),
         HasRead(t, s, i, d, FALSE, FALSE), t[i] = "close"
  PROVE  /\ d = 1 => BalancedSpan(t, s, i)
         /\ d # 1 => HasRead(t, s, i + 1, d - 1, FALSE, FALSE)
<1>1. PICK p, e : Stacked(t, s, p, d, e) /\ Unquoted(t, e, i, FALSE, FALSE) BY DEF HasRead
<1>2. e = i BY <1>1 DEF Unquoted
<1>3. /\ d \in Nat \ {0} /\ p \in [1 .. d -> Nat \ {0}] /\ p[1] = s
      /\ \A j \in 1 .. d : p[j] <= Len(t) /\ t[p[j]] = "open"
      /\ \A j \in 1 .. d - 1 : IsInside(t, p[j] + 1, p[j + 1])
      /\ IsInside(t, p[d] + 1, i)
  BY <1>1, <1>2 DEF Stacked
<1>4. d \in 1 .. d /\ p[d] \in Nat \ {0} /\ t[p[d]] = "open" BY <1>3
<1>5. p[d] + 1 <= i BY <1>3 DEF IsInside
<1>6. CASE d = 1
  <2>1. s < i /\ t[s] = "open" /\ s + 1 \in Inside(t)[i - (s + 1)] BY <1>3, <1>4, <1>5, <1>6 DEF IsInside
  <2>2. i - (s + 1) = i - s - 1 BY <1>3, <1>4, <1>6
  <2> QED BY <1>6, <2>1, <2>2 DEF BalancedSpan
<1>7. CASE d # 1
  <2>1. d - 1 \in Nat \ {0} /\ d - 1 \in 1 .. d - 1 /\ (d - 1) + 1 = d /\ d - 1 \in 1 .. d BY <1>3, <1>7
  <2>2. IsInside(t, p[d - 1] + 1, p[d]) /\ p[d - 1] \in Nat \ {0} BY <1>3, <2>1
  <2>3. Enclosed(t, p[d], i) BY <1>3, <1>4 DEF Enclosed
  <2>4. IsInside(t, p[d - 1] + 1, i + 1)
    <3>1. p[d - 1] + 1 \in Nat \ {0} /\ i + 1 \in Nat /\ p[d] < i + 1 /\ i + 1 <= Len(t) + 1
          /\ p[d] < (i + 1) - 1 /\ (i + 1) - 1 = i
      BY <1>4, <1>5, <2>2
    <3> QED BY <1>4, <2>2, <2>3, <3>1, InsideGrows
  <2>5. PICK q : q = [j \in 1 .. d - 1 |-> p[j]] OBVIOUS
  <2>6. \A j \in 1 .. d - 1 : j \in 1 .. d /\ q[j] = p[j] BY <1>3, <2>5
  <2>7. q \in [1 .. d - 1 -> Nat \ {0}] /\ q[1] = s
    <3>1. \A j \in 1 .. d - 1 : q[j] \in Nat \ {0} BY <1>3, <2>6
    <3>2. 1 \in 1 .. d - 1 BY <2>1
    <3> QED BY <1>3, <2>5, <2>6, <3>1, <3>2
  <2>8. \A j \in 1 .. d - 1 : q[j] <= Len(t) /\ t[q[j]] = "open" BY <1>3, <2>6
  <2>9. ASSUME NEW j \in 1 .. (d - 1) - 1 PROVE IsInside(t, q[j] + 1, q[j + 1])
    <3>1. j \in 1 .. d - 1 /\ j + 1 \in 1 .. d - 1 BY <2>1
    <3> QED BY <1>3, <2>6, <3>1
  <2>10. IsInside(t, q[d - 1] + 1, i + 1) BY <2>1, <2>4, <2>6
  <2>11. Stacked(t, s, q, d - 1, i + 1) BY <2>1, <2>7, <2>8, <2>9, <2>10 DEF Stacked
  <2>12. Unquoted(t, i + 1, i + 1, FALSE, FALSE) BY DEF Unquoted
  <2> QED BY <1>7, <2>11, <2>12 DEF HasRead
<1> QED BY <1>6, <1>7
-----------------------------------------------------------------------------
(* The other way around: the scanner reads over what may stand inside.         *)
Scanned(t, s, f) == f[s] = AtRest(0) /\ \A j \in s .. Len(t) : f[j + 1] = Reads(t[j], f[j])

\* What becomes of the registers at each class of character.
LEMMA ReadsAs ==
  ASSUME NEW d
  PROVE  /\ Reads("open", AtRest(d)) = AtRest(d + 1)
         /\ Reads("close", AtRest(d)) = AtRest(d - 1)
         /\ Reads("quote", AtRest(d)) = Within(d)
         /\ \A c \in {"other", "backslash"} : Reads(c, AtRest(d)) = AtRest(d)
         /\ Reads("quote", Within(d)) = AtRest(d)
         /\ Reads("backslash", Within(d)) = Escaped(d)
         /\ \A c : c \notin {"quote", "backslash"} => Reads(c, Within(d)) = Within(d)
         /\ \A c : Reads(c, Escaped(d)) = Within(d)
<1> USE DEF Reads, AtRest, Within, Escaped, Depth
<1>1. Reads("open", AtRest(d)) = AtRest(d + 1) OBVIOUS
<1>2. Reads("close", AtRest(d)) = AtRest(d - 1) OBVIOUS
<1>3. Reads("quote", AtRest(d)) = Within(d) OBVIOUS
<1>4. \A c \in {"other", "backslash"} : Reads(c, AtRest(d)) = AtRest(d) OBVIOUS
<1>5. Reads("quote", Within(d)) = AtRest(d) OBVIOUS
<1>6. Reads("backslash", Within(d)) = Escaped(d) OBVIOUS
<1>7. \A c : c \notin {"quote", "backslash"} => Reads(c, Within(d)) = Within(d) OBVIOUS
<1>8. \A c : Reads(c, Escaped(d)) = Within(d)
  <2> TAKE c
  <2>1. (TRUE \/ c # "quote") = TRUE /\ (~TRUE /\ c = "backslash") = FALSE OBVIOUS
  <2> QED BY <2>1
<1> QED BY <1>1, <1>2, <1>3, <1>4, <1>5, <1>6, <1>7, <1>8

\* The scanner can be run to the end of any text.
LEMMA ScanRuns ==
  ASSUME NEW t, Len(t) \in Nat, NEW s \in Nat, s <= Len(t)
  PROVE  \E f : Scanned(t, s, f)
<1>1. PICK f : Unfolded("scan", t, s, f, Len(t) + 1)
  <2>1. Len(t) + 1 \in Nat OBVIOUS
  <2> QED BY <2>1, Unfolds
<1>2. \A n \in 0 .. Len(t) + 1 : f[n] = ScanStep(t, s, f, n) BY <1>1 DEF Unfolded, Grows
<1>3. f[s] = AtRest(0)
  <2>1. s \in 0 .. Len(t) + 1 OBVIOUS
  <2> QED BY <1>2, <2>1 DEF ScanStep
<1>4. ASSUME NEW j \in s .. Len(t) PROVE f[j + 1] = Reads(t[j], f[j])
  <2>1. j + 1 \in 0 .. Len(t) + 1 /\ ~(j + 1 <= s) /\ (j + 1) - 1 = j OBVIOUS
  <2> QED BY <1>2, <2>1 DEF ScanStep
<1> QED BY <1>3, <1>4 DEF Scanned

\* It reads over what may stand in a string, and stays in it.
LEMMA QuotedIsRead ==
  ASSUME NEW t, Len(t) \in Nat, NEW s \in Nat, NEW f, Scanned(t, s, f), NEW d, NEW l \in Nat
  PROVE  \A k \in Nat \ {0} : IsQuoted(t, k, l) /\ s <= k /\ f[k] = Within(d) => f[l] = Within(d)
<1> DEFINE Fails(k) == IsQuoted(t, k, l) /\ s <= k /\ f[k] = Within(d) /\ f[l] # Within(d)
<1>1. PICK T : T = {n \in Nat : \E k \in Nat \ {0} : n = l - k /\ Fails(k)} OBVIOUS
<1>2. T = {}
  <2> SUFFICES ASSUME T # {} PROVE FALSE OBVIOUS
  <2>1. T \in SUBSET Nat BY <1>1
  <2>2. PICK n \in T : \A y \in T : ~(y < n) BY <2>1, LeastOne
  <2>3. PICK k \in Nat \ {0} : n = l - k /\ Fails(k) BY <1>1, <2>2
  <2>4. k <= l /\ l <= Len(t) + 1 /\ QuotedForm(t, k, l) BY <2>3, QuotedRule
  <2>5. ASSUME NEW h \in Nat \ {0}, k < h, h <= l, IsQuoted(t, h, l), f[h] = Within(d) PROVE FALSE
    <3>1. l - h \in Nat /\ l - h < n /\ s <= h BY <2>3, <2>5
    <3>2. ~(l - h \in T) BY <2>2, <3>1
    <3> QED BY <1>1, <2>3, <2>5, <3>1, <3>2
  <2>6. CASE k = l BY <2>3, <2>6
  <2>7. CASE k < l /\ t[k] \notin {"quote", "backslash"} /\ IsQuoted(t, k + 1, l)
    <3>1. k \in s .. Len(t) /\ k < k + 1 /\ k + 1 <= l /\ k + 1 \in Nat \ {0} BY <2>3, <2>4, <2>7
    <3>2. f[k + 1] = Reads(t[k], Within(d)) BY <2>3, <3>1 DEF Scanned
    <3>3. Reads(t[k], Within(d)) = Within(d) BY <2>7, ReadsAs
    <3> QED BY <2>5, <2>7, <3>1, <3>2, <3>3
  <2>8. CASE k + 1 < l /\ t[k] = "backslash" /\ IsQuoted(t, k + 2, l)
    <3>1. k \in s .. Len(t) /\ k + 1 \in s .. Len(t) /\ (k + 1) + 1 = k + 2
          /\ k < k + 2 /\ k + 2 <= l /\ k + 2 \in Nat \ {0}
      BY <2>3, <2>4, <2>8
    <3>2. f[k + 1] = Reads("backslash", Within(d)) BY <2>3, <2>8, <3>1 DEF Scanned
    <3>3. f[k + 1] = Escaped(d) BY <3>2, ReadsAs
    <3>4. f[k + 2] = Reads(t[k + 1], f[k + 1]) BY <3>1 DEF Scanned
    <3>5. f[k + 2] = Within(d) BY <3>3, <3>4, ReadsAs
    <3> QED BY <2>5, <2>8, <3>1, <3>5
  <2> QED BY <2>4, <2>6, <2>7, <2>8 DEF QuotedForm
<1>3. ASSUME NEW k \in Nat \ {0}, Fails(k) PROVE FALSE
  <2>1. l - k \in Nat BY <1>3 DEF IsQuoted
  <2> QED BY <1>1, <1>2, <1>3, <2>1
<1> QED BY <1>3

\* It reads over what may stand inside, and is as deep as before.
LEMMA InsideIsRead ==
  ASSUME NEW t, Len(t) \in Nat, NEW s \in Nat, NEW f, Scanned(t, s, f)
  PROVE  \A k \in Nat \ {0} : \A l \in Nat : \A d \in Int :
           IsInside(t, k, l) /\ s <= k /\ f[k] = AtRest(d) => f[l] = AtRest(d)
<1> DEFINE Fails(k, l, d) == IsInside(t, k, l) /\ s <= k /\ f[k] = AtRest(d) /\ f[l] # AtRest(d)
<1>1. PICK T : T = {n \in Nat : \E k \in Nat \ {0} : \E l \in Nat : \E d \in Int :
                                  n = l - k /\ Fails(k, l, d)}
  OBVIOUS
<1>2. T = {}
  <2> SUFFICES ASSUME T # {} PROVE FALSE OBVIOUS
  <2>1. T \in SUBSET Nat BY <1>1
  <2>2. PICK n \in T : \A y \in T : ~(y < n) BY <2>1, LeastOne
  <2>3. PICK k \in Nat \ {0}, l \in Nat, d \in Int : n = l - k /\ Fails(k, l, d) BY <1>1, <2>2
  <2>4. k <= l /\ l <= Len(t) + 1 /\ InsideForm(t, k, l) /\ s <= k BY <2>3, InsideRule
  <2>5. ASSUME NEW h \in Nat \ {0}, NEW m \in Nat, NEW c \in Int, s <= h, h <= m, m - h < l - k,
               IsInside(t, h, m), f[h] = AtRest(c)
        PROVE  f[m] = AtRest(c)
    <3>1. m - h \in Nat /\ m - h < n BY <2>3, <2>5
    <3>2. ~(m - h \in T) BY <2>2, <3>1
    <3> QED BY <1>1, <2>5, <3>1, <3>2
  <2>6. CASE k = l BY <2>3, <2>6
  <2>7. CASE k < l /\ t[k] \in {"other", "backslash"} /\ IsInside(t, k + 1, l)
    <3>1. k \in s .. Len(t) /\ s <= k + 1 /\ k + 1 <= l /\ k + 1 \in Nat \ {0} /\ l - (k + 1) < l - k
      BY <2>4, <2>7
    <3>2. f[k + 1] = Reads(t[k], AtRest(d)) BY <2>3, <3>1 DEF Scanned
    <3>3. Reads(t[k], AtRest(d)) = AtRest(d) BY <2>7, ReadsAs
    <3>4. f[l] = AtRest(d) BY <2>5, <2>7, <3>1, <3>2, <3>3
    <3> QED BY <2>3, <3>4
  <2>8. CASE \E e \in k + 1 .. l - 1 : Enclosed(t, k, e) /\ IsInside(t, e + 1, l)
    <3>1. PICK e \in k + 1 .. l - 1 : Enclosed(t, k, e) /\ IsInside(t, e + 1, l) BY <2>8
    <3>2. /\ k \in s .. Len(t) /\ e \in s .. Len(t) /\ e \in Nat
          /\ s <= k + 1 /\ k + 1 <= e /\ k + 1 \in Nat \ {0} /\ e - (k + 1) < l - k
          /\ s <= e + 1 /\ e + 1 <= l /\ e + 1 \in Nat \ {0} /\ l - (e + 1) < l - k
      BY <2>4, <3>1
    <3>3. f[k + 1] = Reads(t[k], AtRest(d)) /\ f[e + 1] = Reads(t[e], f[e])
      BY <2>3, <3>2 DEF Scanned
    <3>4. f[e + 1] = AtRest(d)
      <4>1. CASE t[k] = "quote" /\ IsQuoted(t, k + 1, e) /\ t[e] = "quote"
        <5>1. f[k + 1] = Within(d) BY <3>3, <4>1, ReadsAs
        <5>2. f[e] = Within(d) BY <3>2, <4>1, <5>1, QuotedIsRead
        <5> QED BY <3>3, <4>1, <5>2, ReadsAs
      <4>2. CASE t[k] = "open" /\ IsInside(t, k + 1, e) /\ t[e] = "close"
        <5>1. f[k + 1] = AtRest(d + 1) /\ d + 1 \in Int BY <3>3, <4>2, ReadsAs
        <5>2. f[e] = AtRest(d + 1) BY <2>5, <3>2, <4>2, <5>1
        <5>3. f[e + 1] = Reads("close", AtRest(d + 1)) BY <3>3, <4>2, <5>2
        <5>4. Reads("close", AtRest(d + 1)) = AtRest((d + 1) - 1) BY ReadsAs
        <5>5. (d + 1) - 1 = d OBVIOUS
        <5> QED BY <5>3, <5>4, <5>5
      <4> QED BY <3>1, <4>1, <4>2 DEF Enclosed
    <3>5. f[l] = AtRest(d) BY <2>5, <3>1, <3>2, <3>4
    <3> QED BY <2>3, <3>5
  <2> QED BY <2>4, <2>6, <2>7, <2>8 DEF InsideForm
<1>3. ASSUME NEW k \in Nat \ {0}, NEW l \in Nat, NEW d \in Int, Fails(k, l, d) PROVE FALSE
  <2>1. l - k \in Nat BY <1>3 DEF IsInside
  <2> QED BY <1>1, <1>2, <1>3, <2>1
<1> QED BY <1>3

\* A scanner that is still inside at the end has met no balanced span.
LEMMA NothingBalanced ==
  ASSUME NEW t, Len(t) \in Nat, NEW s \in Nat \ {0}, NEW f, Scanned(t, s, f),
         \A j \in s + 1 .. Len(t) + 1 : f[j].d > 0,
         NEW l \in 1 .. Len(t)
  PROVE  ~BalancedSpan(t, s, l)
<1> SUFFICES ASSUME BalancedSpan(t, s, l) PROVE FALSE OBVIOUS
<1>1. s < l /\ t[s] = "open" /\ t[l] = "close" /\ s + 1 \in Inside(t)[l - s - 1]
  BY DEF BalancedSpan
<1>2. /\ s \in s .. Len(t) /\ l \in s .. Len(t) /\ l + 1 \in s + 1 .. Len(t) + 1
      /\ s + 1 <= l /\ l <= Len(t) + 1 /\ l - s - 1 = l - (s + 1)
      /\ s + 1 \in Nat \ {0} /\ l \in Nat /\ s <= s + 1
  BY <1>1
<1>3. IsInside(t, s + 1, l) BY <1>1, <1>2 DEF IsInside
<1>4. f[s + 1] = AtRest(1)
  <2>1. f[s + 1] = Reads("open", AtRest(0)) BY <1>1, <1>2 DEF Scanned
  <2>2. Reads("open", AtRest(0)) = AtRest(0 + 1) BY ReadsAs
  <2> QED BY <2>1, <2>2
<1>5. f[l] = AtRest(1) BY <1>2, <1>3, <1>4, InsideIsRead
<1>6. f[l + 1] = Reads("close", AtRest(1)) BY <1>1, <1>2, <1>5 DEF Scanned
<1>7. Reads("close", AtRest(1)) = AtRest(1 - 1) BY ReadsAs
<1>8. f[l + 1].d = 0 BY <1>6, <1>7 DEF AtRest
<1>9. f[l + 1].d > 0 BY <1>2
<1> QED BY <1>8, <1>9
-----------------------------------------------------------------------------
(* The invariant of the scanner.                                               *)
Registers == [d |-> depth, str |-> in_string, esc |-> escape]
AtFirst == start \in Openers /\ \A k \in Openers : start <= k

\* No span that begins at the first opener has been passed.
NonePassed ==
  \E f : /\ Scanned(text, start, f) /\ f[index] = Registers
         /\ \A j \in start + 1 .. index : f[j].d > 0

InScan ==
  /\ AtFirst /\ index \in start .. Len(text) + 1
  /\ depth \in Nat /\ in_string \in BOOLEAN /\ escape \in BOOLEAN
  /\ IF index = start THEN depth = 0 /\ ~in_string /\ ~escape
     ELSE depth > 0 /\ HasRead(text, start, index, depth, in_string, escape)
  /\ NonePassed

Scanless == Openers = {} /\ start = 0
Extracted == AtFirst /\ depth = 0 /\ out.first = start /\ BalancedSpan(text, start, out.last)
Missing == AtFirst /\ depth > 0 /\ \A l \in DOMAIN text : ~BalancedSpan(text, start, l)

ScanSound ==
  /\ \E n \in Nat : text \in [1 .. n -> Classes]
  /\ stage \in {"strip", "find_start"} => start = 0 /\ depth = 0 /\ ~in_string /\ ~escape
  /\ stage = "scan" => InScan
  /\ stage = "parse" => Scanless \/ Extracted \/ Missing

\* A text is a sequence of classes.
LEMMA TextIs ==
  ASSUME ScanSound
  PROVE  /\ Len(text) \in Nat /\ DOMAIN text = 1 .. Len(text)
         /\ \A k \in DOMAIN text : text[k] \in Classes
         /\ Openers \subseteq Nat \ {0}
<1>1. PICK n \in Nat : text \in [1 .. n -> Classes] BY DEF ScanSound
<1>2. text \in Seq(Classes) /\ Len(text) = n /\ DOMAIN text = 1 .. n BY <1>1
<1> QED BY <1>1, <1>2 DEF Openers

\* The least of the openers is there.
LEMMA FirstFound ==
  ASSUME ScanSound, Openers # {}
  PROVE  FirstOpener \in Openers /\ \A k \in Openers : FirstOpener <= k
<1>1. Openers \in SUBSET Nat BY TextIs
<1>2. PICK k \in Openers : \A l \in Openers : ~(l < k) BY <1>1, LeastOne
<1>3. \A l \in Openers : k <= l BY <1>1, <1>2
<1> QED BY <1>2, <1>3 DEF FirstOpener

\* The scan begins at the first opener.
LEMMA FindStartSound == ASSUME ScanSound, FindStart PROVE ScanSound'
<1>1. Openers # {} /\ stage = "find_start" BY DEF FindStart
<1>2. FirstOpener \in Openers /\ \A k \in Openers : FirstOpener <= k BY <1>1, FirstFound
<1>3. PICK s : s = FirstOpener OBVIOUS
<1>4. text' = text /\ start' = s /\ index' = s /\ stage' = "scan"
      /\ UNCHANGED <<depth, in_string, escape>>
  BY <1>3 DEF FindStart
<1>5. depth = 0 /\ ~in_string /\ ~escape BY <1>1 DEF ScanSound
<1>6. s \in Nat \ {0} /\ s <= Len(text) /\ Len(text) \in Nat
  BY <1>2, <1>3, TextIs DEF Openers
<1>7. AtFirst' BY <1>2, <1>3, <1>4 DEF AtFirst, Openers
<1>8. PICK f : Scanned(text, s, f) BY <1>6, ScanRuns
<1>9. Registers' = AtRest(0)
  <2>1. in_string' = FALSE /\ escape' = FALSE /\ depth' = 0
    <3>1. in_string' = in_string /\ escape' = escape /\ depth' = depth BY <1>4
    <3> QED BY <1>5, <3>1
  <2> QED BY <2>1 DEF Registers, AtRest
<1>10. NonePassed'
  <2>1. f[s] = AtRest(0) BY <1>8 DEF Scanned
  <2>2. s + 1 .. s = {} BY <1>6
  <2>3. \E g : /\ Scanned(text', start', g) /\ g[index'] = Registers'
               /\ \A j \in start' + 1 .. index' : g[j].d > 0
    BY <1>4, <1>8, <1>9, <2>1, <2>2
  <2> QED BY <2>3 DEF NonePassed
<1>11. InScan'
  <2>1. index' \in start' .. Len(text') + 1 /\ index' = start' BY <1>4, <1>6
  <2>2. depth' = 0 /\ depth' \in Nat BY <1>4, <1>5
  <2>3. ~in_string' /\ ~escape' /\ in_string' \in BOOLEAN /\ escape' \in BOOLEAN
    BY <1>4, <1>5, <1>9 DEF Registers, AtRest
  <2> QED BY <1>7, <1>10, <2>1, <2>2, <2>3 DEF InScan
<1> QED BY <1>4, <1>11 DEF ScanSound

\* One more character, and the scanner is still inside.
LEMMA StillInside ==
  ASSUME ScanSound, InScan, index <= Len(text), index' = index + 1, UNCHANGED <<text, start>>,
         Registers' = Reads(text[index], Registers), stage' = "scan",
         depth' \in Nat, depth' > 0, in_string' \in BOOLEAN, escape' \in BOOLEAN,
         HasRead(text, start, index + 1, depth', in_string', escape')
  PROVE  ScanSound'
<1>1. Len(text) \in Nat /\ start \in Nat \ {0} /\ index \in start .. Len(text)
  BY TextIs DEF InScan, AtFirst
<1>2. PICK f : /\ Scanned(text, start, f) /\ f[index] = Registers
               /\ \A j \in start + 1 .. index : f[j].d > 0
  BY DEF InScan, NonePassed
<1>3. f[index + 1] = Registers' BY <1>1, <1>2 DEF Scanned
<1>4. f[index + 1].d > 0
  <2>1. Registers'.d = depth' BY DEF Registers
  <2> QED BY <1>3, <2>1
<1>5. \A j \in start + 1 .. index + 1 : f[j].d > 0
  <2>1. \A j \in start + 1 .. index + 1 : j \in start + 1 .. index \/ j = index + 1 BY <1>1
  <2> QED BY <1>2, <1>4, <2>1
<1>6. NonePassed'
  <2>1. \E g : /\ Scanned(text', start', g) /\ g[index'] = Registers'
               /\ \A j \in start' + 1 .. index' : g[j].d > 0
    BY <1>2, <1>3, <1>5
  <2> QED BY <2>1 DEF NonePassed
<1>7. AtFirst' BY DEF InScan, AtFirst, Openers
<1>8. index' \in start' .. Len(text') + 1 /\ index' # start' BY <1>1
<1>9. InScan' BY <1>6, <1>7, <1>8 DEF InScan
<1>10. \E n \in Nat : text' \in [1 .. n -> Classes] BY DEF ScanSound
<1> QED BY <1>9, <1>10 DEF ScanSound
\* A scanner that is not at the first opener is inside it.
LEMMA Inner ==
  ASSUME ScanSound, stage = "scan"
  PROVE  /\ InScan /\ AtFirst /\ Len(text) \in Nat /\ start \in Nat \ {0} /\ text[start] = "open"
         /\ index \in start .. Len(text) + 1 /\ index \in Nat \ {0}
         /\ depth \in Nat /\ in_string \in BOOLEAN /\ escape \in BOOLEAN
         /\ index = start => depth = 0 /\ ~in_string /\ ~escape
         /\ index # start => depth > 0 /\ HasRead(text, start, index, depth, in_string, escape)
<1>1. InScan BY DEF ScanSound
<1>2. Len(text) \in Nat /\ start \in Nat \ {0} /\ text[start] = "open"
  BY <1>1, TextIs DEF InScan, AtFirst, Openers
<1> QED BY <1>1, <1>2 DEF InScan

\* Outside a string there is no backslash to be remembered.
LEMMA NoEscape ==
  ASSUME ScanSound, stage = "scan", ~in_string
  PROVE  in_string = FALSE /\ escape = FALSE
<1>1. CASE index = start BY <1>1, Inner
<1>2. CASE index # start
  <2>1. HasRead(text, start, index, depth, in_string, escape) /\ escape \in BOOLEAN BY <1>2, Inner
  <2>2. PICK p, e : Unquoted(text, e, index, in_string, escape) BY <2>1 DEF HasRead
  <2> QED BY <2>1, <2>2 DEF Unquoted
<1> QED BY <1>1, <1>2, Inner

\* One character inside a string.
LEMMA InStringSound == ASSUME ScanSound, InString PROVE ScanSound'
<1>1. stage = "scan" /\ index <= Len(text) /\ in_string BY DEF InString
<1>2. /\ index' = index + 1 /\ UNCHANGED <<text, start, depth, stage>>
      /\ IF escape THEN escape' = FALSE /\ in_string' = in_string
         ELSE escape' = (text[index] = "backslash") /\ in_string' = (text[index] # "quote")
  BY DEF InString
<1>3. index # start /\ in_string = TRUE /\ escape \in BOOLEAN BY <1>1, Inner
<1>4. /\ in_string' = (escape \/ text[index] # "quote")
      /\ escape' = (~escape /\ text[index] = "backslash")
  BY <1>2, <1>3
<1>5. HasRead(text, start, index, depth, TRUE, escape) BY <1>1, <1>3, Inner
<1>6. HasRead(text, start, index + 1, depth, in_string', escape')
  <2>1. Len(text) \in Nat /\ index \in Nat \ {0} BY <1>1, Inner
  <2>2. HasRead(text, start, index + 1, depth, escape \/ text[index] # "quote",
                ~escape /\ text[index] = "backslash")
    BY <1>1, <1>3, <1>5, <2>1, ReadsQuoted
  <2> QED BY <1>4, <2>2
<1>7. Registers' = Reads(text[index], Registers)
  <2>1. Registers = [d |-> depth, str |-> TRUE, esc |-> escape] BY <1>3 DEF Registers
  <2>2. Registers' = [d |-> depth, str |-> escape \/ text[index] # "quote",
                      esc |-> ~escape /\ text[index] = "backslash"]
    BY <1>2, <1>4 DEF Registers
  <2> QED BY <2>1, <2>2 DEF Reads
<1>8. depth' \in Nat /\ depth' > 0 /\ in_string' \in BOOLEAN /\ escape' \in BOOLEAN
  BY <1>1, <1>2, <1>3, <1>4, Inner
<1> QED BY <1>1, <1>2, <1>6, <1>7, <1>8, Inner, StillInside

\* A plain one outside.
LEMMA OutsideSound == ASSUME ScanSound, Outside PROVE ScanSound'
<1>1. stage = "scan" /\ index <= Len(text) /\ ~in_string /\ text[index] \in {"other", "backslash"}
  BY DEF Outside, Sees
<1>2. index' = index + 1 /\ UNCHANGED <<text, stage, start, depth, in_string, escape>>
  BY DEF Outside, scanner
<1>3. in_string = FALSE /\ escape = FALSE BY <1>1, NoEscape
<1>4. index # start BY <1>1, Inner
<1>5. HasRead(text, start, index + 1, depth, FALSE, FALSE)
  <2>1. HasRead(text, start, index, depth, FALSE, FALSE) BY <1>1, <1>3, <1>4, Inner
  <2>2. Len(text) \in Nat /\ index \in Nat \ {0} BY <1>1, Inner
  <2> QED BY <1>1, <2>1, <2>2, ReadsPlain
<1>6. Registers' = Reads(text[index], Registers)
  <2>1. Registers = AtRest(depth) /\ Registers' = AtRest(depth) BY <1>2, <1>3 DEF Registers, AtRest
  <2> QED BY <1>1, <2>1, ReadsAs
<1>7. depth' = depth /\ depth \in Nat /\ depth > 0 /\ in_string' = FALSE /\ escape' = FALSE
  BY <1>1, <1>2, <1>3, <1>4, Inner
<1> QED BY <1>1, <1>2, <1>5, <1>6, <1>7, Inner, StillInside

\* A string begins.
LEMMA OpenStringSound == ASSUME ScanSound, OpenString PROVE ScanSound'
<1>1. stage = "scan" /\ index <= Len(text) /\ ~in_string /\ text[index] = "quote"
  BY DEF OpenString, Sees
<1>2. index' = index + 1 /\ in_string' = TRUE /\ UNCHANGED <<text, stage, start, depth, escape>>
  BY DEF OpenString
<1>3. in_string = FALSE /\ escape = FALSE BY <1>1, NoEscape
<1>4. index # start BY <1>1, Inner
<1>5. HasRead(text, start, index + 1, depth, TRUE, FALSE)
  <2>1. HasRead(text, start, index, depth, FALSE, FALSE) BY <1>1, <1>3, <1>4, Inner
  <2>2. Len(text) \in Nat /\ index \in Nat \ {0} BY <1>1, Inner
  <2> QED BY <1>1, <2>1, <2>2, ReadsQuote
<1>6. Registers' = Reads(text[index], Registers)
  <2>1. Registers = AtRest(depth) /\ Registers' = Within(depth)
    BY <1>2, <1>3 DEF Registers, AtRest, Within
  <2> QED BY <1>1, <2>1, ReadsAs
<1>7. depth' = depth /\ depth \in Nat /\ depth > 0 /\ escape' = FALSE BY <1>1, <1>2, <1>3, <1>4, Inner
<1> QED BY <1>1, <1>2, <1>5, <1>6, <1>7, Inner, StillInside

\* An opener, the first or another.
LEMMA OpenSound == ASSUME ScanSound, Open PROVE ScanSound'
<1>1. stage = "scan" /\ index <= Len(text) /\ ~in_string /\ text[index] = "open" BY DEF Open, Sees
<1>2. /\ index' = index + 1 /\ depth' = depth + 1
      /\ UNCHANGED <<text, stage, start, in_string, escape>>
  BY DEF Open
<1>3. in_string = FALSE /\ escape = FALSE BY <1>1, NoEscape
<1>4. Len(text) \in Nat /\ index \in Nat \ {0} /\ depth \in Nat BY <1>1, Inner
<1>5. HasRead(text, start, index + 1, depth + 1, FALSE, FALSE)
  <2>1. CASE index = start
    <3>1. depth + 1 = 1 /\ start \in Nat \ {0} BY <1>1, <2>1, Inner
    <3> QED BY <1>1, <1>4, <2>1, <3>1, ReadsFirst
  <2>2. CASE index # start
    <3>1. HasRead(text, start, index, depth, FALSE, FALSE) BY <1>1, <1>3, <2>2, Inner
    <3> QED BY <1>1, <1>4, <3>1, ReadsOpen
  <2> QED BY <2>1, <2>2
<1>6. Registers' = Reads(text[index], Registers)
  <2>1. Registers = AtRest(depth) /\ Registers' = AtRest(depth + 1)
    BY <1>2, <1>3 DEF Registers, AtRest
  <2> QED BY <1>1, <2>1, ReadsAs
<1>7. depth' \in Nat /\ depth' > 0 /\ in_string' = FALSE /\ escape' = FALSE BY <1>2, <1>3, <1>4
<1> QED BY <1>1, <1>2, <1>5, <1>6, <1>7, Inner, StillInside

\* A closer ends the span, or one that it has inside.
LEMMA CloseSound == ASSUME ScanSound, Close PROVE ScanSound'
<1>1. stage = "scan" /\ index <= Len(text) /\ ~in_string /\ text[index] = "close" BY DEF Close, Sees
<1>2. /\ index' = index + 1 /\ depth' = depth - 1
      /\ UNCHANGED <<text, start, in_string, escape>>
      /\ IF depth' = 0 THEN out'.first = start /\ out'.last = index /\ stage' = "parse"
         ELSE stage' = stage
  <2>1. Take(start, index, << >>) => out'.first = start /\ out'.last = index BY DEF Take, Nothing
  <2> QED BY <2>1 DEF Close, Outermost
<1>3. in_string = FALSE /\ escape = FALSE BY <1>1, NoEscape
<1>4. /\ Len(text) \in Nat /\ index \in Nat \ {0} /\ depth \in Nat /\ AtFirst /\ InScan
      /\ index # start
  BY <1>1, Inner
<1>5. depth > 0 /\ HasRead(text, start, index, depth, FALSE, FALSE) BY <1>1, <1>3, <1>4, Inner
<1>6. /\ depth = 1 => BalancedSpan(text, start, index)
      /\ depth # 1 => HasRead(text, start, index + 1, depth - 1, FALSE, FALSE)
  BY <1>1, <1>4, <1>5, ReadsClose
<1>7. CASE depth = 1
  <2>1. depth' = 0 /\ out'.first = start /\ out'.last = index /\ stage' = "parse" BY <1>2, <1>7
  <2>2. AtFirst' BY <1>2, <1>4 DEF AtFirst, Openers
  <2>3. Extracted' BY <1>2, <1>6, <1>7, <2>1, <2>2 DEF Extracted
  <2>4. \E n \in Nat : text' \in [1 .. n -> Classes] BY <1>2 DEF ScanSound
  <2> QED BY <2>1, <2>3, <2>4 DEF ScanSound
<1>8. CASE depth # 1
  <2>1. depth' \in Nat /\ depth' > 0 /\ depth' # 0 BY <1>2, <1>4, <1>5, <1>8
  <2>2. stage' = "scan" BY <1>1, <1>2, <2>1
  <2>3. Registers' = Reads(text[index], Registers)
    <3>1. Registers = AtRest(depth) /\ Registers' = AtRest(depth - 1)
      BY <1>2, <1>3 DEF Registers, AtRest
    <3> QED BY <1>1, <3>1, ReadsAs
  <2>4. in_string' = FALSE /\ escape' = FALSE BY <1>2, <1>3
  <2>5. HasRead(text, start, index + 1, depth', in_string', escape') BY <1>2, <1>6, <1>8, <2>4
  <2> QED BY <1>1, <1>2, <1>4, <2>1, <2>2, <2>3, <2>4, <2>5, StillInside
<1> QED BY <1>7, <1>8

\* The text ends inside the span.
LEMMA UnclosedSound == ASSUME ScanSound, Unclosed PROVE ScanSound'
<1>1. stage = "scan" /\ index > Len(text) BY DEF Unclosed
<1>2. stage' = "parse" /\ UNCHANGED <<text, start, depth>> BY DEF Unclosed, scanner
<1>3. /\ InScan /\ AtFirst /\ Len(text) \in Nat /\ start \in Nat \ {0} /\ depth \in Nat
      /\ index \in start .. Len(text) + 1
  BY <1>1, Inner
<1>4. index = Len(text) + 1 BY <1>1, <1>3
<1>5. depth > 0
  <2>1. start <= Len(text) BY <1>3, TextIs DEF AtFirst, Openers
  <2>2. index # start BY <1>1, <1>3, <2>1
  <2> QED BY <1>1, <2>2, Inner
<1>6. ASSUME NEW l \in DOMAIN text PROVE ~BalancedSpan(text, start, l)
  <2>1. l \in 1 .. Len(text) BY TextIs
  <2>2. PICK f : Scanned(text, start, f) /\ \A j \in start + 1 .. index : f[j].d > 0
    BY <1>3 DEF InScan, NonePassed
  <2> QED BY <1>3, <1>4, <2>1, <2>2, NothingBalanced
<1>7. Missing'
  <2>1. AtFirst' BY <1>2, <1>3 DEF AtFirst, Openers
  <2> QED BY <1>2, <1>5, <1>6, <2>1 DEF Missing
<1>8. \E n \in Nat : text' \in [1 .. n -> Classes] BY <1>2 DEF ScanSound
<1> QED BY <1>2, <1>7, <1>8 DEF ScanSound

\* No other step of the function touches the scanner.
LEMMA ScanStays == NormalizeSpec => []ScanSound
<1>1. NormalizeInit => ScanSound
  <2> SUFFICES ASSUME NormalizeInit PROVE ScanSound OBVIOUS
  <2>1. \E n \in Nat : text \in [1 .. n -> Classes]
    <3>1. PICK n \in 0 .. MaxLen : text \in [1 .. n -> Classes] BY DEF NormalizeInit, Texts
    <3>2. n \in Nat BY LengthBound
    <3> QED BY <3>1, <3>2
  <2> QED BY <2>1 DEF NormalizeInit, ScanSound
<1>2. ASSUME ScanSound, [NormalizeNext]_normalizeVars PROVE ScanSound'
  <2>1. CASE Strip
    <3>1. stage = "strip" /\ stage' = "find_start"
          /\ UNCHANGED <<text, start, depth, in_string, escape>>
      BY <2>1 DEF Strip, scanner
    <3> QED BY <1>2, <3>1 DEF ScanSound
  <2>2. CASE NoOpener
    <3>1. stage = "find_start" /\ Openers = {} /\ stage' = "parse" /\ UNCHANGED <<text, start>>
      BY <2>2 DEF NoOpener, scanner
    <3>2. start = 0 BY <1>2, <3>1 DEF ScanSound
    <3>3. Scanless' BY <3>1, <3>2 DEF Scanless, Openers
    <3> QED BY <1>2, <3>1, <3>3 DEF ScanSound
  <2>3. CASE \/ NotJson \/ OtherJson
             \/ \E keys \in SUBSET {"action", "tool", "arguments", "answer"} :
                  \E form \in {"object", "unwrapped_object"} : ObjectJson(keys, form)
    <3>1. stage' = "done" /\ text' = text BY <2>3 DEF NotJson, OtherJson, ObjectJson
    <3> QED BY <1>2, <3>1 DEF ScanSound
  <2>4. CASE UNCHANGED normalizeVars
    <3>1. UNCHANGED <<text, stage, index, start, depth, in_string, escape, out>>
      BY <2>4 DEF normalizeVars
    <3>2. Openers' = Openers /\ Registers' = Registers BY <3>1 DEF Openers, Registers
    <3>3. AtFirst' = AtFirst /\ NonePassed' = NonePassed BY <3>1, <3>2 DEF AtFirst, NonePassed
    <3>4. InScan' = InScan BY <3>1, <3>3 DEF InScan
    <3>5. Scanless' = Scanless /\ Extracted' = Extracted /\ Missing' = Missing
      BY <3>1, <3>2, <3>3 DEF Scanless, Extracted, Missing
    <3> QED BY <1>2, <3>1, <3>4, <3>5 DEF ScanSound
  <2>5. CASE Returned BY <2>4, <2>5 DEF Returned
  <2> QED BY <1>2, <2>1, <2>2, <2>3, <2>4, <2>5, FindStartSound, InStringSound, OutsideSound,
             OpenStringSound, OpenSound, CloseSound, UnclosedSound
      DEF NormalizeNext, Normalize
<1> QED BY <1>1, <1>2, PTL DEF NormalizeSpec

\* Of any completion, what _find_balanced_json_span extracts starts at the first
\* opener and is a balanced span by the grammar.
THEOREM ExtractedIsBalanced == NormalizeSpec => []SpanIsBalanced
<1>1. ScanSound => SpanIsBalanced
  <2> SUFFICES ASSUME ScanSound, stage = "parse", Found PROVE SpanIsBalanced
    BY DEF SpanIsBalanced
  <2>1. start > 0 /\ depth = 0 BY DEF Found
  <2>2. Extracted BY <2>1 DEF ScanSound, Scanless, Missing
  <2> QED BY <2>2 DEF Extracted, AtFirst, SpanIsBalanced
<1> QED BY <1>1, ScanStays, PTL

\* When it extracts nothing, no balanced span begins at the first opener.
THEOREM NothingExtractedMissed == NormalizeSpec => []NoSpanMissed
<1>1. ScanSound => NoSpanMissed
  <2> SUFFICES ASSUME ScanSound, stage = "parse", Openers # {}, ~Found,
                      NEW k \in DOMAIN text, NEW l \in DOMAIN text, BalancedSpan(text, k, l)
               PROVE  \E j \in Openers : j < k
    BY DEF NoSpanMissed
  <2>1. Missing
    <3>1. ~Scanless BY DEF Scanless
    <3>2. ~Extracted
      <4>1. AtFirst => start > 0 BY TextIs DEF AtFirst
      <4> QED BY <4>1 DEF Extracted, Found
    <3> QED BY <3>1, <3>2 DEF ScanSound
  <2>2. k \in Openers /\ k \in Nat BY TextIs DEF BalancedSpan, Openers
  <2>3. start \in Openers /\ start <= k /\ start \in Nat BY <2>1, <2>2, TextIs DEF Missing, AtFirst
  <2>4. k # start BY <2>1 DEF Missing
  <2> QED BY <2>2, <2>3, <2>4
<1> QED BY <1>1, ScanStays, PTL
=============================================================================
