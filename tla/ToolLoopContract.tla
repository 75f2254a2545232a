-------------------------- MODULE ToolLoopContract --------------------------
(***************************************************************************)
(* What one run of a sub-agent's tool loop promises its caller, without    *)
(* saying how: a growing list of recorded calls, the executions those      *)
(* calls caused on the tool server, and one final outcome.  ToolLoop       *)
(* implements this module; SupervisorTurn composes two instances of it.    *)
(***************************************************************************)
EXTENDS Naturals, Sequences

CONSTANTS
  Keys,           \* (tool, arguments) pairs a model may ask for
  AllowedKeys,    \* those whose tool is bound to this sub-agent
  MaxIterations   \* bound on the recorded calls of one loop

VARIABLES
  calls,          \* recorded calls, oldest first
  executed,       \* <<n, k>>: the server ran k while the n-th call was out
  outcome         \* "running", or how the loop ended

contractVars == <<calls, executed, outcome>>

Statuses == {"result", "error", "cached"}

\* The three outcomes with a flag and no answer.  "empty" is a "final" without
\* an answer, "raised" an exception that leaves run_tool_loop.
NoAnswerOutcomes == {"hit_cap", "llm_call_failed", "hit_budget_guard"}
Outcomes == {"answered", "empty", "raised"} \cup NoAnswerOutcomes

CallEntry == [key : Keys, status : Statuses]

\* Keys whose result the loop has already been given.
Succeeded(cs) == {cs[i].key : i \in {j \in DOMAIN cs : cs[j].status = "result"}}

ContractTypeOK ==
  /\ calls \in Seq(CallEntry)
  /\ executed \subseteq (1 .. MaxIterations) \X AllowedKeys
  /\ outcome \in {"running"} \cup Outcomes

ContractInit ==
  /\ calls = << >>
  /\ executed = {}
  /\ outcome = "running"

-----------------------------------------------------------------------------
\* The server runs the call that is out: at most one execution per call, and
\* none for a key whose result the loop already holds.
Execute(k) ==
  /\ outcome = "running"
  /\ Len(calls) < MaxIterations
  /\ k \in AllowedKeys \ Succeeded(calls)
  /\ \A p \in executed : p[1] # Len(calls) + 1
  /\ executed' = executed \cup {<<Len(calls) + 1, k>>}
  /\ UNCHANGED <<calls, outcome>>

\* A result is recorded only for a call the server ran, a cached one only for
\* a key with a recorded result; a failed call may have been run or not, but
\* if the server ran the call that is out, the entry is about that call.
Record(k, status) ==
  /\ outcome = "running"
  /\ Len(calls) < MaxIterations
  /\ \A p \in executed : p[1] = Len(calls) + 1 => p[2] = k /\ status # "cached"
  /\ status = "result" => <<Len(calls) + 1, k>> \in executed
  /\ status = "cached" <=> k \in Succeeded(calls)
  /\ calls' = Append(calls, [key |-> k, status |-> status])
  /\ UNCHANGED <<executed, outcome>>

\* The loop ends with no call out; the cap only after MaxIterations calls.
Finish(o) ==
  /\ outcome = "running"
  /\ \A p \in executed : p[1] <= Len(calls)
  /\ o = "hit_cap" <=> Len(calls) = MaxIterations
  /\ outcome' = o
  /\ UNCHANGED <<calls, executed>>

ContractNext ==
  \/ \E k \in Keys : Execute(k)
  \/ \E k \in Keys, status \in Statuses : Record(k, status)
  \/ \E o \in Outcomes : Finish(o)

ContractSpec == ContractInit /\ [][ContractNext]_contractVars
=============================================================================
