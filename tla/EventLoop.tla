------------------------------- MODULE EventLoop -------------------------------
(* The one event loop of the one worker process. Chat turns call the model    *)
(* and the database synchronously on it, retries and their sleeps included;   *)
(* between two awaits nothing else runs, the readiness probe neither. asyncio *)
(* runs the handles that are ready in batches: what becomes ready meanwhile   *)
(* is for the next batch. A turn is a lead strand and, while both agents run, *)
(* a second one: two tasks of the same superstep. Time is discrete. What a    *)
(* turn decides is SupervisorTurn's matter: here it is the calls of its nodes.*)
EXTENDS Integers, FiniteSets, FiniteSetsExt

CONSTANTS
  Turns, Probes,
  MaxIterations,   \* MAX_ITERATIONS of a tool loop
  VerifyCalls,     \* model calls of verify_claims: two checks and a regeneration
  MaxRetries, BaseDelay, MaxDelay,   \* llm_retry_* settings
  MaxCall,         \* bound: duration of an HTTP request to the provider
  MaxDb,           \* bound: duration of a database call
  MaxWait,         \* bound: duration of what runs in a thread or another process
  Hops             \* awaits of /readyz that suspend it

ASSUME Sizes == /\ {MaxIterations, VerifyCalls} \subseteq Nat \ {0}
                /\ {MaxRetries, BaseDelay, MaxDelay, MaxCall, MaxDb, Hops} \subseteq Nat
                /\ MaxWait \in Nat \ {0}

\* The second strand of a turn is the second agent's, of a turn routed to both.
Lead(t) == <<t, "lead">>
Second(t) == <<t, "second">>
Seconds == Turns \X {"second"}
Strands == Turns \X {"lead", "second"}
Tasks == Strands \cup Probes

ASSUME Kinds == IsFiniteSet(Turns) /\ Strands \cap Probes = {}

VARIABLES
  place,    \* where a task is: new, idle (not started), due, batch, on (the loop),
            \* wait, join (for the other agent) or done
  rest,     \* time left of a task's wait, or of the call it blocks the loop with
  node,     \* the node of a strand
  calls,    \* model calls the node has made
  phase,    \* inside complete(), of the strand on the loop
  attempt,  \* attempt of complete()
  hops,     \* awaits a probe still has before it
  held,     \* history: how long the strand on the loop has held it, capped
  lag       \* history: how long a probe has been ready without being run, capped

vars == <<place, rest, node, calls, phase, attempt, hops, held, lag>>

At(p) == {t \in Tasks : place[t] = p}
Free == At("on") = {}
Nodes == {"load", "router", "loop", "abort", "synthesis", "verify", "store"}

\* Delay before the attempt that follows the n-th failure.
Delay_Uncapped(n) == BaseDelay * 2 ^ (n - 1)
Delay(n) == Min({BaseDelay * 2 ^ (n - 1), MaxDelay})
Exhausted_OneLate(n) == n > MaxRetries + 1
Exhausted(n) == n > MaxRetries

\* What the properties below allow one call, one stay on the loop, two stays of
\* one strand in a row, the whole loop of a second agent, and one wait.
CompleteBound == (MaxRetries + 1) * MaxCall + MaxRetries * MaxDelay
InARow == Max({MaxIterations, VerifyCalls})
HoldBound == Max({MaxDb, InARow * CompleteBound})
TwoStretches == InARow * CompleteBound + Max({MaxDb, CompleteBound})
SecondLoop == MaxIterations * CompleteBound
LagBound == Cardinality(Turns) * (TwoStretches + SecondLoop)

Init ==
  /\ place = [t \in Tasks |-> IF t \in Seconds THEN "idle" ELSE "new"]
  /\ rest = [t \in Tasks |-> 0]
  /\ node = [s \in Strands |-> IF s \in Seconds THEN "loop" ELSE "load"]
  /\ calls = [s \in Strands |-> 0]
  /\ phase = "none" /\ attempt = 0
  /\ hops = [p \in Probes |-> Hops]
  /\ held = 0 /\ lag = [p \in Probes |-> 0]

Arrive(t) ==
  /\ place[t] = "new"
  /\ place' = [place EXCEPT ![t] = "due"]
  /\ UNCHANGED <<rest, node, calls, phase, attempt, hops, held, lag>>

\* One iteration of the loop begins: what is due is run, in any order.
Poll ==
  /\ Free /\ At("batch") = {} /\ At("due") # {}
  /\ place' = [t \in Tasks |-> IF place[t] = "due" THEN "batch" ELSE place[t]]
  /\ UNCHANGED <<rest, node, calls, phase, attempt, hops, held, lag>>

\* Time passes while the loop is blocked, or has nothing to run.
Tick ==
  /\ \/ \E t \in At("on") : rest[t] > 0
     \/ Free /\ At("batch") = {} /\ At("due") = {} /\ At("wait") # {}
  /\ rest' = [t \in Tasks |-> IF rest[t] > 0 THEN rest[t] - 1 ELSE 0]
  /\ place' = [t \in Tasks |-> IF place[t] = "wait" /\ rest[t] = 1 THEN "due" ELSE place[t]]
  /\ held' = IF Free THEN held ELSE Min({held, HoldBound}) + 1
  /\ lag' = [p \in Probes |-> IF place[p] \in {"due", "batch"} THEN Min({lag[p], LagBound}) + 1 ELSE lag[p]]
  /\ UNCHANGED <<node, calls, phase, attempt, hops>>

-----------------------------------------------------------------------------
\* complete() of the provider, on the loop from its first attempt to its result.
Call(t) ==
  /\ place[t] = "on" /\ phase = "call"
  /\ phase' = "http"
  /\ \E d \in 0 .. MaxCall : rest' = [rest EXCEPT ![t] = d]
  /\ UNCHANGED <<place, node, calls, attempt, hops, held, lag>>

Over(t, p) == place[t] = "on" /\ phase = p /\ rest[t] = 0

Succeeds_Uncounted(t) ==
  /\ Over(t, "http")
  /\ phase' = "answered" /\ attempt' = 0
  /\ UNCHANGED <<place, rest, node, calls, hops, held, lag>>
Succeeds(t) ==
  /\ Over(t, "http")
  /\ phase' = "answered" /\ attempt' = 0
  /\ calls' = [calls EXCEPT ![t] = @ + 1]
  /\ UNCHANGED <<place, rest, node, hops, held, lag>>

\* A retryable error: sleep and try again, or raise after the last attempt.
FailsOnce(t) ==
  /\ Over(t, "http")
  /\ IF Exhausted(attempt + 1)
     THEN phase' = "failed" /\ attempt' = 0 /\ UNCHANGED rest
     ELSE /\ phase' = "sleep" /\ attempt' = attempt + 1
          /\ rest' = [rest EXCEPT ![t] = Delay(attempt + 1)]
  /\ UNCHANGED <<place, node, calls, hops, held, lag>>

FailsForGood(t) ==
  /\ Over(t, "http")
  /\ phase' = "failed" /\ attempt' = 0
  /\ UNCHANGED <<place, rest, node, calls, hops, held, lag>>

WakeUp(t) ==
  /\ Over(t, "sleep")
  /\ phase' = "call"
  /\ UNCHANGED <<place, rest, node, calls, attempt, hops, held, lag>>

-----------------------------------------------------------------------------
\* Strand t gives the loop back, on its way to node n, or for good if it is not
\* among moved. These go to place p, where w of them may have to wait.
GiveBack(t, n, moved, p, w) ==
  /\ place' = [x \in Tasks |-> IF x \in moved THEN p ELSE IF x = t THEN "done" ELSE place[x]]
  /\ \E d \in (IF p = "wait" THEN 1 .. MaxWait ELSE {0}) : rest' = [rest EXCEPT ![w] = d]
  /\ node' = [node EXCEPT ![t] = n]
  /\ calls' = [calls EXCEPT ![t] = IF w = t /\ p = "wait" /\ n = node[t] THEN @ ELSE 0]
  /\ phase' = "none" /\ held' = 0
  /\ UNCHANGED <<attempt, hops, lag>>
\* For a wait, for the next iteration, or for good.
Leave(t, p, n) == GiveBack(t, n, {t}, p, t)
Ends(t) == Leave(t, "done", node[t])
Again(t) == phase' = "call" /\ UNCHANGED <<place, rest, node, calls, attempt, hops, held, lag>>

Resume(t) ==
  /\ Free /\ place[t] = "batch"
  /\ node[t] # "abort" /\ (node[t] = "loop" => calls[t] < MaxIterations)
  /\ place' = [place EXCEPT ![t] = "on"]
  /\ IF node[t] \in {"load", "store"}
     THEN phase' = "db" /\ \E d \in 0 .. MaxDb : rest' = [rest EXCEPT ![t] = d]
     ELSE phase' = "call" /\ UNCHANGED rest
  /\ UNCHANGED <<node, calls, attempt, hops, held, lag>>

\* The agent of strand t is through. Merge waits for both agents; then come
\* synthesis, or escalation with its tool call.
LoopEnds(t) ==
  LET lead == Lead(t[1])  second == Second(t[1]) IN
  \/ t = lead /\ place[second] \in {"idle", "done"} /\ \E p \in {"due", "wait"} : Leave(t, p, "synthesis")
  \/ t = lead /\ place[second] \notin {"idle", "done"} /\ Leave(t, "join", "synthesis")
  \/ t = second /\ place[lead] = "join" /\ \E p \in {"due", "wait"} : GiveBack(t, "loop", {lead}, p, lead)
  \/ t = second /\ place[lead] # "join" /\ Ends(t)

\* Resumed without a model call of its own.
PassOn(t, n) == Free /\ place[t] = "batch" /\ node[t] = n
SessionFails(t) == PassOn(t, "router") /\ Ends(t)
LoopCapped(t) == PassOn(t, "loop") /\ calls[t] = MaxIterations /\ LoopEnds(t)
NoActionNamed(t) == PassOn(t, "verify") /\ Leave(t, "wait", "store")
\* The turn sees that an agent raised: it cancels the other one and ends.
Aborts(t) == PassOn(t, "abort") /\ GiveBack(t, "abort", {Lead(t[1]), Second(t[1])}, "done", t)

\* The request is refused or its session is opened; the reply is stored.
DbDone(t) ==
  /\ Over(t, "db")
  /\ \/ Ends(t)
     \/ node[t] = "load" /\ Leave(t, "wait", "router")

\* To one agent, to both at once, to escalation with its tool call, or to clarify.
AfterRouter(t) ==
  /\ node[t] = "router" /\ place[t] = "on"
  /\ \/ phase = "answered" /\ \/ Leave(t, "due", "loop")
                              \/ GiveBack(t, "loop", {t, Second(t[1])}, "due", t)
                              \/ Leave(t, "wait", "synthesis") \/ Leave(t, "wait", "store")
     \/ phase = "failed" /\ Ends(t)

\* A tool call that is sent waits; one answered from the cache, or refused by the
\* allow-list, does not, and the next model call follows with no await between.
\* A reply that is no object raises.
AfterLoopCall(t) ==
  /\ node[t] = "loop" /\ place[t] = "on"
  /\ \/ phase \in {"answered", "failed"} /\ LoopEnds(t)
     \/ phase = "answered" /\ Leave(t, "due", "abort")
     \/ phase = "answered" /\ Leave(t, "wait", "loop")
     \/ phase = "answered" /\ calls[t] < MaxIterations /\ Again(t)

AfterSynthesis(t) ==
  /\ node[t] = "synthesis" /\ place[t] = "on"
  /\ \/ phase = "answered" /\ Leave(t, "due", "verify")
     \/ phase = "failed" /\ Ends(t)

\* Check, regeneration and second check follow each other with no await.
AfterVerifyCall(t) ==
  /\ node[t] = "verify" /\ place[t] = "on"
  /\ \/ phase = "answered" /\ Leave(t, "wait", "store")
     \/ phase = "answered" /\ calls[t] < VerifyCalls /\ Again(t)
     \/ phase = "failed" /\ Ends(t)

\* /readyz starts a check in a thread or a process and is suspended, or responds.
ProbeRuns(p) ==
  /\ Free /\ place[p] = "batch"
  /\ lag' = [lag EXCEPT ![p] = 0]
  /\ IF hops[p] = 0
     THEN place' = [place EXCEPT ![p] = "done"] /\ UNCHANGED <<rest, hops>>
     ELSE /\ place' = [place EXCEPT ![p] = "wait"]
          /\ hops' = [hops EXCEPT ![p] = @ - 1]
          /\ \E d \in 1 .. MaxWait : rest' = [rest EXCEPT ![p] = d]
  /\ UNCHANGED <<node, calls, phase, attempt, held>>

TurnStep(t) ==
  \/ Resume(t) \/ SessionFails(t) \/ LoopCapped(t) \/ NoActionNamed(t) \/ Aborts(t) \/ DbDone(t)
  \/ Call(t) \/ Succeeds(t) \/ FailsOnce(t) \/ FailsForGood(t) \/ WakeUp(t)
  \/ AfterRouter(t) \/ AfterLoopCall(t) \/ AfterSynthesis(t) \/ AfterVerifyCall(t)
LoopStep == Poll \/ Tick \/ (\E t \in Strands : TurnStep(t)) \/ (\E p \in Probes : ProbeRuns(p))
AllDone == At("done") \cup At("idle") = Tasks /\ UNCHANGED vars

Next == (\E t \in Tasks : Arrive(t)) \/ LoopStep \/ AllDone

Spec == Init /\ [][Next]_vars
\* The process goes on running its loop, and time goes on.
FairSpec == Spec /\ WF_vars(LoopStep)

-----------------------------------------------------------------------------
\* A strand holds the loop between two awaits no longer than the retries of one
\* node's calls allow: a loop whose calls are all cached or refused and a
\* verification with regeneration never await, however the provider fails.
HoldBounded == held <= HoldBound

\* A ready probe is run after at most two stretches of each turn and, where both
\* its agents run at once, the second agent's loop: what is left of the batch the
\* probe missed, and the batch it is in.
LagBounded == \A p \in Probes : lag[p] <= LagBound

\* Whatever the provider does, every turn ends and every probe is answered.
EveryoneServed == \A t \in Tasks : place[t] = "due" ~> place[t] = "done"
=============================================================================
