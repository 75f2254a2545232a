--------------------------- MODULE EventLoopProofs ---------------------------
(***************************************************************************)
(* HoldBounded and LagBounded of EventLoop, for any turns, probes, settings *)
(* and durations.                                                          *)
(*                                                                         *)
(* While a strand is on the loop, what it has held it for and what is left  *)
(* of its call fit into the calls it has completed, the attempts the       *)
(* current one has behind it, and the one it is making.  What a ready probe *)
(* has waited, and what both strands of each turn may still hold the loop  *)
(* for before it is run, add up to the bound on its lag.                   *)
(***************************************************************************)
EXTENDS EventLoop, FiniteSetTheorems, TLAPS

\* The model calls a node may make.
NodeCalls(n) ==
  IF n = "loop" THEN MaxIterations
  ELSE IF n = "verify" THEN VerifyCalls
  ELSE IF n \in {"router", "synthesis"} THEN 1 ELSE 0

\* Time for c completed calls and a attempts of the next one, each with its sleep.
Spent(c, a) == c * CompleteBound + a * (MaxCall + MaxDelay)

Places == {"new", "idle", "due", "batch", "on", "wait", "join", "done"}
CallPhases == {"call", "http", "sleep", "answered", "failed"}

Types ==
  /\ place \in [Tasks -> Places]
  /\ rest \in [Tasks -> Int]
  /\ node \in [Strands -> Nodes]
  /\ calls \in [Strands -> Nat]
  /\ phase \in CallPhases \cup {"none", "db"}
  /\ attempt \in Nat /\ held \in Nat

\* One strand at a time is on the loop, and nothing is kept for the next one.
Alone ==
  /\ At("on") \subseteq Strands
  /\ \A t, u \in At("on") : t = u
  /\ Free => phase = "none" /\ attempt = 0 /\ held = 0

\* A node that will run again has no calls behind it, but for the agents'.
CallsCounted ==
  \A t \in Strands :
    /\ calls[t] <= NodeCalls(node[t])
    /\ place[t] \notin {"on", "done"} /\ node[t] # "loop" => calls[t] = 0

\* What is ready to run has nothing left to wait for.
Ready == \A t \in Tasks : place[t] \in {"new", "idle", "due", "batch"} => rest[t] = 0

\* A second strand runs nothing but a loop, and not before the router is over.
Paired ==
  /\ \A s \in Seconds : node[s] \in {"loop", "abort"}
  /\ \A a \in Turns : node[Lead(a)] \in {"load", "router"} => place[Second(a)] = "idle"

\* What the strand on the loop has held it for, in each phase of complete().
Charged(t) ==
  /\ phase # "none"
  /\ phase \in {"db", "answered", "failed"} => attempt = 0
  /\ phase \in CallPhases <=> node[t] \notin {"load", "store"}
  /\ phase \in {"call", "http", "sleep", "failed"} =>
       calls[t] < NodeCalls(node[t]) /\ attempt <= MaxRetries
  /\ phase = "db" => held + rest[t] <= MaxDb
  /\ phase = "call" => held <= Spent(calls[t], attempt)
  /\ phase = "http" => held + rest[t] <= Spent(calls[t], attempt) + MaxCall
  /\ phase = "sleep" => held <= Spent(calls[t], attempt) /\ held + rest[t] <= Spent(calls[t], attempt)
  /\ phase \in {"db", "http"} => 0 <= rest[t]
  /\ phase = "answered" => held <= Spent(calls[t], 0)
  /\ phase = "failed" => held <= Spent(calls[t] + 1, 0)
  /\ phase \in {"call", "answered", "failed"} => rest[t] = 0
HeldCharged == \A t \in At("on") : Charged(t)

IInv == Types /\ Alone /\ CallsCounted /\ Ready /\ Paired /\ HeldCharged

-----------------------------------------------------------------------------
\* The arithmetic of retries.

\* Min and Max of two integers.
LEMMA MinMax ==
  ASSUME NEW a \in Int, NEW b \in Int
  PROVE  /\ Min({a, b}) \in {a, b} /\ Min({a, b}) <= a /\ Min({a, b}) <= b
         /\ Max({a, b}) \in {a, b} /\ Max({a, b}) >= a /\ Max({a, b}) >= b
BY DEF Min, Max

\* The sleep between two attempts is within its cap.
LEMMA DelayCapped ==
  ASSUME NEW n \in Nat, n > 0
  PROVE  Delay(n) \in Int /\ Delay(n) <= MaxDelay
<1>1. BaseDelay * 2 ^ (n - 1) \in Int BY Sizes
<1>2. MaxDelay \in Int BY Sizes
<1> QED BY <1>1, <1>2, MinMax DEF Delay

\* The bounds are numbers, and no node makes more calls than InARow.
LEMMA Bounds ==
  /\ CompleteBound \in Nat /\ InARow \in Nat /\ HoldBound \in Nat
  /\ MaxDb <= HoldBound /\ InARow * CompleteBound <= HoldBound
  /\ \A n \in Nodes : NodeCalls(n) \in Nat /\ NodeCalls(n) <= InARow
<1>1. /\ CompleteBound \in Nat
  BY Sizes DEF CompleteBound
<1>2. InARow \in Nat /\ MaxIterations <= InARow /\ VerifyCalls <= InARow /\ 1 <= InARow
  BY Sizes, MinMax DEF InARow
<1>3. InARow * CompleteBound \in Nat BY <1>1, <1>2
<1>4. HoldBound \in Nat /\ MaxDb <= HoldBound /\ InARow * CompleteBound <= HoldBound
  <2>1. PICK x \in Nat : x = InARow * CompleteBound BY <1>3
  <2>2. HoldBound = Max({MaxDb, x}) BY <2>1 DEF HoldBound
  <2>3. MaxDb \in Nat BY Sizes
  <2>4. HoldBound \in {MaxDb, x} /\ HoldBound >= MaxDb /\ HoldBound >= x
    BY <2>2, <2>3, MinMax
  <2> QED BY <2>1, <2>3, <2>4
<1>5. \A n \in Nodes : NodeCalls(n) \in Nat /\ NodeCalls(n) <= InARow
  BY <1>2, Sizes DEF Nodes, NodeCalls
<1> QED BY <1>1, <1>2, <1>4, <1>5

\* Attempts add up to calls: a further attempt and its sleep, and the last one.
LEMMA Adding ==
  ASSUME NEW c \in Nat, NEW a \in Nat, a <= MaxRetries
  PROVE  /\ Spent(c, a) \in Nat
         /\ Spent(c, a) + MaxCall + MaxDelay = Spent(c, a + 1)
         /\ Spent(c, a) + MaxCall <= Spent(c + 1, 0)
BY Sizes DEF Spent, CompleteBound

\* A node's calls fit into the bound.
LEMMA Fitting ==
  ASSUME NEW c \in Nat, c <= InARow
  PROVE  Spent(c, 0) \in Nat /\ Spent(c, 0) <= HoldBound
<1>1. c * CompleteBound <= InARow * CompleteBound BY Bounds
<1>2. Spent(c, 0) = c * CompleteBound BY Bounds, Sizes DEF Spent
<1> QED BY <1>1, <1>2, Bounds

-----------------------------------------------------------------------------
\* What the steps have in common.

\* The two strands of a turn.
LEMMA StrandKinds ==
  /\ \A t \in Strands : /\ t[1] \in Turns /\ t \in Tasks
                        /\ t = Lead(t[1]) \/ t = Second(t[1])
                        /\ t \in Seconds <=> t = Second(t[1])
  /\ \A a \in Turns : /\ Lead(a) \in Strands /\ Second(a) \in Strands
                      /\ Lead(a) \notin Seconds /\ Second(a) \in Seconds
                      /\ Lead(a)[1] = a /\ Second(a)[1] = a
  /\ Seconds \subseteq Strands /\ Strands \subseteq Tasks
BY DEF Strands, Seconds, Lead, Second, Tasks

\* The strand on the loop is the only task there.
LEMMA OnLoop ==
  ASSUME IInv, NEW t \in Tasks, place[t] = "on"
  PROVE  t \in Strands /\ At("on") = {t} /\ ~Free /\ Charged(t)
<1>1. t \in At("on") BY DEF At
<1> QED BY <1>1 DEF IInv, Alone, HeldCharged, Free

\* A step inside the stay of a turn has only that turn's account to keep.
LEMMA StaysOn ==
  ASSUME IInv, NEW t \in Strands, place[t] = "on", Types', UNCHANGED <<place, node>>,
         \A u \in Strands : u # t => calls'[u] = calls[u],
         \A u \in Tasks : u # t => rest'[u] = rest[u],
         calls'[t] <= NodeCalls(node[t]), Charged(t)'
  PROVE  IInv'
<1>0. t \in Tasks BY DEF Tasks
<1>1. At("on") = {t} /\ ~Free BY <1>0, OnLoop
<1>2. At("on")' = {t} BY <1>1 DEF At
<1>3. Alone' BY <1>2 DEF Alone, Free
<1>4. CallsCounted' BY <1>1 DEF IInv, CallsCounted
<1>5. Ready' BY DEF IInv, Ready
<1>p. Paired' BY DEF IInv, Paired
<1>6. HeldCharged' BY <1>2 DEF HeldCharged
<1> QED BY <1>3, <1>4, <1>5, <1>p, <1>6 DEF IInv

\* A strand that gives the loop back leaves it clean.
LEMMA GivesBack ==
  ASSUME IInv, NEW t \in Strands, NEW n \in Nodes, NEW moved \in SUBSET {Lead(t[1]), Second(t[1])},
         NEW p \in {"due", "wait", "join", "done"}, NEW w \in moved,
         Free \/ place[t] = "on", attempt = 0, GiveBack(t, n, moved, p, w),
         n = node[t] => n = "loop" \/ p # "wait" \/ w # t,
         p # "done" => \A x \in moved : x = t \/ place[x] \in {"idle", "join"},
         p = "due" => \A x \in moved : x = w \/ place[x] = "idle",
         IF t \in Seconds THEN n \in {"loop", "abort"} /\ place[t] # "idle"
         ELSE n \in {"load", "router"} => moved = {t} /\ node[t] \in {"load", "router"}
  PROVE  IInv'
<1>0. t \in Tasks /\ Strands \subseteq Tasks /\ w \in Strands BY StrandKinds
<1>1. At("on") \subseteq {t} BY <1>0, OnLoop DEF Free
<1>2. /\ place' = [x \in Tasks |-> IF x \in moved THEN p ELSE IF x = t THEN "done" ELSE place[x]]
      /\ Types
  BY DEF GiveBack, IInv
<1>3. At("on")' = {}
  BY <1>0, <1>1, <1>2 DEF At, Types
<1>4. Types'
  <2>1. place' \in [Tasks -> Places] BY <1>2 DEF Types, Places
  <2>2. rest' \in [Tasks -> Int]
    <3>1. 1 .. MaxWait \subseteq Int /\ {0} \subseteq Int BY Sizes
    <3>2. (IF p = "wait" THEN 1 .. MaxWait ELSE {0}) \subseteq Int BY <3>1
    <3>3. PICK d \in Int : rest' = [rest EXCEPT ![w] = d] BY <3>2 DEF GiveBack
    <3> QED BY <3>3 DEF IInv, Types
  <2>3. node' \in [Strands -> Nodes] BY DEF GiveBack, IInv, Types
  <2>4. calls' \in [Strands -> Nat] BY DEF GiveBack, IInv, Types
  <2>5. phase' = "none" /\ held' = 0 /\ attempt' = 0 BY DEF GiveBack
  <2> QED BY <2>1, <2>2, <2>3, <2>4, <2>5 DEF Types
<1>5. Alone' BY <1>3 DEF Alone, Free, GiveBack
<1>6. CallsCounted'
  <2> SUFFICES ASSUME NEW u \in Strands
               PROVE  /\ calls'[u] <= NodeCalls(node'[u])
                      /\ place'[u] \notin {"on", "done"} /\ node'[u] # "loop" => calls'[u] = 0
    BY DEF CallsCounted
  <2>1. CASE u # t
    <3>1. calls'[u] = calls[u] /\ node'[u] = node[u] BY <2>1, <1>0, <1>2 DEF GiveBack, Types
    <3>2. place'[u] \notin {"on", "done"} => place[u] \notin {"on", "done"}
      BY <2>1, <1>0, <1>1, <1>2 DEF At
    <3> QED BY <3>1, <3>2 DEF IInv, CallsCounted
  <2>2. CASE u = t
    <3>1. /\ node'[t] = n
          /\ calls'[t] = IF w = t /\ p = "wait" /\ n = node[t] THEN calls[t] ELSE 0
      BY <1>0, <1>2 DEF GiveBack, Types
    <3>2. calls[t] <= NodeCalls(node[t]) /\ NodeCalls(n) \in Nat BY Bounds DEF IInv, CallsCounted
    <3> QED BY <2>2, <3>1, <3>2
  <2> QED BY <2>1, <2>2
<1>7. Ready'
  <2>1. PICK d \in (IF p = "wait" THEN 1 .. MaxWait ELSE {0}) : rest' = [rest EXCEPT ![w] = d]
    BY DEF GiveBack
  <2> SUFFICES ASSUME NEW x \in Tasks, place'[x] \in {"new", "idle", "due", "batch"}
               PROVE  rest'[x] = 0
    BY DEF Ready
  <2>2. CASE x \in moved
    <3>1. p = "due" BY <1>2, <2>2
    <3>2. CASE x = w BY <1>2, <2>1, <3>1, <3>2 DEF Types
    <3>3. CASE x # w BY <1>2, <2>1, <2>2, <3>1, <3>3 DEF Types, IInv, Ready
    <3> QED BY <3>2, <3>3
  <2>3. CASE x \notin moved BY <1>2, <2>1, <2>3 DEF Types, IInv, Ready
  <2> QED BY <2>2, <2>3
<1>8. Paired'
  <2>1. \A u \in Strands : node'[u] = IF u = t THEN n ELSE node[u] BY DEF GiveBack, IInv, Types
  <2>2. ASSUME NEW s \in Seconds PROVE node'[s] \in {"loop", "abort"}
    BY <2>1, StrandKinds DEF IInv, Paired
  <2>3. ASSUME NEW a \in Turns, node'[Lead(a)] \in {"load", "router"}
        PROVE  place'[Second(a)] = "idle"
    <3>1. node[Lead(a)] \in {"load", "router"} /\ (t = Lead(a) => moved = {t})
      BY <2>1, <2>3, StrandKinds
    <3>2. place[Second(a)] = "idle" BY <3>1 DEF IInv, Paired
    <3>3. t # Second(a) BY <3>2, StrandKinds
    <3>4. Second(a) \notin moved
      <4>1. CASE t[1] = a
        <5>1. t = Lead(a) BY <3>3, <4>1, StrandKinds
        <5> QED BY <3>1, <3>3, <5>1
      <4>2. CASE t[1] # a BY <4>2, StrandKinds
      <4> QED BY <4>1, <4>2
    <3> QED BY <1>2, <3>2, <3>3, <3>4, StrandKinds
  <2> QED BY <2>2, <2>3 DEF Paired
<1>9. HeldCharged' BY <1>3 DEF HeldCharged
<1> QED BY <1>4, <1>5, <1>6, <1>7, <1>8, <1>9 DEF IInv

\* A strand goes on by itself.
LEMMA LeavesLoop ==
  ASSUME IInv, NEW t \in Strands, NEW p \in {"due", "wait", "join", "done"}, NEW n \in Nodes,
         Free \/ place[t] = "on", attempt = 0, Leave(t, p, n),
         n = node[t] => n = "loop" \/ p # "wait",
         IF t \in Seconds THEN n \in {"loop", "abort"} /\ place[t] # "idle"
         ELSE n \in {"load", "router"} => node[t] \in {"load", "router"}
  PROVE  IInv'
<1>1. PICK m : m = {t} OBVIOUS
<1>2. m \in SUBSET {Lead(t[1]), Second(t[1])} /\ t \in m BY <1>1, StrandKinds
<1>3. GiveBack(t, n, m, p, t) BY <1>1 DEF Leave
<1>4. /\ p # "done" => \A x \in m : x = t \/ place[x] \in {"idle", "join"}
      /\ p = "due" => \A x \in m : x = t \/ place[x] = "idle"
  BY <1>1
<1>5. IF t \in Seconds THEN n \in {"loop", "abort"} /\ place[t] # "idle"
      ELSE n \in {"load", "router"} => m = {t} /\ node[t] \in {"load", "router"}
  BY <1>1
<1> QED BY <1>2, <1>3, <1>4, <1>5, GivesBack

\* A step that touches only tasks off the loop.
LEMMA ElsewhereOnly ==
  ASSUME IInv, At("on")' = At("on"), place' \in [Tasks -> Places], rest' \in [Tasks -> Int],
         \A t \in At("on") : rest'[t] = rest[t],
         \A t \in Strands : /\ place'[t] \in {"on", "done"} <=> place[t] \in {"on", "done"}
                            /\ place[t] = "idle" => place'[t] = "idle",
         Ready', UNCHANGED <<node, calls, phase, attempt, held>>
  PROVE  IInv'
<1>1. Types' BY DEF IInv, Types
<1>2. Alone' BY DEF IInv, Alone, Free
<1>3. CallsCounted' BY DEF IInv, CallsCounted
<1>4. HeldCharged' BY DEF IInv, HeldCharged, Charged
<1>5. Paired' BY StrandKinds DEF IInv, Paired
<1> QED BY <1>1, <1>2, <1>3, <1>4, <1>5 DEF IInv

-----------------------------------------------------------------------------
\* The steps outside a call.

\* A request or a probe arrives: it is ready to run.
LEMMA ArriveStep ==
  ASSUME IInv, NEW t \in Tasks, Arrive(t)
  PROVE  IInv'
<1>1. place' = [place EXCEPT ![t] = "due"] /\ Types BY DEF Arrive, IInv
<1>2. At("on")' = At("on") BY <1>1 DEF At, Types, Arrive
<1>3. Ready' BY <1>1 DEF IInv, Ready, Arrive, Types
<1>4. place[t] = "new" BY DEF Arrive
<1> QED BY <1>1, <1>2, <1>3, <1>4, ElsewhereOnly DEF Arrive, Types, Places, Tasks

\* An iteration of the event loop begins.
LEMMA PollStep ==
  ASSUME IInv, Poll
  PROVE  IInv'
<1>1. Types BY DEF IInv
<1>2. At("on")' = At("on") BY <1>1 DEF At, Types, Poll
<1>3. place' \in [Tasks -> Places] BY <1>1 DEF Poll, Types, Places
<1>4. Ready' BY <1>1 DEF IInv, Ready, Poll, Types
<1> QED BY <1>1, <1>2, <1>3, <1>4, ElsewhereOnly DEF Poll, Types, Tasks

\* Time either runs on the account of the turn on the loop, or on nobody's.
LEMMA TickStep ==
  ASSUME IInv, Tick
  PROVE  IInv'
<1>0. Types /\ Strands \subseteq Tasks BY DEF IInv, Tasks
<1>1. /\ place' = [t \in Tasks |-> IF place[t] = "wait" /\ rest[t] = 1 THEN "due" ELSE place[t]]
      /\ rest' = [t \in Tasks |-> IF rest[t] > 0 THEN rest[t] - 1 ELSE 0]
  BY DEF Tick
<1>2. place' \in [Tasks -> Places] /\ rest' \in [Tasks -> Int] BY <1>0, <1>1 DEF Types, Places
<1>3. At("on")' = At("on") BY <1>0, <1>1 DEF At, Types
<1>r. Ready' BY <1>0, <1>1 DEF IInv, Ready, Types
<1>4. CASE Free
  <2>1. held' = held /\ At("on") = {} BY <1>4 DEF Tick, Free
  <2> QED BY <1>0, <1>1, <1>2, <1>3, <1>r, <2>1, ElsewhereOnly DEF Tick
<1>5. CASE ~Free
  <2>1. PICK t \in At("on") : rest[t] > 0 BY <1>5 DEF Tick
  <2>2. t \in Strands /\ place[t] = "on" /\ At("on") = {t} /\ Charged(t) BY <2>1, OnLoop DEF At
  <2>3. held' \in Nat /\ held' <= held + 1
    <3>1. held \in Nat /\ HoldBound \in Nat BY <1>0, Bounds DEF Types
    <3>2. Min({held, HoldBound}) \in {held, HoldBound} /\ Min({held, HoldBound}) <= held BY <3>1, MinMax
    <3>3. held' = Min({held, HoldBound}) + 1 BY <1>5 DEF Tick
    <3> QED BY <3>1, <3>2, <3>3
  <2>4. rest'[t] = rest[t] - 1 BY <1>0, <1>1, <2>1, <2>2
  <2>5. Types' BY <1>0, <1>2, <2>3 DEF Types, Tick
  <2>6. Alone' BY <1>3, <2>2 DEF Alone, Free
  <2>7. CallsCounted' BY <1>0, <1>1 DEF IInv, CallsCounted, Tick
  <2>8. Charged(t)'
    <3>1. rest[t] \in Int /\ held \in Nat /\ MaxDb \in Nat /\ MaxCall \in Nat BY <1>0, <2>2, Sizes DEF Types
    <3>2. phase' = phase /\ attempt' = attempt /\ node' = node /\ calls' = calls BY DEF Tick
    <3>3. phase \in {"db", "http", "sleep"}
      BY <1>0, <2>1, <2>2 DEF Charged, Types, CallPhases
    <3>4. phase \in {"http", "sleep"} => Spent(calls[t], attempt) \in Nat
      BY <1>0, <2>2, Adding DEF Charged, Types
    <3>5. held' + rest'[t] <= held + rest[t] /\ 0 <= rest'[t]
      BY <2>1, <2>3, <2>4, <3>1
    <3>6. rest'[t] \in Int BY <2>4, <3>1
    <3>7. Spent(calls[t], attempt)' = Spent(calls[t], attempt) BY <3>2 DEF Spent
    <3>8. CASE phase = "db" BY <2>2, <2>3, <3>1, <3>2, <3>5, <3>6, <3>8 DEF Charged, CallPhases
    <3>9. CASE phase = "http"
      BY <2>2, <2>3, <3>1, <3>2, <3>4, <3>5, <3>6, <3>7, <3>9 DEF Charged, CallPhases
    <3>10. CASE phase = "sleep"
      BY <2>2, <2>3, <3>1, <3>2, <3>4, <3>5, <3>6, <3>7, <3>10 DEF Charged, CallPhases
    <3> QED BY <3>3, <3>8, <3>9, <3>10
  <2>9. HeldCharged' BY <1>3, <2>2, <2>8 DEF HeldCharged
  <2>10. Paired' BY <1>1, StrandKinds DEF IInv, Paired, Tick
  <2> QED BY <1>r, <2>5, <2>6, <2>7, <2>9, <2>10 DEF IInv
<1> QED BY <1>4, <1>5

\* /readyz runs between the turns, on a free loop.
LEMMA ProbeStep ==
  ASSUME IInv, NEW p \in Probes, ProbeRuns(p)
  PROVE  IInv'
<1>0. Types /\ p \in Tasks /\ Free BY DEF IInv, Tasks, ProbeRuns
<1>1. At("on")' = {} BY <1>0 DEF At, Free, Types, ProbeRuns
<1>2. place' \in [Tasks -> Places] BY <1>0 DEF ProbeRuns, Types, Places
<1>3. rest' \in [Tasks -> Int]
  <2>1. CASE hops[p] = 0 BY <2>1, <1>0 DEF ProbeRuns, Types
  <2>2. CASE hops[p] # 0
    <3>1. PICK d \in 1 .. MaxWait : rest' = [rest EXCEPT ![p] = d] BY <2>2 DEF ProbeRuns
    <3>2. d \in Int BY Sizes
    <3> QED BY <1>0, <3>1, <3>2 DEF Types
  <2> QED BY <2>1, <2>2
<1>4. Types' BY <1>0, <1>2, <1>3 DEF Types, ProbeRuns
<1>5. Alone' BY <1>0, <1>1 DEF IInv, Alone, Free, ProbeRuns
<1>6. \A t \in Strands : place'[t] = place[t]
  BY <1>0, Kinds DEF ProbeRuns, Types, Tasks
<1>7. CallsCounted' BY <1>6 DEF IInv, CallsCounted, ProbeRuns
<1>8. Ready' BY <1>0, <1>6 DEF IInv, Ready, ProbeRuns, Types
<1>9. HeldCharged' BY <1>1 DEF HeldCharged
<1>10. Paired' BY <1>6, StrandKinds DEF IInv, Paired, ProbeRuns
<1> QED BY <1>4, <1>5, <1>7, <1>8, <1>9, <1>10 DEF IInv

-----------------------------------------------------------------------------
\* The steps of a call, attempt by attempt.

\* An attempt of complete() sends its request.
LEMMA CallStep ==
  ASSUME IInv, NEW t \in Strands, Call(t)
  PROVE  IInv'
<1>0. /\ t \in Tasks /\ place[t] = "on" /\ phase = "call" /\ Types
      /\ Charged(t)
  BY OnLoop DEF Call, IInv, Tasks
<1>1. PICK d \in 0 .. MaxCall : rest' = [rest EXCEPT ![t] = d] BY DEF Call
<1>2. d \in Nat /\ d <= MaxCall /\ rest'[t] = d /\ MaxCall \in Nat BY <1>0, <1>1, Sizes DEF Types
<1>3. Types' BY <1>0, <1>1, <1>2 DEF Types, Call, CallPhases
<1>4. Spent(calls[t], attempt) \in Nat /\ held \in Nat BY <1>0, Adding DEF Charged, Types
<1>5. Charged(t)' BY <1>0, <1>2, <1>4 DEF Charged, Call, Spent, CallPhases
<1>6. calls[t] <= NodeCalls(node[t]) BY DEF IInv, CallsCounted
<1> QED BY <1>0, <1>3, <1>5, <1>6, StaysOn DEF Call

\* The turn whose request ends: its attempt and its call fit what it may spend.
LEMMA RequestOver ==
  ASSUME IInv, NEW t \in Strands, Over(t, "http")
  PROVE  /\ place[t] = "on" /\ phase = "http" /\ rest[t] = 0 /\ t \in Tasks
         /\ Types /\ node[t] \notin {"load", "store"}
         /\ calls[t] < NodeCalls(node[t]) /\ NodeCalls(node[t]) \in Nat /\ attempt <= MaxRetries
         /\ held \in Nat /\ calls[t] \in Nat /\ attempt \in Nat /\ MaxRetries \in Nat
         /\ Spent(calls[t], attempt) \in Nat
         /\ held <= Spent(calls[t], attempt) + MaxCall
         /\ held + MaxDelay <= Spent(calls[t], attempt + 1)
         /\ held <= Spent(calls[t] + 1, 0)
<1>1. /\ t \in Tasks /\ place[t] = "on" /\ phase = "http" /\ rest[t] = 0
      /\ Types /\ Charged(t)
  BY OnLoop DEF Over, IInv, Tasks
<1>2. held \in Nat /\ calls[t] \in Nat /\ attempt \in Nat /\ MaxRetries \in Nat
      /\ MaxCall \in Nat /\ MaxDelay \in Nat
  BY <1>1, Sizes DEF Types
<1>3. /\ node[t] \notin {"load", "store"} /\ node[t] \in Nodes
      /\ calls[t] < NodeCalls(node[t]) /\ attempt <= MaxRetries
      /\ held <= Spent(calls[t], attempt) + MaxCall
  BY <1>1, <1>2 DEF Charged, CallPhases, Types
<1>4. /\ Spent(calls[t], attempt) \in Nat
      /\ Spent(calls[t], attempt) + MaxCall + MaxDelay = Spent(calls[t], attempt + 1)
      /\ Spent(calls[t], attempt) + MaxCall <= Spent(calls[t] + 1, 0)
  BY <1>2, <1>3, Adding
<1>5. Spent(calls[t] + 1, 0) \in Nat BY <1>2, Adding
<1>6. held <= Spent(calls[t] + 1, 0) BY <1>2, <1>3, <1>4, <1>5
<1>7. held + MaxDelay <= Spent(calls[t], attempt + 1) BY <1>2, <1>3, <1>4
<1> QED BY <1>1, <1>2, <1>3, <1>4, <1>6, <1>7, Bounds

\* The request is answered: one call more, no attempt pending.
LEMMA SucceedsStep ==
  ASSUME IInv, NEW t \in Strands, Succeeds(t)
  PROVE  IInv'
<1>1. Over(t, "http") BY DEF Succeeds
<1>2. calls'[t] = calls[t] + 1 /\ \A u \in Strands : u # t => calls'[u] = calls[u]
  BY <1>1, RequestOver DEF Succeeds, Types
<1>3. Types' BY <1>1, RequestOver DEF Types, Succeeds, CallPhases
<1>4. Charged(t)' BY <1>1, <1>2, RequestOver DEF Charged, Succeeds, Spent, CallPhases
<1>5. calls'[t] <= NodeCalls(node[t]) BY <1>1, <1>2, RequestOver
<1> QED BY <1>1, <1>2, <1>3, <1>4, <1>5, RequestOver, StaysOn DEF Succeeds

\* An error that is not retried.
LEMMA FailsForGoodStep ==
  ASSUME IInv, NEW t \in Strands, FailsForGood(t)
  PROVE  IInv'
<1>1. Over(t, "http") BY DEF FailsForGood
<1>2. Types' BY <1>1, RequestOver DEF Types, FailsForGood, CallPhases
<1>3. Charged(t)' BY <1>1, RequestOver, Sizes DEF Charged, FailsForGood, Spent, CallPhases
<1> QED BY <1>1, <1>2, <1>3, RequestOver, StaysOn DEF FailsForGood

\* An error that is retried after a sleep, or was the last one allowed.
LEMMA FailsOnceStep ==
  ASSUME IInv, NEW t \in Strands, FailsOnce(t)
  PROVE  IInv'
<1>1. Over(t, "http") BY DEF FailsOnce
<1>2. CASE Exhausted(attempt + 1)
  <2>1. phase' = "failed" /\ attempt' = 0 /\ rest' = rest BY <1>2 DEF FailsOnce
  <2>2. Types' BY <1>1, <2>1, RequestOver DEF Types, FailsOnce, CallPhases
  <2>3. Charged(t)' BY <1>1, <2>1, RequestOver, Sizes DEF Charged, FailsOnce, Spent, CallPhases
  <2>4. UNCHANGED <<place, node, calls>> /\ calls[t] <= NodeCalls(node[t])
    BY DEF FailsOnce, IInv, CallsCounted
  <2> QED BY <1>1, <2>1, <2>2, <2>3, <2>4, RequestOver, StaysOn DEF FailsOnce
<1>3. CASE ~Exhausted(attempt + 1)
  <2>1. /\ phase' = "sleep" /\ attempt' = attempt + 1
        /\ rest' = [rest EXCEPT ![t] = Delay(attempt + 1)]
    BY <1>3 DEF FailsOnce
  <2>2. Delay(attempt + 1) \in Int /\ Delay(attempt + 1) <= MaxDelay
    BY <1>1, RequestOver, DelayCapped
  <2>3. Types' BY <1>1, <2>1, <2>2, RequestOver DEF Types, FailsOnce, CallPhases
  <2>4. attempt + 1 <= MaxRetries BY <1>1, <1>3, RequestOver DEF Exhausted
  <2>5. rest'[t] = Delay(attempt + 1) BY <1>1, <2>1, RequestOver DEF Types
  <2>6. Spent(calls[t], attempt + 1) \in Nat /\ MaxDelay \in Nat
    <3>1. calls[t] \in Nat /\ attempt + 1 \in Nat BY <1>1, RequestOver
    <3> QED BY <3>1, <2>4, Adding, Sizes
  <2>7. held + rest'[t] <= Spent(calls[t], attempt + 1)
    BY <1>1, <2>2, <2>5, <2>6, RequestOver
  <2>8. Charged(t)'
    <3>1. held <= Spent(calls[t], attempt + 1)
      <4>1. held \in Nat /\ MaxDelay \in Nat BY <1>1, <2>6, RequestOver
      <4> QED BY <1>1, <4>1, <2>6, RequestOver
    <3>2. node' = node /\ calls' = calls /\ held' = held BY DEF FailsOnce
    <3>3. node[t] \notin {"load", "store"} /\ calls[t] < NodeCalls(node[t]) BY <1>1, RequestOver
    <3> QED BY <2>1, <2>4, <2>7, <3>1, <3>2, <3>3 DEF Charged, Spent, CallPhases
  <2>9. UNCHANGED <<place, node, calls>> /\ calls[t] <= NodeCalls(node[t])
    BY DEF FailsOnce, IInv, CallsCounted
  <2>10. \A u \in Tasks : u # t => rest'[u] = rest[u] BY <1>1, <2>1, RequestOver DEF Types
  <2> QED BY <1>1, <2>3, <2>8, <2>9, <2>10, RequestOver, StaysOn
<1> QED BY <1>2, <1>3

\* The sleep is over: the next attempt.
LEMMA WakeUpStep ==
  ASSUME IInv, NEW t \in Strands, WakeUp(t)
  PROVE  IInv'
<1>0. /\ t \in Tasks /\ place[t] = "on" /\ phase = "sleep" /\ rest[t] = 0 /\ Types
      /\ Charged(t)
  BY OnLoop DEF WakeUp, Over, IInv, Tasks
<1>1. Types' BY <1>0 DEF Types, WakeUp, CallPhases
<1>2. held + 0 = held BY <1>0 DEF Types
<1>3. Charged(t)' BY <1>0, <1>2 DEF Charged, WakeUp, Spent, CallPhases
<1>4. calls[t] <= NodeCalls(node[t]) BY DEF IInv, CallsCounted
<1> QED BY <1>0, <1>1, <1>3, <1>4, StaysOn DEF WakeUp

-----------------------------------------------------------------------------
\* The steps that take the loop and give it back.

\* A turn takes the free loop.
LEMMA ResumeStep ==
  ASSUME IInv, NEW t \in Strands, Resume(t)
  PROVE  IInv'
<1>0. /\ t \in Tasks /\ place[t] = "batch" /\ Types /\ At("on") = {}
      /\ phase = "none" /\ attempt = 0 /\ held = 0 /\ node[t] \in Nodes /\ calls[t] \in Nat
  BY DEF Resume, IInv, Alone, Free, Tasks, Types
<1>1. place' = [place EXCEPT ![t] = "on"] BY DEF Resume
<1>2. At("on")' = {t} BY <1>0, <1>1 DEF At, Types
<1>3. place' \in [Tasks -> Places] /\ place'[t] = "on" BY <1>0, <1>1 DEF Types, Places
<1>p. Paired' BY <1>0, <1>1, StrandKinds DEF IInv, Paired, Types, Resume
<1>4. CASE node[t] \in {"load", "store"}
  <2>1. PICK d \in 0 .. MaxDb : phase' = "db" /\ rest' = [rest EXCEPT ![t] = d]
    BY <1>4 DEF Resume
  <2>2. d \in Nat /\ d <= MaxDb /\ MaxDb \in Nat /\ rest'[t] = d BY <1>0, <2>1, Sizes DEF Types
  <2>3. Types' BY <1>0, <1>3, <2>1, <2>2 DEF Types, Resume
  <2>4. Charged(t)' BY <1>0, <1>4, <2>1, <2>2 DEF Charged, Resume, CallPhases
  <2> QED BY <1>0, <1>1, <1>2, <1>p, <2>3, <2>4
    DEF IInv, Alone, Free, CallsCounted, Ready, HeldCharged, Resume, Types
<1>5. CASE node[t] \notin {"load", "store"}
  <2>1. phase' = "call" /\ rest' = rest BY <1>5 DEF Resume
  <2>2. Types' BY <1>0, <1>3, <2>1 DEF Types, Resume, CallPhases
  <2>3. calls[t] < NodeCalls(node[t])
    BY <1>0, <1>5, Sizes DEF IInv, CallsCounted, NodeCalls, Resume, Nodes
  <2>4. 0 <= Spent(calls[t], 0) /\ 0 <= MaxRetries
    <3>1. 0 \in Nat /\ 0 <= MaxRetries BY Sizes
    <3> QED BY <1>0, <3>1, Adding
  <2>5. rest[t] = 0 BY <1>0 DEF IInv, Ready
  <2>6. Charged(t)' BY <1>0, <1>5, <2>1, <2>3, <2>4, <2>5 DEF Charged, Resume, CallPhases, Spent
  <2> QED BY <1>0, <1>1, <1>2, <1>p, <2>2, <2>6
    DEF IInv, Alone, Free, CallsCounted, Ready, HeldCharged, Resume, Types
<1> QED BY <1>4, <1>5

\* The turn goes on to the next call of the same node, with no await between.
LEMMA AgainStep ==
  ASSUME IInv, NEW t \in Strands, place[t] = "on", phase = "answered",
         calls[t] < NodeCalls(node[t]), Again(t)
  PROVE  IInv'
<1>0. t \in Tasks /\ Types /\ Charged(t) BY OnLoop DEF IInv, Tasks
<1>1. Types' BY <1>0 DEF Types, Again, CallPhases
<1>2. 0 <= MaxRetries BY Sizes
<1>3. Charged(t)' BY <1>0, <1>2 DEF Charged, Again, Spent, CallPhases
<1>4. calls[t] <= NodeCalls(node[t]) BY DEF IInv, CallsCounted
<1> QED BY <1>1, <1>3, <1>4, StaysOn DEF Again

\* With nobody on the loop, or its call over, no attempt is pending.
LEMMA NothingPending ==
  ASSUME IInv, NEW t \in Strands,
         Free \/ (place[t] = "on" /\ phase \in {"db", "answered", "failed"})
  PROVE  attempt = 0 /\ node[t] \in Nodes
<1>1. t \in Tasks BY DEF Tasks
<1>2. CASE Free BY <1>2 DEF IInv, Alone, Types
<1>3. CASE place[t] = "on" /\ phase \in {"db", "answered", "failed"}
  BY <1>1, <1>3, OnLoop DEF Charged, IInv, Types
<1> QED BY <1>2, <1>3

\* An agent is through: its strand goes on, waits for the other one, or ends.
LEMMA LoopEndsStep ==
  ASSUME IInv, NEW t \in Strands, Free \/ place[t] = "on", attempt = 0,
         place[t] # "idle", node[t] = "loop", LoopEnds(t)
  PROVE  IInv'
<1>1. {"loop", "synthesis"} \subseteq Nodes BY DEF Nodes
<1>2. PICK a \in Turns : a = t[1] BY StrandKinds
<1>3. CASE t = Lead(a)
  <2>1. t \notin Seconds /\ t # Second(a) BY <1>3, StrandKinds
  <2>2. \E p \in {"due", "wait", "join"} : Leave(t, p, "synthesis")
    BY <1>2, <1>3, <2>1 DEF LoopEnds
  <2> QED BY <1>1, <2>1, <2>2, LeavesLoop
<1>4. CASE t = Second(a)
  <2>1. t \in Seconds /\ t # Lead(a) BY <1>4, StrandKinds
  <2>2. CASE Ends(t) BY <1>1, <2>1, <2>2, LeavesLoop DEF Ends
  <2>3. CASE place[Lead(a)] = "join" /\ \E p \in {"due", "wait"} : GiveBack(t, "loop", {Lead(a)}, p, Lead(a))
    <3>1. PICK p \in {"due", "wait"} : GiveBack(t, "loop", {Lead(a)}, p, Lead(a)) BY <2>3
    <3>2. PICK m, l : m = {Lead(a)} /\ l = Lead(a) OBVIOUS
    <3>3. m \in SUBSET {Lead(t[1]), Second(t[1])} /\ l \in m /\ \A x \in m : x = l BY <1>2, <3>2
    <3>4. GiveBack(t, "loop", m, p, l) /\ l # t /\ place[l] = "join" BY <2>1, <2>3, <3>1, <3>2
    <3> QED BY <1>1, <2>1, <3>3, <3>4, GivesBack
  <2> QED BY <1>2, <1>4, <2>1, <2>2, <2>3 DEF LoopEnds
<1> QED BY <1>2, <1>3, <1>4, StrandKinds

\* A strand resumed only to give the loop back.
LEMMA PassOnStep ==
  ASSUME IInv, NEW t \in Strands,
         SessionFails(t) \/ LoopCapped(t) \/ NoActionNamed(t) \/ Aborts(t)
  PROVE  IInv'
<1>1. Free /\ place[t] = "batch" BY DEF SessionFails, LoopCapped, NoActionNamed, Aborts, PassOn
<1>2. attempt = 0 /\ node[t] \in Nodes BY <1>1 DEF IInv, Alone, Types
<1>3. {"synthesis", "store", "abort"} \subseteq Nodes BY DEF Nodes
<1>s. t \in Seconds => node[t] \in {"loop", "abort"} BY DEF IInv, Paired
<1>4. CASE SessionFails(t) BY <1>1, <1>2, <1>s, <1>4, LeavesLoop DEF SessionFails, Ends
<1>5. CASE LoopCapped(t) BY <1>1, <1>2, <1>5, LoopEndsStep DEF LoopCapped, PassOn
<1>6. CASE NoActionNamed(t) BY <1>1, <1>2, <1>3, <1>s, <1>6, LeavesLoop DEF NoActionNamed, PassOn
<1>7. CASE Aborts(t)
  <2>1. GiveBack(t, "abort", {Lead(t[1]), Second(t[1])}, "done", t) BY <1>7 DEF Aborts
  <2>2. t \in {Lead(t[1]), Second(t[1])} BY StrandKinds
  <2> QED BY <1>1, <1>2, <1>3, <2>1, <2>2, GivesBack
<1> QED BY <1>4, <1>5, <1>6, <1>7

\* The database has answered.
LEMMA DbDoneStep ==
  ASSUME IInv, NEW t \in Strands, DbDone(t)
  PROVE  IInv'
<1>1. place[t] = "on" /\ phase = "db" BY DEF DbDone, Over
<1>2. attempt = 0 /\ node[t] \in Nodes BY <1>1, NothingPending
<1>3. "router" \in Nodes BY DEF Nodes
<1>s. t \in Seconds => node[t] \in {"loop", "abort"} BY DEF IInv, Paired
<1>4. CASE Ends(t) BY <1>1, <1>2, <1>s, <1>4, LeavesLoop DEF Ends
<1>5. CASE node[t] = "load" /\ Leave(t, "wait", "router") BY <1>1, <1>2, <1>3, <1>s, <1>5, LeavesLoop
<1> QED BY <1>4, <1>5 DEF DbDone

\* A node has its answer, or its error.
LEMMA AfterCallStep ==
  ASSUME IInv, NEW t \in Strands,
         AfterRouter(t) \/ AfterLoopCall(t) \/ AfterSynthesis(t) \/ AfterVerifyCall(t)
  PROVE  IInv'
<1>1. place[t] = "on" /\ phase \in {"answered", "failed"}
  BY DEF AfterRouter, AfterLoopCall, AfterSynthesis, AfterVerifyCall
<1>2. attempt = 0 /\ node[t] \in Nodes BY <1>1, NothingPending
<1>3. {"loop", "abort", "synthesis", "verify", "store"} \subseteq Nodes BY DEF Nodes
<1>s. t \in Seconds => node[t] \in {"loop", "abort"} BY DEF IInv, Paired
<1>4. CASE AfterRouter(t)
  <2>1. node[t] = "router" /\ t \notin Seconds BY <1>s, <1>4 DEF AfterRouter
  <2>2. CASE GiveBack(t, "loop", {t, Second(t[1])}, "due", t)
    <3>1. t[1] \in Turns /\ t = Lead(t[1]) BY <2>1, StrandKinds
    <3>2. place[Second(t[1])] = "idle" BY <2>1, <3>1 DEF IInv, Paired
    <3>3. {t, Second(t[1])} \in SUBSET {Lead(t[1]), Second(t[1])} /\ t \in {t, Second(t[1])} BY <3>1
    <3> QED BY <1>1, <1>2, <1>3, <2>1, <2>2, <3>2, <3>3, GivesBack
  <2>3. CASE \E p \in {"due", "wait"}, n \in {"loop", "synthesis", "store"} : Leave(t, p, n)
    BY <1>1, <1>2, <1>3, <2>1, <2>3, LeavesLoop
  <2>4. CASE Ends(t) BY <1>1, <1>2, <2>1, <2>4, LeavesLoop DEF Ends
  <2> QED BY <1>4, <2>2, <2>3, <2>4 DEF AfterRouter
<1>5. CASE AfterLoopCall(t)
  <2>1. NodeCalls(node[t]) = MaxIterations /\ node[t] = "loop" BY <1>5 DEF AfterLoopCall, NodeCalls
  <2>2. CASE LoopEnds(t) BY <1>1, <1>2, <2>1, <2>2, LoopEndsStep
  <2>3. CASE Leave(t, "due", "abort") \/ Leave(t, "wait", "loop")
    BY <1>1, <1>2, <1>3, <2>1, <2>3, LeavesLoop
  <2>4. CASE phase = "answered" /\ calls[t] < MaxIterations /\ Again(t)
    BY <1>1, <2>1, <2>4, AgainStep
  <2> QED BY <1>5, <2>2, <2>3, <2>4 DEF AfterLoopCall
<1>6. CASE AfterSynthesis(t)
  BY <1>1, <1>2, <1>3, <1>s, <1>6, LeavesLoop DEF AfterSynthesis, Ends
<1>7. CASE AfterVerifyCall(t)
  <2>1. NodeCalls(node[t]) = VerifyCalls BY <1>7 DEF AfterVerifyCall, NodeCalls
  <2> QED BY <1>1, <1>2, <1>3, <1>s, <1>7, <2>1, LeavesLoop, AgainStep DEF AfterVerifyCall, Ends
<1> QED BY <1>4, <1>5, <1>6, <1>7

-----------------------------------------------------------------------------
\* The invariant holds at first,
LEMMA Initially ==
  ASSUME Init
  PROVE  IInv
<1>1. At("on") = {} BY DEF Init, At
<1>2. Types BY DEF Init, Types, Places, Nodes
<1>3. CallsCounted
  <2>1. \A n \in Nodes : 0 <= NodeCalls(n) BY Bounds
  <2> QED BY <1>2, <2>1 DEF Init, CallsCounted, Types
<1>4. Paired BY StrandKinds DEF Init, Paired
<1> QED BY <1>1, <1>2, <1>3, <1>4 DEF Init, IInv, Alone, Ready, HeldCharged, Free

\* and every step keeps it.
LEMMA Stepwise ==
  ASSUME IInv, [Next]_vars
  PROVE  IInv'
<1>1. CASE \E t \in Tasks : Arrive(t) BY <1>1, ArriveStep
<1>2. CASE Poll BY <1>2, PollStep
<1>3. CASE Tick BY <1>3, TickStep
<1>4. CASE \E p \in Probes : ProbeRuns(p) BY <1>4, ProbeStep
<1>5. ASSUME NEW t \in Strands, TurnStep(t) PROVE IInv'
  BY <1>5, ResumeStep, PassOnStep, DbDoneStep, CallStep, SucceedsStep, FailsOnceStep,
     FailsForGoodStep, WakeUpStep, AfterCallStep DEF TurnStep
<1>6. CASE UNCHANGED vars
  BY <1>6 DEF vars, IInv, Types, Alone, CallsCounted, Ready, Paired, HeldCharged, Charged, At, Free, Spent
<1> QED BY <1>1, <1>2, <1>3, <1>4, <1>5, <1>6 DEF Next, LoopStep, AllDone

\* It holds throughout.
LEMMA Invariant == Spec => []IInv
<1> QED BY Initially, Stepwise, PTL DEF Spec

\* A stay is as long as the calls of its node.
LEMMA HeldWithin == IInv => HoldBounded
<1> SUFFICES ASSUME IInv PROVE held <= HoldBound BY DEF HoldBounded
<1>0. held \in Nat /\ HoldBound \in Nat /\ Types BY Bounds DEF IInv, Types
<1>1. CASE Free BY <1>0, <1>1 DEF IInv, Alone
<1>2. CASE ~Free
  <2>1. PICK t \in At("on") : TRUE BY <1>2 DEF Free
  <2>2. t \in Strands /\ Charged(t) BY <2>1, OnLoop DEF At
  <2>3. /\ calls[t] \in Nat /\ attempt \in Nat /\ rest[t] \in Int /\ MaxCall \in Nat /\ MaxDb \in Nat
        /\ NodeCalls(node[t]) \in Nat /\ NodeCalls(node[t]) <= InARow /\ InARow \in Nat
        /\ calls[t] <= NodeCalls(node[t])
    BY <1>0, <2>2, Bounds, Sizes DEF Types, IInv, CallsCounted, Tasks
  <2>4. CASE phase = "db"
    <3>1. held <= MaxDb /\ MaxDb <= HoldBound BY <2>2, <2>3, <2>4, <1>0, Bounds DEF Charged
    <3> QED BY <3>1, <2>3, <1>0
  <2>5. CASE phase \in {"call", "http", "sleep", "failed"}
    <3>1. calls[t] + 1 <= InARow /\ calls[t] + 1 \in Nat /\ attempt <= MaxRetries
      BY <2>2, <2>3, <2>5 DEF Charged
    <3>2. /\ Spent(calls[t], attempt) \in Nat
          /\ Spent(calls[t], attempt) + MaxCall <= Spent(calls[t] + 1, 0)
      BY <2>3, <3>1, Adding
    <3>3. Spent(calls[t] + 1, 0) \in Nat /\ Spent(calls[t] + 1, 0) <= HoldBound
      BY <3>1, Fitting
    <3>4. held <= Spent(calls[t] + 1, 0)
      BY <1>0, <2>2, <2>3, <2>5, <3>2, <3>3 DEF Charged
    <3> QED BY <1>0, <3>3, <3>4
  <2>6. CASE phase = "answered"
    <3>1. calls[t] <= InARow BY <2>3
    <3>2. Spent(calls[t], 0) \in Nat /\ Spent(calls[t], 0) <= HoldBound BY <2>3, <3>1, Fitting
    <3> QED BY <1>0, <2>2, <2>6, <3>2 DEF Charged
  <2> QED BY <1>0, <2>2, <2>4, <2>5, <2>6 DEF Charged, Types, CallPhases
<1> QED BY <1>1, <1>2

\* However the provider fails, and for any retries, delays and durations, a
\* turn holds the event loop between two awaits no longer than the calls of one
\* node with all their attempts and sleeps: the lock-step of run_tool_loop and
\* verify_claims with GroqProvider.complete.
THEOREM LoopHeldWithinBound == Spec => []HoldBounded
BY HeldWithin, Invariant, PTL

-----------------------------------------------------------------------------
\* Sums over the turns, as the size of a set of pairs: time that the strands of
\* each may still hold the loop for.
TurnBound == TwoStretches + SecondLoop
Total(f) == Cardinality({x \in Turns \X (1 .. TurnBound) : x[2] <= f[x[1]]})

LEMMA Lengths ==
  /\ CompleteBound \in Nat /\ MaxDb \in Nat /\ MaxCall \in Nat /\ MaxDelay \in Nat /\ MaxRetries \in Nat
  /\ CompleteBound = MaxRetries * (MaxCall + MaxDelay) + MaxCall
  /\ TwoStretches \in Nat /\ HoldBound <= TwoStretches
  /\ InARow \in Nat /\ InARow * CompleteBound \in Nat /\ CompleteBound <= InARow * CompleteBound
  /\ InARow * CompleteBound + MaxDb <= TwoStretches
  /\ InARow * CompleteBound + CompleteBound <= TwoStretches
  /\ SecondLoop \in Nat /\ TurnBound \in Nat /\ TurnBound = TwoStretches + SecondLoop
<1>1. /\ CompleteBound \in Nat /\ MaxDb \in Nat /\ MaxCall \in Nat /\ MaxDelay \in Nat /\ MaxRetries \in Nat
  BY Sizes, Bounds
<1>2. CompleteBound = MaxRetries * (MaxCall + MaxDelay) + MaxCall BY <1>1 DEF CompleteBound
<1>3. InARow \in Nat /\ MaxIterations <= InARow /\ VerifyCalls <= InARow /\ 1 <= InARow
  BY Sizes, MinMax DEF InARow
<1>4. PICK x : x = InARow * CompleteBound OBVIOUS
<1>5. x \in Nat /\ CompleteBound <= x BY <1>1, <1>3, <1>4
<1>6. /\ Max({MaxDb, CompleteBound}) \in {MaxDb, CompleteBound}
      /\ Max({MaxDb, CompleteBound}) >= MaxDb /\ Max({MaxDb, CompleteBound}) >= CompleteBound
  BY <1>1, MinMax
<1>7. TwoStretches = x + Max({MaxDb, CompleteBound}) BY <1>4 DEF TwoStretches
<1>8. TwoStretches \in Nat /\ x + MaxDb <= TwoStretches /\ x + CompleteBound <= TwoStretches
  BY <1>1, <1>5, <1>6, <1>7
<1>9. HoldBound \in {MaxDb, x}
  <2>1. HoldBound = Max({MaxDb, x}) BY <1>4 DEF HoldBound
  <2> QED BY <1>1, <1>5, <2>1, MinMax
<1>10. SecondLoop \in Nat BY <1>1, Sizes DEF SecondLoop
<1>11. TurnBound \in Nat /\ TurnBound = TwoStretches + SecondLoop BY <1>8, <1>10 DEF TurnBound
<1> QED BY <1>1, <1>2, <1>3, <1>4, <1>5, <1>8, <1>9, <1>10, <1>11

LEMMA TotalType ==
  ASSUME NEW f
  PROVE  /\ Total(f) \in Nat /\ Total(f) <= LagBound /\ LagBound \in Nat
         /\ IsFiniteSet({x \in Turns \X (1 .. TurnBound) : x[2] <= f[x[1]]})
<1> DEFINE F == {x \in Turns \X (1 .. TurnBound) : x[2] <= f[x[1]]}
<1>0. TurnBound \in Nat BY Lengths
<1>1. IsFiniteSet(1 .. TurnBound) /\ Cardinality(1 .. TurnBound) = TurnBound
  BY <1>0, FS_Interval
<1>2. /\ IsFiniteSet(Turns \X (1 .. TurnBound))
      /\ Cardinality(Turns \X (1 .. TurnBound)) = LagBound
  <2>1. LagBound = Cardinality(Turns) * TurnBound BY DEF LagBound, TurnBound
  <2>2. PICK I : I = 1 .. TurnBound OBVIOUS
  <2>3. IsFiniteSet(Turns \X I) /\ Cardinality(Turns \X I) = Cardinality(Turns) * Cardinality(I)
    BY <1>1, <2>2, Kinds, FS_Product
  <2> QED BY <1>1, <2>1, <2>2, <2>3
<1>3. F \in SUBSET (Turns \X (1 .. TurnBound)) OBVIOUS
<1>4. IsFiniteSet(F) /\ Cardinality(F) <= LagBound BY <1>2, <1>3, FS_Subset
<1>5. Cardinality(F) \in Nat /\ LagBound \in Nat BY <1>2, <1>4, FS_CardinalityType
<1> QED BY <1>4, <1>5 DEF Total

\* No turn has more, the sum is no more;
LEMMA TotalMore ==
  ASSUME NEW f, NEW g, \A t \in Turns : f[t] \in Int /\ g[t] \in Int /\ f[t] <= g[t]
  PROVE  Total(f) <= Total(g)
<1> DEFINE F == {x \in Turns \X (1 .. TurnBound) : x[2] <= f[x[1]]}
           G == {x \in Turns \X (1 .. TurnBound) : x[2] <= g[x[1]]}
<1>1. F \in SUBSET G
  <2>1. ASSUME NEW x \in F PROVE x \in G
    <3>1. x[1] \in Turns /\ x[2] \in Int /\ x[2] <= f[x[1]] BY Lengths
    <3>2. x[2] <= g[x[1]] BY <3>1
    <3> QED BY <3>2
  <2> QED BY <2>1
<1> QED BY <1>1, TotalType, FS_Subset DEF Total

\* and one has less, the sum is less.
LEMMA TotalLess ==
  ASSUME NEW f, NEW g, \A t \in Turns : f[t] \in Int /\ g[t] \in Int /\ f[t] <= g[t],
         NEW u \in Turns, f[u] < g[u], g[u] \in 1 .. TurnBound
  PROVE  Total(f) + 1 <= Total(g)
<1> DEFINE F == {x \in Turns \X (1 .. TurnBound) : x[2] <= f[x[1]]}
           G == {x \in Turns \X (1 .. TurnBound) : x[2] <= g[x[1]]}
<1> PICK z : z = <<u, g[u]>> OBVIOUS
<1>1. z \in G /\ z \notin F BY Lengths
<1>2. F \cup {z} \in SUBSET G
  <2>1. ASSUME NEW x \in F PROVE x \in G
    <3>1. x[1] \in Turns /\ x[2] \in Int /\ x[2] <= f[x[1]] BY Lengths
    <3>2. x[2] <= g[x[1]] BY <3>1
    <3> QED BY <3>2
  <2> QED BY <1>1, <2>1
<1>3. Cardinality(F \cup {z}) = Cardinality(F) + 1
  <2>1. IsFiniteSet(F) BY TotalType
  <2> HIDE DEF F
  <2> QED BY <1>1, <2>1, FS_AddElement
<1>4. Cardinality(F \cup {z}) <= Cardinality(G) BY <1>2, TotalType, FS_Subset
<1> QED BY <1>3, <1>4 DEF Total
-----------------------------------------------------------------------------
\* What each strand may still hold the loop for, before a probe that is ready.

Positive(n) == IF n > 0 THEN n ELSE 0

\* The longest stay of a strand at a node, and what calls it has made leave of it.
NodeTime(n) == IF n \in {"load", "store"} THEN MaxDb ELSE NodeCalls(n) * CompleteBound
Stretch(t) ==
  IF node[t] \in {"load", "store"} THEN MaxDb ELSE (NodeCalls(node[t]) - calls[t]) * CompleteBound

\* What is left of the stay of the strand on the loop.
Left(t) ==
  IF phase = "db" THEN Positive(rest[t])
  ELSE IF phase = "failed" THEN 0
  ELSE Stretch(t) - attempt * (MaxCall + MaxDelay) + Positive(rest[t])
         - (IF phase = "http" THEN MaxCall ELSE 0)

\* For a probe in the same batch: the rest of the strand's stay, if it has one.
BatchShare(t) ==
  IF place[t] = "batch" THEN Stretch(t) ELSE IF place[t] = "on" THEN Left(t) ELSE 0

\* For a probe that missed the batch: two stays of the lead strands in it, one of
\* the other leads, and what is left of a second agent's whole loop.
DueShare(t) ==
  IF place[t] = "done" THEN 0
  ELSE IF t \in Seconds THEN (IF place[t] = "on" THEN Left(t) ELSE Stretch(t))
  ELSE IF place[t] = "batch" THEN TwoStretches
  ELSE IF place[t] = "on" THEN TwoStretches - held ELSE Stretch(t)
Cap(t) == IF t \in Seconds THEN SecondLoop ELSE TwoStretches

Share(p, t) == IF place[p] = "batch" THEN BatchShare(t) ELSE DueShare(t)
Ahead(p) == [a \in Turns |-> Share(p, Lead(a)) + Share(p, Second(a))]

\* What a probe has waited, and what the turns may still take, is within the bound.
Lagging ==
  /\ lag \in [Probes -> Nat]
  /\ \A p \in Probes :
       IF place[p] \in {"due", "batch"} THEN lag[p] + Total(Ahead(p)) <= LagBound ELSE lag[p] = 0

\* Calls made and calls left.
LEMMA Room ==
  ASSUME NEW N \in Nat, NEW c \in Nat, c <= N, NEW C \in Nat
  PROVE  /\ (N - c) * C \in Nat /\ c * C \in Nat /\ N * C \in Nat
         /\ (N - c) * C + c * C = N * C
         /\ c < N => C <= (N - c) * C /\ (N - (c + 1)) * C + C = (N - c) * C
                     /\ (N - (c + 1)) * C \in Nat
<1>1. PICK d \in Nat : d = N - c OBVIOUS
<1>2. d * C \in Nat /\ c * C \in Nat /\ N * C \in Nat OBVIOUS
<1>3. d * C + c * C = N * C BY <1>1
<1>4. c < N => C <= d * C /\ (d - 1) * C + C = d * C /\ (d - 1) * C \in Nat BY <1>1
<1> QED BY <1>1, <1>2, <1>3, <1>4

\* A node's stay, whatever calls it has left, is no longer than a stay may be.
LEMMA StretchFits ==
  ASSUME IInv, NEW t \in Strands
  PROVE  /\ Stretch(t) \in Nat /\ Stretch(t) <= NodeTime(node[t])
         /\ NodeTime(node[t]) \in Nat /\ NodeTime(node[t]) <= TwoStretches
         /\ node[t] \notin {"load", "store"} =>
              /\ calls[t] * CompleteBound \in Nat
              /\ Stretch(t) + calls[t] * CompleteBound = NodeTime(node[t])
<1>1. /\ node[t] \in Nodes /\ calls[t] \in Nat /\ calls[t] <= NodeCalls(node[t])
      /\ NodeCalls(node[t]) \in Nat /\ NodeCalls(node[t]) <= InARow /\ InARow \in Nat
  BY Bounds DEF IInv, Types, CallsCounted
<1>2. /\ CompleteBound \in Nat /\ MaxDb \in Nat /\ TwoStretches \in Nat
      /\ InARow * CompleteBound \in Nat
      /\ InARow * CompleteBound + MaxDb <= TwoStretches
  BY Lengths
<1>3. CASE node[t] \in {"load", "store"}
  <2>1. Stretch(t) = MaxDb /\ NodeTime(node[t]) = MaxDb BY <1>3 DEF Stretch, NodeTime
  <2> QED BY <1>2, <1>3, <2>1
<1>4. CASE node[t] \notin {"load", "store"}
  <2>1. Stretch(t) = (NodeCalls(node[t]) - calls[t]) * CompleteBound
        /\ NodeTime(node[t]) = NodeCalls(node[t]) * CompleteBound
    BY <1>4 DEF Stretch, NodeTime
  <2>2. NodeCalls(node[t]) * CompleteBound <= InARow * CompleteBound BY <1>1, <1>2
  <2> QED BY <1>1, <1>2, <2>1, <2>2, Room
<1> QED BY <1>3, <1>4

\* Nor than its share may be: a second strand stays at a loop, or at nothing.
LEMMA CapFits ==
  ASSUME IInv, NEW t \in Strands
  PROVE  Cap(t) \in Nat /\ NodeTime(node[t]) <= Cap(t)
<1>1. CASE t \in Seconds
  <2>1. node[t] \in {"loop", "abort"} BY <1>1 DEF IInv, Paired
  <2>2. NodeTime("loop") = SecondLoop /\ NodeTime("abort") = 0 * CompleteBound
    BY DEF NodeTime, NodeCalls, SecondLoop
  <2>3. SecondLoop \in Nat /\ CompleteBound \in Nat BY Lengths
  <2>4. 0 * CompleteBound = 0 BY <2>3
  <2> QED BY <1>1, <2>1, <2>2, <2>3, <2>4 DEF Cap
<1>2. CASE t \notin Seconds BY <1>2, StretchFits, Lengths DEF Cap
<1> QED BY <1>1, <1>2

\* Attempts fit into the call they belong to.
LEMMA AttemptsFit ==
  ASSUME NEW a \in Nat, a <= MaxRetries
  PROVE  a * (MaxCall + MaxDelay) \in Nat /\ a * (MaxCall + MaxDelay) + MaxCall <= CompleteBound
<1>1. /\ MaxCall + MaxDelay \in Nat /\ MaxRetries \in Nat /\ MaxCall \in Nat /\ CompleteBound \in Nat
      /\ CompleteBound = MaxRetries * (MaxCall + MaxDelay) + MaxCall
  BY Lengths
<1>2. PICK m \in Nat : m = MaxCall + MaxDelay BY <1>1
<1>3. a * m <= MaxRetries * m /\ a * m \in Nat BY <1>1
<1> QED BY <1>1, <1>2, <1>3

\* What the turn on the loop has held it for and what is left of its stay are
\* one stay of its node.
LEMMA LeftFits ==
  ASSUME IInv, NEW t \in Strands, place[t] = "on"
  PROVE  /\ Left(t) \in Nat /\ held \in Nat
         /\ Left(t) + held <= NodeTime(node[t])
<1>1. t \in Tasks /\ Types /\ Charged(t) BY OnLoop DEF IInv, Tasks
<1>2. /\ Stretch(t) \in Nat /\ NodeTime(node[t]) \in Nat
      /\ node[t] \notin {"load", "store"} =>
           /\ calls[t] * CompleteBound \in Nat
           /\ Stretch(t) + calls[t] * CompleteBound = NodeTime(node[t])
  BY StretchFits
<1>3. /\ held \in Nat /\ rest[t] \in Int /\ attempt \in Nat /\ calls[t] \in Nat
      /\ MaxDb \in Nat /\ MaxCall \in Nat /\ CompleteBound \in Nat
      /\ NodeCalls(node[t]) \in Nat /\ calls[t] <= NodeCalls(node[t]) /\ node[t] \in Nodes
  BY <1>1, Lengths, Bounds DEF Types, IInv, CallsCounted
<1>4. PICK r : r = Positive(rest[t]) OBVIOUS
<1>5. r \in Nat /\ r >= rest[t] /\ (r = 0 \/ r = rest[t]) BY <1>3, <1>4 DEF Positive
<1>6. CASE phase = "db"
  <2>1. node[t] \in {"load", "store"} /\ held + rest[t] <= MaxDb /\ 0 <= rest[t]
    BY <1>1, <1>6 DEF Charged, CallPhases
  <2>2. Left(t) = r /\ NodeTime(node[t]) = MaxDb BY <1>4, <1>6, <2>1 DEF Left, NodeTime
  <2> QED BY <1>3, <1>5, <2>1, <2>2
<1>7. CASE phase # "db"
  <2>1. phase \in CallPhases /\ node[t] \notin {"load", "store"}
    BY <1>1, <1>7 DEF Charged, Types
  <2>2. Stretch(t) = (NodeCalls(node[t]) - calls[t]) * CompleteBound BY <2>1 DEF Stretch
  <2>3. CASE phase \in {"call", "http", "sleep"}
    <3>1. calls[t] < NodeCalls(node[t]) /\ attempt <= MaxRetries BY <1>1, <2>3 DEF Charged
    <3>2. PICK a : a = attempt * (MaxCall + MaxDelay) OBVIOUS
    <3>3. a \in Nat /\ a + MaxCall <= CompleteBound BY <1>3, <3>1, <3>2, AttemptsFit
    <3>4. CompleteBound <= Stretch(t) BY <1>3, <2>2, <3>1, Room
    <3>5. PICK m : m = calls[t] * CompleteBound OBVIOUS
    <3>6. Spent(calls[t], attempt) = m + a BY <3>2, <3>5 DEF Spent
    <3>7. m \in Nat /\ Stretch(t) + m = NodeTime(node[t]) BY <1>2, <2>1, <3>5
    <3>8. CASE phase = "call"
      <4>1. Left(t) = Stretch(t) - a + r - 0 BY <1>4, <3>2, <3>8 DEF Left
      <4>2. held <= m + a /\ r = 0 BY <1>1, <1>4, <3>6, <3>8 DEF Charged, Positive
      <4> QED BY <1>2, <1>3, <3>3, <3>4, <3>7, <4>1, <4>2
    <3>9. CASE phase = "http"
      <4>1. Left(t) = Stretch(t) - a + r - MaxCall BY <1>4, <3>2, <3>9 DEF Left
      <4>2. held + rest[t] <= m + a + MaxCall /\ 0 <= rest[t] BY <1>1, <3>6, <3>9 DEF Charged
      <4>3. held + r <= m + a + MaxCall BY <1>3, <1>5, <3>3, <3>7, <4>2
      <4> QED BY <1>2, <1>3, <1>5, <3>3, <3>4, <3>7, <4>1, <4>3
    <3>10. CASE phase = "sleep"
      <4>1. Left(t) = Stretch(t) - a + r - 0 BY <1>4, <3>2, <3>10 DEF Left
      <4>2. held + rest[t] <= m + a /\ held <= m + a BY <1>1, <3>6, <3>10 DEF Charged
      <4>3. held + r <= m + a BY <1>3, <1>5, <3>3, <3>7, <4>2
      <4> QED BY <1>2, <1>3, <1>5, <3>3, <3>4, <3>7, <4>1, <4>3
    <3> QED BY <2>3, <3>8, <3>9, <3>10
  <2>4. CASE phase = "answered"
    <3>1. attempt = 0 /\ rest[t] = 0 /\ held <= Spent(calls[t], 0) BY <1>1, <2>4 DEF Charged
    <3>2. 0 * (MaxCall + MaxDelay) = 0 BY Lengths
    <3>3. held <= calls[t] * CompleteBound BY <1>2, <2>1, <3>1, <3>2 DEF Spent
    <3>4. r = 0 BY <1>4, <3>1 DEF Positive
    <3>5. Left(t) = Stretch(t) BY <1>2, <1>4, <2>4, <3>1, <3>2, <3>4 DEF Left
    <3> QED BY <1>2, <1>3, <2>1, <3>3, <3>5
  <2>5. CASE phase = "failed"
    <3>1. calls[t] < NodeCalls(node[t]) /\ held <= Spent(calls[t] + 1, 0) BY <1>1, <2>5 DEF Charged
    <3>2. 0 * (MaxCall + MaxDelay) = 0 BY Lengths
    <3>3. (calls[t] + 1) * CompleteBound = calls[t] * CompleteBound + CompleteBound
      BY <1>3
    <3>4. held <= calls[t] * CompleteBound + CompleteBound
      BY <1>2, <1>3, <2>1, <3>1, <3>2, <3>3 DEF Spent
    <3>5. CompleteBound <= Stretch(t) BY <1>3, <2>2, <3>1, Room
    <3>6. Left(t) = 0 BY <2>5 DEF Left
    <3> QED BY <1>2, <1>3, <2>1, <3>4, <3>5, <3>6
  <2> QED BY <2>1, <2>3, <2>4, <2>5 DEF CallPhases
<1> QED BY <1>6, <1>7

\* The shares are amounts the sums count, in every state.
SharesInRange ==
  \A t \in Strands : BatchShare(t) \in 0 .. Cap(t) /\ DueShare(t) \in 0 .. Cap(t)

LEMMA SharesTyped == IInv => SharesInRange
<1> SUFFICES ASSUME IInv, NEW t \in Strands
             PROVE  BatchShare(t) \in 0 .. Cap(t) /\ DueShare(t) \in 0 .. Cap(t)
  BY DEF SharesInRange
<1>1. /\ Stretch(t) \in Nat /\ Stretch(t) <= NodeTime(node[t]) /\ NodeTime(node[t]) \in Nat
      /\ Cap(t) \in Nat /\ NodeTime(node[t]) <= Cap(t) /\ TwoStretches \in Nat
  BY StretchFits, CapFits, Lengths
<1>2. t \notin Seconds => Cap(t) = TwoStretches BY DEF Cap
<1>3. CASE place[t] = "on"
  <2>1. Left(t) \in Nat /\ held \in Nat /\ Left(t) + held <= NodeTime(node[t]) BY <1>3, LeftFits
  <2> QED BY <1>1, <1>2, <1>3, <2>1 DEF BatchShare, DueShare
<1>4. CASE place[t] # "on" BY <1>1, <1>2, <1>4 DEF BatchShare, DueShare
<1> QED BY <1>3, <1>4

\* A turn's strands together are within the bound of a turn.
LEMMA TurnsTyped ==
  ASSUME SharesInRange, NEW p, NEW a \in Turns
  PROVE  /\ Share(p, Lead(a)) \in Nat /\ Share(p, Second(a)) \in Nat
         /\ Ahead(p)[a] = Share(p, Lead(a)) + Share(p, Second(a)) /\ Ahead(p)[a] \in 0 .. TurnBound
<1>1. /\ Share(p, Lead(a)) \in 0 .. Cap(Lead(a)) /\ Share(p, Second(a)) \in 0 .. Cap(Second(a))
  BY StrandKinds DEF SharesInRange, Share
<1>2. Cap(Lead(a)) = TwoStretches /\ Cap(Second(a)) = SecondLoop BY StrandKinds DEF Cap
<1>3. Ahead(p)[a] = Share(p, Lead(a)) + Share(p, Second(a)) BY DEF Ahead
<1> QED BY <1>1, <1>2, <1>3, Lengths
TurnsInRange == \A p \in Probes, a \in Turns :
  /\ Share(p, Lead(a)) \in Nat /\ Share(p, Second(a)) \in Nat
  /\ Ahead(p)[a] = Share(p, Lead(a)) + Share(p, Second(a)) /\ Ahead(p)[a] \in 0 .. TurnBound
LEMMA TurnsAlways == IInv => TurnsInRange
BY SharesTyped, TurnsTyped DEF TurnsInRange
-----------------------------------------------------------------------------
\* One probe's account.

\* Just ready, or not ready at all.
LEMMA NothingWaited ==
  ASSUME NEW p \in Probes, lag'[p] = 0
  PROVE  IF place'[p] \in {"due", "batch"} THEN lag'[p] + Total(Ahead(p)') <= LagBound ELSE lag'[p] = 0
<1>1. Total(Ahead(p)') \in Nat /\ Total(Ahead(p)') <= LagBound BY TotalType
<1> QED BY <1>1

\* Ready, while no strand's share grows.
LEMMA NoMoreAhead ==
  ASSUME IInv, IInv', Lagging, NEW p \in Probes,
         place[p] \in {"due", "batch"}, place'[p] \in {"due", "batch"}, lag'[p] = lag[p],
         \A t \in Strands : Share(p, t)' <= Share(p, t)
  PROVE  IF place'[p] \in {"due", "batch"} THEN lag'[p] + Total(Ahead(p)') <= LagBound ELSE lag'[p] = 0
<1>1. TurnsInRange BY TurnsAlways
<1>2. TurnsInRange' BY TurnsAlways, PTL
<1>3. ASSUME NEW a \in Turns
      PROVE  Ahead(p)[a] \in Int /\ Ahead(p)'[a] \in Int /\ Ahead(p)'[a] <= Ahead(p)[a]
  <2>1. /\ Share(p, Lead(a)) \in Nat /\ Share(p, Second(a)) \in Nat
        /\ Ahead(p)[a] = Share(p, Lead(a)) + Share(p, Second(a))
    BY <1>1 DEF TurnsInRange
  <2>2. /\ Share(p, Lead(a))' \in Nat /\ Share(p, Second(a))' \in Nat
        /\ Ahead(p)'[a] = Share(p, Lead(a))' + Share(p, Second(a))'
    BY <1>2 DEF TurnsInRange
  <2>3. Share(p, Lead(a))' <= Share(p, Lead(a)) /\ Share(p, Second(a))' <= Share(p, Second(a))
    BY StrandKinds
  <2> QED BY <2>1, <2>2, <2>3
<1>4. Total(Ahead(p)') <= Total(Ahead(p)) BY <1>3, TotalMore
<1>5. Total(Ahead(p)') \in Nat /\ Total(Ahead(p)) \in Nat /\ LagBound \in Nat BY TotalType
<1>6. lag[p] \in Nat /\ lag[p] + Total(Ahead(p)) <= LagBound BY DEF Lagging
<1> QED BY <1>4, <1>5, <1>6

\* What a step of one strand does to the others: it starts or goes on with one
\* that was not running, or cancels one.
OthersAfter(t) ==
  /\ \A u \in Strands : u # t =>
       /\ node'[u] = node[u] /\ calls'[u] = calls[u]
       /\ \/ place'[u] = place[u] \/ place'[u] = "done"
          \/ place[u] \in {"idle", "join"} /\ place'[u] \in {"due", "wait"}
  /\ \A p \in Probes : place'[p] = place[p]

LEMMA GiveBackAlone ==
  ASSUME IInv, NEW t \in Strands, NEW n, NEW moved \in SUBSET Strands, NEW p, NEW w,
         GiveBack(t, n, moved, p, w),
         p = "done" \/ (\A u \in moved : u = t \/ (place[u] \in {"idle", "join"} /\ p \in {"due", "wait"}))
  PROVE  OthersAfter(t) /\ lag' = lag
<1>1. /\ place' = [x \in Tasks |-> IF x \in moved THEN p ELSE IF x = t THEN "done" ELSE place[x]]
      /\ node' = [node EXCEPT ![t] = n]
      /\ calls' = [calls EXCEPT ![t] = IF w = t /\ p = "wait" /\ n = node[t] THEN @ ELSE 0]
      /\ lag' = lag /\ Types
  BY DEF GiveBack, IInv
<1>2. ASSUME NEW u \in Strands, u # t
      PROVE  /\ node'[u] = node[u] /\ calls'[u] = calls[u]
             /\ \/ place'[u] = place[u] \/ place'[u] = "done"
                \/ place[u] \in {"idle", "join"} /\ place'[u] \in {"due", "wait"}
  <2>1. node'[u] = node[u] /\ calls'[u] = calls[u] BY <1>1, <1>2 DEF Types
  <2>2. place'[u] = IF u \in moved THEN p ELSE place[u] BY <1>1, <1>2, StrandKinds
  <2> QED BY <1>2, <2>1, <2>2
<1>3. \A q \in Probes : place'[q] = place[q]
  <2>1. \A q \in Probes : q \in Tasks /\ q \notin moved /\ q # t BY Kinds DEF Tasks
  <2> QED BY <1>1, <2>1
<1> QED BY <1>1, <1>2, <1>3 DEF OthersAfter

LEMMA LeaveAlone ==
  ASSUME IInv, NEW t \in Strands, NEW n, NEW p, Leave(t, p, n)
  PROVE  OthersAfter(t) /\ lag' = lag
<1>1. PICK m : m = {t} OBVIOUS
<1>2. m \in SUBSET Strands /\ \A u \in m : u = t BY <1>1
<1>3. GiveBack(t, n, m, p, t) BY <1>1 DEF Leave
<1> QED BY <1>2, <1>3, GiveBackAlone

LEMMA LoopEndsAlone ==
  ASSUME IInv, NEW t \in Strands, LoopEnds(t)
  PROVE  OthersAfter(t) /\ lag' = lag
<1>1. PICK a \in Turns : a = t[1] BY StrandKinds
<1>2. CASE \E p \in {"due", "wait", "join"} : Leave(t, p, "synthesis") BY <1>2, LeaveAlone
<1>3. CASE Ends(t) BY <1>3, LeaveAlone DEF Ends
<1>4. CASE place[Lead(a)] = "join" /\ \E p \in {"due", "wait"} : GiveBack(t, "loop", {Lead(a)}, p, Lead(a))
  <2>1. PICK p \in {"due", "wait"} : GiveBack(t, "loop", {Lead(a)}, p, Lead(a)) BY <1>4
  <2>2. PICK m, l : m = {Lead(a)} /\ l = Lead(a) OBVIOUS
  <2>3. m \in SUBSET Strands /\ \A u \in m : place[u] = "join" BY <1>4, <2>2, StrandKinds
  <2>4. GiveBack(t, "loop", m, p, l) BY <2>1, <2>2
  <2> QED BY <2>3, <2>4, GiveBackAlone
<1> QED BY <1>1, <1>2, <1>3, <1>4 DEF LoopEnds

\* A step of a strand: it is on the loop or takes it, and no lag changes.
LEMMA TurnAlone ==
  ASSUME IInv, NEW t \in Strands, TurnStep(t)
  PROVE  /\ place[t] = "on" \/ (Free /\ place[t] = "batch")
         /\ lag' = lag /\ OthersAfter(t)
<1>0. Types /\ t \in Tasks /\ Strands \subseteq Tasks /\ Probes \subseteq Tasks /\ t \notin Probes
  BY StrandKinds, Kinds DEF IInv, Tasks
<1>2. CASE Resume(t)
  <2>1. \A u \in Tasks : u # t => place'[u] = place[u] BY <1>0, <1>2 DEF Resume, Types
  <2> QED BY <1>0, <1>2, <2>1 DEF Resume, OthersAfter
<1>3. CASE Again(t) /\ place[t] = "on" BY <1>3 DEF Again, OthersAfter
<1>4. CASE Call(t) \/ FailsOnce(t) \/ FailsForGood(t) \/ WakeUp(t)
  BY <1>4 DEF Call, FailsOnce, FailsForGood, WakeUp, Over, OthersAfter
<1>5. CASE Succeeds(t) BY <1>0, <1>5 DEF Succeeds, Over, Types, OthersAfter
<1>6. CASE SessionFails(t) \/ NoActionNamed(t) \/ DbDone(t)
  BY <1>6, LeaveAlone DEF SessionFails, NoActionNamed, DbDone, PassOn, Ends, Over
<1>7. CASE LoopCapped(t) BY <1>7, LoopEndsAlone DEF LoopCapped, PassOn
<1>8. CASE Aborts(t)
  <2>1. PICK m : m = {Lead(t[1]), Second(t[1])} OBVIOUS
  <2>2. m \in SUBSET Strands BY <2>1, StrandKinds
  <2>3. GiveBack(t, "abort", m, "done", t) BY <1>8, <2>1 DEF Aborts
  <2>4. Free /\ place[t] = "batch" BY <1>8 DEF Aborts, PassOn
  <2> QED BY <2>2, <2>3, <2>4, GiveBackAlone
<1>9. CASE AfterRouter(t)
  <2>1. place[t] = "on" /\ node[t] = "router" BY <1>9 DEF AfterRouter
  <2>2. CASE GiveBack(t, "loop", {t, Second(t[1])}, "due", t)
    <3>1. PICK s : s = Second(t[1]) OBVIOUS
    <3>2. PICK m : m = {t, s} OBVIOUS
    <3>3. t \notin Seconds BY <2>1 DEF IInv, Paired
    <3>4. place[s] = "idle" /\ s \in Strands BY <2>1, <3>1, <3>3, StrandKinds DEF IInv, Paired
    <3>5. m \in SUBSET Strands /\ \A u \in m : u = t \/ place[u] = "idle" BY <3>2, <3>4
    <3>6. GiveBack(t, "loop", m, "due", t) BY <2>2, <3>1, <3>2
    <3> QED BY <2>1, <3>5, <3>6, GiveBackAlone
  <2>3. CASE Leave(t, "due", "loop") \/ Leave(t, "wait", "synthesis") \/ Leave(t, "wait", "store") \/ Ends(t)
    BY <2>1, <2>3, LeaveAlone DEF Ends
  <2> QED BY <1>9, <2>2, <2>3 DEF AfterRouter
<1>10. CASE AfterLoopCall(t)
  BY <1>3, <1>10, LeaveAlone, LoopEndsAlone DEF AfterLoopCall
<1>11. CASE AfterSynthesis(t) \/ AfterVerifyCall(t)
  BY <1>3, <1>11, LeaveAlone DEF AfterSynthesis, AfterVerifyCall, Ends
<1> QED BY <1>2, <1>4, <1>5, <1>6, <1>7, <1>8, <1>9, <1>10, <1>11 DEF TurnStep

\* If the strand's own shares do not grow, every probe's account is kept.
LEMMA TurnKeepsLag ==
  ASSUME IInv, IInv', Lagging, NEW t \in Strands, TurnStep(t),
         BatchShare(t)' <= BatchShare(t), DueShare(t)' <= DueShare(t)
  PROVE  Lagging'
<1>1. /\ place[t] = "on" \/ (Free /\ place[t] = "batch")
      /\ lag' = lag /\ OthersAfter(t)
  BY TurnAlone
<1>2. SharesInRange BY SharesTyped
<1>3. ASSUME NEW u \in Strands, u # t
      PROVE  BatchShare(u)' <= BatchShare(u) /\ DueShare(u)' <= DueShare(u)
  <2>1. u \in Tasks /\ t \in Tasks BY StrandKinds
  <2>2. place[u] # "on"
    <3>1. CASE Free BY <2>1, <3>1 DEF Free, At
    <3>2. CASE place[t] = "on"
      <4>1. At("on") = {t} BY <2>1, <3>2, OnLoop
      <4> QED BY <1>3, <2>1, <4>1 DEF At
    <3> QED BY <1>1, <3>1, <3>2
  <2>3. Stretch(u)' = Stretch(u) BY <1>1, <1>3 DEF Stretch, OthersAfter
  <2>4. /\ BatchShare(u) \in Nat /\ DueShare(u) \in Nat
    <3>1. Cap(u) \in Nat BY CapFits
    <3> QED BY <1>2, <3>1 DEF SharesInRange
  <2>5. CASE place'[u] = place[u] BY <2>2, <2>3, <2>4, <2>5 DEF BatchShare, DueShare
  <2>6. CASE place'[u] = "done" BY <2>4, <2>6 DEF BatchShare, DueShare
  <2>7. CASE place[u] \in {"idle", "join"} /\ place'[u] \in {"due", "wait"}
    <3>1. BatchShare(u)' = 0 BY <2>7 DEF BatchShare
    <3>2. DueShare(u)' = Stretch(u)' /\ DueShare(u) = Stretch(u) BY <2>7 DEF DueShare
    <3> QED BY <2>3, <2>4, <3>1, <3>2
  <2> QED BY <1>1, <1>3, <2>5, <2>6, <2>7 DEF OthersAfter
<1>4. \A u \in Strands : BatchShare(u)' <= BatchShare(u) /\ DueShare(u)' <= DueShare(u)
  BY <1>3
<1>5. ASSUME NEW p \in Probes PROVE place'[p] = place[p] /\ lag'[p] = lag[p]
  BY <1>1 DEF OthersAfter
<1>6. ASSUME NEW p \in Probes
      PROVE  IF place'[p] \in {"due", "batch"} THEN lag'[p] + Total(Ahead(p)') <= LagBound ELSE lag'[p] = 0
  <2>1. place'[p] = place[p] /\ lag'[p] = lag[p] BY <1>5
  <2>2. CASE place[p] \in {"due", "batch"}
    <3>1. \A u \in Strands : Share(p, u)' <= Share(p, u) BY <1>4, <2>1 DEF Share
    <3> QED BY <2>1, <2>2, <3>1, NoMoreAhead
  <2>3. CASE place[p] \notin {"due", "batch"} BY <2>1, <2>3 DEF Lagging
  <2> QED BY <2>2, <2>3
<1> QED BY <1>1, <1>6 DEF Lagging
-----------------------------------------------------------------------------
\* A strand's own shares, step by step.

\* A strand takes the loop: its share is its stay.
LEMMA ResumeShares ==
  ASSUME IInv, NEW t \in Strands, Resume(t)
  PROVE  BatchShare(t)' <= BatchShare(t) /\ DueShare(t)' <= DueShare(t)
<1>0. /\ t \in Tasks /\ Types /\ place[t] = "batch" /\ Free
      /\ held = 0 /\ attempt = 0 /\ rest[t] = 0
  BY DEF Resume, IInv, Tasks, Alone, Ready
<1>1. place'[t] = "on" /\ held' = 0 /\ attempt' = 0 BY <1>0 DEF Resume, Types
<1>3. Stretch(t)' = Stretch(t) /\ Stretch(t) \in Nat BY StretchFits DEF Stretch, Resume
<1>4. Left(t)' <= Stretch(t)
  <2>1. CASE node[t] \in {"load", "store"}
    <3>1. PICK d \in 0 .. MaxDb : phase' = "db" /\ rest' = [rest EXCEPT ![t] = d]
      BY <2>1 DEF Resume
    <3>2. rest'[t] = d /\ d \in Nat /\ d <= MaxDb BY <1>0, <3>1, Lengths DEF Types
    <3>3. Left(t)' = Positive(d) /\ Stretch(t) = MaxDb BY <2>1, <3>1, <3>2 DEF Left, Stretch
    <3> QED BY <3>2, <3>3, Lengths DEF Positive
  <2>2. CASE node[t] \notin {"load", "store"}
    <3>1. phase' = "call" /\ rest' = rest BY <2>2 DEF Resume
    <3>2. Left(t)' = Stretch(t) - 0 * (MaxCall + MaxDelay) + Positive(0) - 0
      BY <1>0, <1>1, <1>3, <3>1 DEF Left
    <3>3. 0 * (MaxCall + MaxDelay) = 0 /\ Positive(0) = 0 BY Lengths DEF Positive
    <3> QED BY <1>3, <3>2, <3>3
  <2> QED BY <2>1, <2>2
<1> QED BY <1>0, <1>1, <1>4, Lengths DEF BatchShare, DueShare

\* While it stays on, only what is left of its stay matters.
LEMMA InnerShares ==
  ASSUME IInv, NEW t \in Strands, place[t] = "on", UNCHANGED <<place, held>>, Left(t)' <= Left(t)
  PROVE  BatchShare(t)' <= BatchShare(t) /\ DueShare(t)' <= DueShare(t)
<1>1. held \in Nat /\ held' = held /\ TwoStretches \in Nat BY Lengths DEF IInv, Types
<1> QED BY <1>1 DEF BatchShare, DueShare

\* What is left in the phases of a call.
LEMMA CallShares ==
  ASSUME IInv, NEW t \in Strands,
         Call(t) \/ Succeeds(t) \/ FailsOnce(t) \/ FailsForGood(t) \/ WakeUp(t)
  PROVE  BatchShare(t)' <= BatchShare(t) /\ DueShare(t)' <= DueShare(t)
<1>0. /\ t \in Tasks /\ Types /\ place[t] = "on" /\ UNCHANGED <<place, held, node>>
  BY DEF Tasks, IInv, Call, Succeeds, FailsOnce, FailsForGood, WakeUp, Over
<1>1. Charged(t) /\ Left(t) \in Nat BY <1>0, OnLoop, LeftFits
<1>2. phase \in {"call", "http", "sleep"} BY DEF Call, Succeeds, FailsOnce, FailsForGood, WakeUp, Over
<1>3. /\ attempt \in Nat /\ attempt <= MaxRetries /\ rest[t] \in Int
      /\ MaxCall \in Nat /\ MaxDelay \in Nat /\ CompleteBound \in Nat
      /\ calls[t] \in Nat /\ calls[t] < NodeCalls(node[t]) /\ NodeCalls(node[t]) \in Nat
      /\ node[t] \notin {"load", "store"}
  BY <1>0, <1>1, <1>2, Lengths, Bounds DEF Charged, Types, CallPhases
<1>4. PICK a : a = attempt * (MaxCall + MaxDelay) OBVIOUS
<1>5. a \in Nat /\ a + MaxCall <= CompleteBound BY <1>3, <1>4, AttemptsFit
<1>6. PICK S : S = Stretch(t) OBVIOUS
<1>7. S \in Nat BY <1>6, StretchFits
<1>8. Positive(0) = 0 BY DEF Positive
<1>9. Left(t)' <= Left(t)
  <2>1. CASE Call(t)
    <3>1. PICK d \in 0 .. MaxCall : rest' = [rest EXCEPT ![t] = d] BY <2>1 DEF Call
    <3>2. rest'[t] = d /\ d \in Nat /\ d <= MaxCall BY <1>0, <1>3, <3>1 DEF Types
    <3>3. phase = "call" /\ phase' = "http" /\ attempt' = attempt /\ Stretch(t)' = S
      BY <1>6, <2>1 DEF Call, Stretch
    <3>4. rest[t] = 0 BY <1>1, <3>3 DEF Charged
    <3>5. Left(t) = S - a + 0 - 0 BY <1>4, <1>6, <1>8, <3>3, <3>4 DEF Left
    <3>6. Left(t)' = S - a + d - MaxCall
      <4>1. Positive(d) = d BY <3>2 DEF Positive
      <4> QED BY <1>4, <3>2, <3>3, <4>1 DEF Left
    <3> QED BY <1>3, <1>5, <1>7, <3>2, <3>5, <3>6
  <2>2. CASE Over(t, "http")
    <3>1. rest[t] = 0 /\ phase = "http" BY <2>2 DEF Over
    <3>2. Left(t) = S - a + 0 - MaxCall BY <1>4, <1>6, <1>8, <3>1 DEF Left
    <3>3. CASE Succeeds(t)
      <4>1. /\ phase' = "answered" /\ attempt' = 0 /\ rest' = rest /\ node' = node
            /\ calls'[t] = calls[t] + 1
        BY <1>0, <3>3 DEF Succeeds, Types
      <4>2. Stretch(t)' = (NodeCalls(node[t]) - (calls[t] + 1)) * CompleteBound
        BY <1>3, <4>1 DEF Stretch
      <4>3. S = (NodeCalls(node[t]) - calls[t]) * CompleteBound BY <1>3, <1>6 DEF Stretch
      <4>4. Stretch(t)' + CompleteBound = S /\ Stretch(t)' \in Nat BY <1>3, <4>2, <4>3, Room
      <4>5. Left(t)' = Stretch(t)' - 0 * (MaxCall + MaxDelay) + 0 - 0
        BY <1>8, <3>1, <4>1 DEF Left
      <4>6. 0 * (MaxCall + MaxDelay) = 0 BY <1>3
      <4> QED BY <1>3, <1>5, <1>7, <3>2, <4>4, <4>5, <4>6
    <3>4. CASE phase' = "failed"
      <4>1. Left(t)' = 0 BY <3>4 DEF Left
      <4> QED BY <1>1, <4>1
    <3>5. CASE FailsOnce(t) /\ ~Exhausted(attempt + 1)
      <4>1. /\ phase' = "sleep" /\ attempt' = attempt + 1
            /\ rest' = [rest EXCEPT ![t] = Delay(attempt + 1)]
            /\ Stretch(t)' = S
        BY <1>6, <3>5 DEF FailsOnce, Stretch
      <4>2. Delay(attempt + 1) \in Int /\ Delay(attempt + 1) <= MaxDelay BY <1>3, DelayCapped
      <4>3. PICK d : d = Positive(Delay(attempt + 1)) OBVIOUS
      <4>4. d \in Nat /\ d <= MaxDelay BY <1>3, <4>2, <4>3 DEF Positive
      <4>5. rest'[t] = Delay(attempt + 1) BY <1>0, <4>1 DEF Types
      <4>6. (attempt + 1) * (MaxCall + MaxDelay) = a + (MaxCall + MaxDelay) BY <1>3, <1>4
      <4>7. Left(t)' = S - (a + (MaxCall + MaxDelay)) + d - 0 BY <4>1, <4>3, <4>5, <4>6 DEF Left
      <4> QED BY <1>3, <1>5, <1>7, <3>2, <4>4, <4>7
    <3> QED BY <2>2, <3>1, <3>3, <3>4, <3>5 DEF Call, FailsOnce, FailsForGood, WakeUp, Over
  <2>3. CASE WakeUp(t)
    <3>1. rest[t] = 0 /\ phase = "sleep" /\ phase' = "call"
          /\ UNCHANGED <<rest, attempt>> /\ Stretch(t)' = S
      BY <1>6, <2>3 DEF WakeUp, Over, Stretch
    <3>2. Left(t) = S - a + 0 - 0 BY <1>4, <1>6, <1>8, <3>1 DEF Left
    <3>3. Left(t)' = S - a + 0 - 0 BY <1>4, <1>8, <3>1 DEF Left
    <3> QED BY <1>5, <1>7, <3>2, <3>3
  <2> QED BY <2>1, <2>2, <2>3 DEF Succeeds, FailsOnce, FailsForGood
<1> QED BY <1>0, <1>9, InnerShares

\* On to the next call of the same node.
LEMMA AgainShares ==
  ASSUME IInv, NEW t \in Strands, place[t] = "on", phase = "answered", Again(t)
  PROVE  BatchShare(t)' <= BatchShare(t) /\ DueShare(t)' <= DueShare(t)
<1>1. Left(t) \in Nat BY LeftFits
<1>2. Left(t)' = Left(t) BY DEF Left, Stretch, Again
<1> QED BY <1>1, <1>2, InnerShares DEF Again

\* What a stay at each node may take, in the order a turn goes through them.
LEMMA NodeTimes ==
  /\ NodeTime("load") = MaxDb /\ NodeTime("store") = MaxDb
  /\ NodeTime("router") = CompleteBound /\ NodeTime("synthesis") = CompleteBound
  /\ NodeTime("loop") \in Nat /\ NodeTime("loop") <= InARow * CompleteBound
  /\ NodeTime("verify") \in Nat /\ NodeTime("verify") <= InARow * CompleteBound
  /\ NodeTime("abort") = 0
<1>1. /\ CompleteBound \in Nat /\ InARow \in Nat BY Lengths
<1>2. /\ {"loop", "verify"} \subseteq Nodes BY DEF Nodes
<1>3. /\ NodeCalls("loop") \in Nat /\ NodeCalls("loop") <= InARow
      /\ NodeCalls("verify") \in Nat /\ NodeCalls("verify") <= InARow
  BY <1>2, Bounds
<1>4. \A n \in Nat : n <= InARow => n * CompleteBound \in Nat /\ n * CompleteBound <= InARow * CompleteBound
  BY <1>1
<1>5. NodeCalls("router") = 1 /\ NodeCalls("synthesis") = 1 /\ NodeCalls("abort") = 0
  BY DEF NodeCalls
<1> QED BY <1>1, <1>3, <1>4, <1>5 DEF NodeTime

StretchesInRange ==
  \A t \in Strands : Stretch(t) \in Nat /\ Stretch(t) <= NodeTime(node[t]) /\ NodeTime(node[t]) \in Nat

LEMMA StretchAlways == IInv => StretchesInRange
BY StretchFits DEF StretchesInRange

\* A strand gives the loop back. What a lead held it for and its next stay fit in
\* two; a second agent's next stay is what is left of its loop.
LEMMA LeaveShares ==
  ASSUME IInv, IInv', NEW t \in Strands,
         \/ place'[t] = "done"
         \/ /\ place'[t] \in {"due", "wait", "join"}
            /\ \/ place[t] = "batch" /\ t \notin Seconds
               \/ place[t] = "on" /\ IF t \in Seconds THEN Stretch(t)' <= Left(t)
                                     ELSE held + Stretch(t)' <= TwoStretches
  PROVE  BatchShare(t)' <= BatchShare(t) /\ DueShare(t)' <= DueShare(t)
<1>1. Types /\ Cap(t) \in Nat /\ BatchShare(t) \in 0 .. Cap(t) /\ DueShare(t) \in 0 .. Cap(t)
  BY SharesTyped, CapFits DEF IInv, SharesInRange
<1>2. BatchShare(t)' = 0 BY DEF BatchShare
<1>3. StretchesInRange' BY StretchAlways, PTL
<1>4. Stretch(t)' \in Nat BY <1>3 DEF StretchesInRange
<1>5. DueShare(t)' <= DueShare(t)
  <2>1. CASE place'[t] = "done" BY <1>1, <2>1 DEF DueShare
  <2>2. CASE place'[t] # "done"
    <3>1. DueShare(t)' = Stretch(t)' BY <2>2 DEF DueShare
    <3>2. CASE place[t] = "batch"
      <4>1. SharesInRange' BY SharesTyped, PTL
      <4>2. DueShare(t)' \in 0 .. Cap(t) BY <4>1 DEF SharesInRange, Cap
      <4>3. DueShare(t) = Cap(t) BY <2>2, <3>2 DEF DueShare, Cap
      <4> QED BY <1>1, <4>2, <4>3
    <3>3. CASE place[t] = "on" /\ t \in Seconds BY <2>2, <3>1, <3>3 DEF DueShare
    <3>4. CASE place[t] = "on" /\ t \notin Seconds
      <4>1. DueShare(t) = TwoStretches - held /\ held \in Nat BY <1>1, <3>4 DEF DueShare, Types
      <4> QED BY <1>4, <2>2, <3>1, <3>4, <4>1, Lengths
    <3> QED BY <2>2, <3>2, <3>3, <3>4
  <2> QED BY <2>1, <2>2
<1> QED BY <1>1, <1>2, <1>5

\* Where a strand that gives the loop back goes.
LEMMA Whereto ==
  ASSUME IInv, NEW t \in Strands, NEW n, NEW moved, NEW p, NEW w, GiveBack(t, n, moved, p, w)
  PROVE  place'[t] = (IF t \in moved THEN p ELSE "done") /\ node'[t] = n
BY StrandKinds DEF GiveBack, IInv, Types

LEMMA WheretoAlone ==
  ASSUME IInv, NEW t \in Strands, NEW n, NEW p, Leave(t, p, n)
  PROVE  place'[t] = p /\ node'[t] = n
<1>1. PICK m : m = {t} OBVIOUS
<1>2. GiveBack(t, n, m, p, t) /\ t \in m BY <1>1 DEF Leave
<1> QED BY <1>2, Whereto

\* A lead goes from one node to another.
LEMMA MovesOn ==
  ASSUME IInv, IInv', NEW t \in Strands, place[t] = "on", t \notin Seconds,
         place'[t] \in {"due", "wait", "join"}, NEW n \in Nodes, node'[t] = n,
         <<node[t], n>> \in {<<"load", "router">>, <<"router", "loop">>, <<"router", "synthesis">>,
                             <<"router", "store">>, <<"loop", "synthesis">>, <<"loop", "abort">>,
                             <<"synthesis", "verify">>, <<"verify", "store">>}
  PROVE  BatchShare(t)' <= BatchShare(t) /\ DueShare(t)' <= DueShare(t)
<1>1. /\ Left(t) \in Nat /\ held \in Nat /\ Left(t) + held <= NodeTime(node[t])
      /\ NodeTime(node[t]) \in Nat
  BY LeftFits, StretchFits
<1>3. StretchesInRange' BY StretchAlways, PTL
<1>4. Stretch(t)' \in Nat /\ Stretch(t)' <= NodeTime(n) /\ NodeTime(n) \in Nat
  BY <1>3 DEF StretchesInRange, NodeTime
<1>5. NodeTime(node[t]) + NodeTime(n) <= TwoStretches
  <2>1. PICK x : x = InARow * CompleteBound OBVIOUS
  <2>2. /\ x \in Nat /\ CompleteBound \in Nat /\ MaxDb \in Nat /\ TwoStretches \in Nat
        /\ CompleteBound <= x /\ x + MaxDb <= TwoStretches /\ x + CompleteBound <= TwoStretches
    BY <2>1, Lengths
  <2>3. /\ NodeTime("loop") \in Nat /\ NodeTime("loop") <= x
        /\ NodeTime("verify") \in Nat /\ NodeTime("verify") <= x
        /\ NodeTime("load") = MaxDb /\ NodeTime("store") = MaxDb
        /\ NodeTime("router") = CompleteBound /\ NodeTime("synthesis") = CompleteBound
        /\ NodeTime("abort") = 0
    BY <2>1, NodeTimes
  <2>4. \/ node[t] = "load" /\ n = "router"
        \/ node[t] = "router" /\ n \in {"loop", "synthesis", "store"}
        \/ node[t] = "loop" /\ n \in {"synthesis", "abort"}
        \/ node[t] = "synthesis" /\ n = "verify"
        \/ node[t] = "verify" /\ n = "store"
    OBVIOUS
  <2> QED BY <2>2, <2>3, <2>4
<1>6. held + Stretch(t)' <= TwoStretches BY <1>1, <1>4, <1>5, Lengths
<1> QED BY <1>6, LeaveShares

\* Back to the same tool loop, with the calls it has left.
LEMMA LoopsOn ==
  ASSUME IInv, IInv', NEW t \in Strands, place[t] = "on", phase = "answered", node[t] = "loop",
         Leave(t, "wait", "loop")
  PROVE  BatchShare(t)' <= BatchShare(t) /\ DueShare(t)' <= DueShare(t)
<1>1. t \in Tasks /\ Types /\ Charged(t) BY OnLoop DEF IInv, Tasks
<1>2. /\ Left(t) \in Nat /\ held \in Nat /\ Left(t) + held <= NodeTime(node[t])
      /\ NodeTime(node[t]) \in Nat /\ NodeTime(node[t]) <= TwoStretches
      /\ Stretch(t) \in Nat
  BY LeftFits, StretchFits
<1>3. Left(t) = Stretch(t)
  <2>1. attempt = 0 /\ rest[t] = 0 BY <1>1 DEF Charged
  <2>2. 0 * (MaxCall + MaxDelay) = 0 /\ Positive(0) = 0 BY Lengths DEF Positive
  <2>3. Left(t) = Stretch(t) - 0 + 0 - 0 BY <2>1, <2>2 DEF Left
  <2> QED BY <1>2, <2>3
<1>4. place'[t] = "wait" /\ node'[t] = node[t] /\ calls'[t] = calls[t]
  BY <1>1, WheretoAlone DEF Leave, GiveBack, Types
<1>5. Stretch(t)' = Stretch(t) BY <1>4 DEF Stretch
<1>6. held + Stretch(t)' <= TwoStretches BY <1>2, <1>3, <1>5, Lengths
<1>7. Stretch(t)' <= Left(t) BY <1>2, <1>3, <1>5
<1> QED BY <1>4, <1>6, <1>7, LeaveShares

\* A strand that ends has no share left.
LEMMA EndsShares ==
  ASSUME IInv, IInv', NEW t \in Strands, Ends(t)
  PROVE  BatchShare(t)' <= BatchShare(t) /\ DueShare(t)' <= DueShare(t)
BY WheretoAlone, LeaveShares DEF Ends

\* An agent is through: a lead has its next stay before it, a second strand none.
LEMMA LoopEndsShares ==
  ASSUME IInv, IInv', NEW t \in Strands, place[t] \in {"batch", "on"}, node[t] = "loop", LoopEnds(t)
  PROVE  BatchShare(t)' <= BatchShare(t) /\ DueShare(t)' <= DueShare(t)
<1>1. PICK a \in Turns : a = t[1] BY StrandKinds
<1>2. CASE t = Lead(a)
  <2>1. t \notin Seconds /\ t # Second(a) BY <1>2, StrandKinds
  <2>2. PICK p \in {"due", "wait", "join"} : Leave(t, p, "synthesis")
    BY <1>1, <1>2, <2>1 DEF LoopEnds
  <2>3. place'[t] = p /\ node'[t] = "synthesis" /\ "synthesis" \in Nodes
    BY <2>2, WheretoAlone DEF Nodes
  <2>4. CASE place[t] = "batch" BY <2>1, <2>3, <2>4, LeaveShares
  <2>5. CASE place[t] = "on" BY <2>1, <2>3, <2>5, MovesOn
  <2> QED BY <2>4, <2>5
<1>3. CASE t = Second(a)
  <2>1. t # Lead(a) BY <1>3, StrandKinds
  <2>2. CASE Ends(t) BY <2>2, EndsShares
  <2>3. CASE \E p \in {"due", "wait"} : GiveBack(t, "loop", {Lead(a)}, p, Lead(a))
    <3>1. PICK p \in {"due", "wait"} : GiveBack(t, "loop", {Lead(a)}, p, Lead(a)) BY <2>3
    <3>2. PICK m, l : m = {Lead(a)} /\ l = Lead(a) OBVIOUS
    <3>3. GiveBack(t, "loop", m, p, l) /\ t \notin m BY <2>1, <3>1, <3>2
    <3>4. place'[t] = "done" BY <3>3, Whereto
    <3> QED BY <3>4, LeaveShares
  <2> QED BY <1>1, <1>3, <2>1, <2>2, <2>3 DEF LoopEnds
<1> QED BY <1>1, <1>2, <1>3, StrandKinds

LEMMA TurnShares ==
  ASSUME IInv, IInv', NEW t \in Strands, TurnStep(t)
  PROVE  BatchShare(t)' <= BatchShare(t) /\ DueShare(t)' <= DueShare(t)
<1>0. /\ {"router", "loop", "abort", "synthesis", "verify", "store"} \subseteq Nodes
      /\ t \in Seconds => node[t] \in {"loop", "abort"}
  BY DEF Nodes, IInv, Paired
<1>m. ASSUME NEW p \in {"due", "wait"}, NEW n, Leave(t, p, n)
      PROVE  place'[t] = p /\ node'[t] = n
  BY <1>m, WheretoAlone
<1>1. CASE SessionFails(t) BY <1>1, EndsShares DEF SessionFails, PassOn
<1>2. CASE LoopCapped(t) BY <1>2, LoopEndsShares DEF LoopCapped, PassOn
<1>3. CASE NoActionNamed(t) BY <1>0, <1>m, <1>3, LeaveShares DEF NoActionNamed, PassOn
<1>4. CASE Aborts(t)
  <2>1. PICK m : m = {Lead(t[1]), Second(t[1])} OBVIOUS
  <2>2. GiveBack(t, "abort", m, "done", t) /\ t \in m BY <1>4, <2>1, StrandKinds DEF Aborts
  <2>3. place'[t] = "done" BY <2>2, Whereto
  <2> QED BY <2>3, LeaveShares
<1>5. CASE DbDone(t)
  <2>1. place[t] = "on" BY <1>5 DEF DbDone, Over
  <2>2. CASE Ends(t) BY <2>2, EndsShares
  <2>3. CASE node[t] = "load" /\ Leave(t, "wait", "router") BY <1>0, <1>m, <2>1, <2>3, MovesOn
  <2> QED BY <1>5, <2>2, <2>3 DEF DbDone
<1>6. CASE AfterRouter(t)
  <2>1. place[t] = "on" /\ node[t] = "router" /\ t \notin Seconds BY <1>0, <1>6 DEF AfterRouter
  <2>2. CASE Ends(t) BY <2>2, EndsShares
  <2>3. CASE Leave(t, "due", "loop") BY <1>0, <1>m, <2>1, <2>3, MovesOn
  <2>4. CASE Leave(t, "wait", "synthesis") BY <1>0, <1>m, <2>1, <2>4, MovesOn
  <2>5. CASE Leave(t, "wait", "store") BY <1>0, <1>m, <2>1, <2>5, MovesOn
  <2>6. CASE GiveBack(t, "loop", {t, Second(t[1])}, "due", t)
    <3>1. PICK m : m = {t, Second(t[1])} OBVIOUS
    <3>2. GiveBack(t, "loop", m, "due", t) /\ t \in m BY <2>6, <3>1
    <3>3. place'[t] = "due" /\ node'[t] = "loop" BY <3>2, Whereto
    <3> QED BY <1>0, <2>1, <3>3, MovesOn
  <2> QED BY <1>6, <2>2, <2>3, <2>4, <2>5, <2>6 DEF AfterRouter
<1>7. CASE AfterLoopCall(t)
  <2>1. place[t] = "on" /\ node[t] = "loop" BY <1>7 DEF AfterLoopCall
  <2>2. CASE LoopEnds(t) BY <2>1, <2>2, LoopEndsShares
  <2>3. CASE Leave(t, "due", "abort")
    <3>1. place'[t] = "due" /\ node'[t] = "abort" BY <1>m, <2>3
    <3>2. CASE t \notin Seconds BY <1>0, <2>1, <3>1, <3>2, MovesOn
    <3>3. CASE t \in Seconds
      <4>1. StretchesInRange' BY StretchAlways, PTL
      <4>2. Stretch(t)' \in Nat /\ Stretch(t)' <= NodeTime("abort")
        BY <3>1, <4>1 DEF StretchesInRange, NodeTime
      <4>3. Stretch(t)' <= Left(t) BY <2>1, <4>2, NodeTimes, LeftFits
      <4> QED BY <2>1, <3>1, <3>3, <4>3, LeaveShares
    <3> QED BY <3>2, <3>3
  <2>4. CASE phase = "answered" /\ Leave(t, "wait", "loop") BY <2>1, <2>4, LoopsOn
  <2>5. CASE phase = "answered" /\ Again(t) BY <2>1, <2>5, AgainShares
  <2> QED BY <1>7, <2>2, <2>3, <2>4, <2>5 DEF AfterLoopCall
<1>8. CASE AfterSynthesis(t)
  <2>1. place[t] = "on" /\ node[t] = "synthesis" /\ t \notin Seconds BY <1>0, <1>8 DEF AfterSynthesis
  <2>2. CASE Ends(t) BY <2>2, EndsShares
  <2>3. CASE Leave(t, "due", "verify") BY <1>0, <1>m, <2>1, <2>3, MovesOn
  <2> QED BY <1>8, <2>2, <2>3 DEF AfterSynthesis
<1>9. CASE AfterVerifyCall(t)
  <2>1. place[t] = "on" /\ node[t] = "verify" /\ t \notin Seconds BY <1>0, <1>9 DEF AfterVerifyCall
  <2>2. CASE Ends(t) BY <2>2, EndsShares
  <2>3. CASE Leave(t, "wait", "store") BY <1>0, <1>m, <2>1, <2>3, MovesOn
  <2>4. CASE phase = "answered" /\ Again(t) BY <2>1, <2>4, AgainShares
  <2> QED BY <1>9, <2>2, <2>3, <2>4 DEF AfterVerifyCall
<1> QED BY <1>1, <1>2, <1>3, <1>4, <1>5, <1>6, <1>7, <1>8, <1>9, ResumeShares, CallShares DEF TurnStep
-----------------------------------------------------------------------------
\* The steps of the loop itself.

\* Shares that stay as they are, of a probe that stays where it is.
LEMMA AsMuch ==
  ASSUME IInv, NEW p \in Probes, place'[p] = place[p],
         \A t \in Strands : BatchShare(t)' = BatchShare(t) /\ DueShare(t)' = DueShare(t)
  PROVE  \A t \in Strands : Share(p, t)' <= Share(p, t)
<1> SUFFICES ASSUME NEW t \in Strands PROVE Share(p, t)' <= Share(p, t) OBVIOUS
<1>1. SharesInRange /\ Cap(t) \in Nat BY SharesTyped, CapFits
<1>2. BatchShare(t) \in Nat /\ DueShare(t) \in Nat BY <1>1 DEF SharesInRange
<1> QED BY <1>2 DEF Share

\* A request or a probe becomes ready.
LEMMA ArriveLag ==
  ASSUME IInv, IInv', Lagging, NEW x \in Tasks, Arrive(x)
  PROVE  Lagging'
<1>1. /\ place[x] = "new" /\ place' = [place EXCEPT ![x] = "due"] /\ Types
      /\ UNCHANGED <<rest, node, calls, phase, attempt, held, lag>>
  BY DEF Arrive, IInv
<1>2. ASSUME NEW t \in Strands
      PROVE  BatchShare(t)' = BatchShare(t) /\ DueShare(t)' = DueShare(t)
  <2>1. t \in Tasks BY DEF Tasks
  <2>2. Stretch(t)' = Stretch(t) /\ Left(t)' = Left(t) BY <1>1 DEF Stretch, Left
  <2>3. place'[t] = IF t = x THEN "due" ELSE place[t] BY <1>1, <2>1 DEF Types
  <2> QED BY <1>1, <2>2, <2>3 DEF BatchShare, DueShare
<1>3. \A t \in Strands : BatchShare(t)' = BatchShare(t) /\ DueShare(t)' = DueShare(t) BY <1>2
<1>4. ASSUME NEW p \in Probes
      PROVE  IF place'[p] \in {"due", "batch"} THEN lag'[p] + Total(Ahead(p)') <= LagBound ELSE lag'[p] = 0
  <2>0. p \in Tasks /\ place'[p] = IF p = x THEN "due" ELSE place[p] BY <1>1 DEF Types, Tasks
  <2>1. CASE place[p] \in {"due", "batch"}
    <3>1. place'[p] = place[p] BY <1>1, <2>0, <2>1
    <3>2. \A t \in Strands : Share(p, t)' <= Share(p, t) BY <1>3, <3>1, AsMuch
    <3> QED BY <1>1, <2>1, <3>1, <3>2, NoMoreAhead
  <2>2. CASE place[p] \notin {"due", "batch"}
    <3>1. lag'[p] = 0 BY <1>1, <2>2 DEF Lagging
    <3> QED BY <3>1, NothingWaited
  <2> QED BY <2>1, <2>2
<1> QED BY <1>1, <1>4 DEF Lagging

\* The batch is over and what is due makes the next one.
LEMMA PollLag ==
  ASSUME IInv, IInv', Lagging, Poll
  PROVE  Lagging'
<1>1. /\ Free /\ At("batch") = {} /\ Types
      /\ place' = [t \in Tasks |-> IF place[t] = "due" THEN "batch" ELSE place[t]]
      /\ UNCHANGED <<rest, node, calls, phase, attempt, held, lag>>
  BY DEF Poll, IInv
<1>2. \A t \in Tasks : /\ place[t] \notin {"on", "batch"}
                       /\ place'[t] = IF place[t] = "due" THEN "batch" ELSE place[t]
  BY <1>1 DEF Free, At
<1>3. SharesInRange BY SharesTyped
<1>4. ASSUME NEW t \in Strands PROVE BatchShare(t)' <= DueShare(t)
  <2>1. t \in Tasks /\ Stretch(t)' = Stretch(t) BY <1>1 DEF Tasks, Stretch
  <2>2. DueShare(t) \in Nat
    <3>1. Cap(t) \in Nat /\ DueShare(t) \in 0 .. Cap(t) BY <1>3, CapFits DEF SharesInRange
    <3> QED BY <3>1
  <2>3. CASE place[t] = "due"
    <3>1. BatchShare(t)' = Stretch(t) /\ DueShare(t) = Stretch(t)
      BY <1>2, <2>1, <2>3 DEF BatchShare, DueShare
    <3> QED BY <2>2, <3>1
  <2>4. CASE place[t] # "due"
    <3>1. BatchShare(t)' = 0 BY <1>2, <2>1, <2>4 DEF BatchShare
    <3> QED BY <2>2, <3>1
  <2> QED BY <2>3, <2>4
<1>5. ASSUME NEW p \in Probes
      PROVE  IF place'[p] \in {"due", "batch"} THEN lag'[p] + Total(Ahead(p)') <= LagBound ELSE lag'[p] = 0
  <2>1. p \in Tasks /\ lag'[p] = lag[p] BY <1>1 DEF Tasks
  <2>2. CASE place[p] = "due"
    <3>1. place'[p] = "batch" BY <1>2, <2>1, <2>2
    <3>2. \A t \in Strands : Share(p, t)' <= Share(p, t) BY <1>4, <2>2, <3>1 DEF Share
    <3> QED BY <2>1, <2>2, <3>1, <3>2, NoMoreAhead
  <2>3. CASE place[p] # "due"
    <3>1. lag'[p] = 0 BY <1>2, <2>1, <2>3 DEF Lagging
    <3> QED BY <3>1, NothingWaited
  <2> QED BY <2>2, <2>3
<1> QED BY <1>1, <1>5 DEF Lagging

\* A probe is run; the others wait on.
LEMMA ProbeLag ==
  ASSUME IInv, IInv', Lagging, NEW q \in Probes, ProbeRuns(q)
  PROVE  Lagging'
<1>1. /\ Free /\ Types /\ q \in Tasks /\ q \notin Strands
      /\ lag' = [lag EXCEPT ![q] = 0] /\ lag \in [Probes -> Nat]
      /\ \A x \in Tasks : x # q => place'[x] = place[x]
      /\ UNCHANGED <<node, calls>>
  BY Kinds DEF ProbeRuns, IInv, Types, Tasks, Lagging
<1>2. ASSUME NEW t \in Strands
      PROVE  BatchShare(t)' = BatchShare(t) /\ DueShare(t)' = DueShare(t)
  <2>1. t \in Tasks /\ t # q BY <1>1 DEF Tasks
  <2>2. place'[t] = place[t] /\ place[t] # "on" /\ Stretch(t)' = Stretch(t)
    BY <1>1, <2>1 DEF Free, At, Stretch
  <2> QED BY <2>2 DEF BatchShare, DueShare
<1>3. \A t \in Strands : BatchShare(t)' = BatchShare(t) /\ DueShare(t)' = DueShare(t) BY <1>2
<1>4. ASSUME NEW p \in Probes
      PROVE  IF place'[p] \in {"due", "batch"} THEN lag'[p] + Total(Ahead(p)') <= LagBound ELSE lag'[p] = 0
  <2>1. CASE p = q
    <3>1. lag'[p] = 0 BY <1>1, <2>1
    <3> QED BY <3>1, NothingWaited
  <2>2. CASE p # q
    <3>1. place'[p] = place[p] /\ lag'[p] = lag[p] BY <1>1, <2>2 DEF Tasks
    <3>2. \A t \in Strands : Share(p, t)' <= Share(p, t) BY <1>3, <3>1, AsMuch
    <3>3. CASE place[p] \in {"due", "batch"} BY <3>1, <3>2, <3>3, NoMoreAhead
    <3>4. CASE place[p] \notin {"due", "batch"} BY <3>1, <3>4 DEF Lagging
    <3> QED BY <3>3, <3>4
  <2> QED BY <2>1, <2>2
<1>5. lag' \in [Probes -> Nat] BY <1>1
<1> QED BY <1>4, <1>5 DEF Lagging

\* Time passes: what a ready probe waits is what the strand on the loop has less.
LEMMA TickLag ==
  ASSUME IInv, IInv', Lagging, Tick
  PROVE  Lagging'
<1>0. /\ Types /\ lag \in [Probes -> Nat] /\ LagBound \in Nat
  BY TotalType DEF IInv, Lagging
<1>1. /\ place' = [t \in Tasks |-> IF place[t] = "wait" /\ rest[t] = 1 THEN "due" ELSE place[t]]
      /\ rest' = [t \in Tasks |-> IF rest[t] > 0 THEN rest[t] - 1 ELSE 0]
      /\ held' = IF Free THEN held ELSE Min({held, HoldBound}) + 1
      /\ lag' = [p \in Probes |->
                   IF place[p] \in {"due", "batch"} THEN Min({lag[p], LagBound}) + 1 ELSE lag[p]]
      /\ UNCHANGED <<node, calls, phase, attempt>>
  BY DEF Tick
<1>2. ASSUME NEW p \in Probes
      PROVE  /\ lag'[p] \in Nat
             /\ place[p] \in {"due", "batch"} => lag'[p] <= lag[p] + 1
             /\ place[p] \notin {"due", "batch"} => lag'[p] = 0
  <2>1. lag[p] \in Nat /\ LagBound \in Nat BY <1>0
  <2>2. Min({lag[p], LagBound}) \in {lag[p], LagBound} /\ Min({lag[p], LagBound}) <= lag[p]
    <3>1. \A a, b \in Int : Min({a, b}) \in {a, b} /\ Min({a, b}) <= a BY MinMax
    <3>2. lag[p] \in Int /\ LagBound \in Int BY <2>1
    <3> QED BY <3>1, <3>2
  <2>3. lag'[p] = IF place[p] \in {"due", "batch"} THEN Min({lag[p], LagBound}) + 1 ELSE lag[p]
    BY <1>1
  <2>4. place[p] \notin {"due", "batch"} => lag[p] = 0 BY DEF Lagging
  <2> QED BY <1>0, <2>1, <2>2, <2>3, <2>4
<1>3. lag' \in [Probes -> Nat] BY <1>1, <1>2
<1>4. ASSUME NEW p \in Probes
      PROVE  IF place'[p] \in {"due", "batch"} THEN lag'[p] + Total(Ahead(p)') <= LagBound ELSE lag'[p] = 0
  <2>0. p \in Tasks BY DEF Tasks
  <2>1. CASE place[p] \notin {"due", "batch"} BY <1>2, <2>1, NothingWaited
  <2>2. CASE place[p] \in {"due", "batch"}
    <3>1. PICK t \in At("on") : rest[t] > 0 BY <2>0, <2>2 DEF Tick, At
    <3>2. t \in Strands /\ t \in Tasks /\ place[t] = "on" /\ At("on") = {t} /\ ~Free /\ Charged(t)
      BY <3>1, OnLoop DEF At
    <3>3. /\ place'[p] = place[p] /\ place'[t] = "on"
          /\ rest'[t] = rest[t] - 1 /\ rest[t] \in Int
      BY <1>0, <1>1, <2>0, <2>2, <3>1, <3>2 DEF Types
    <3>4. ASSUME NEW u \in Strands, u # t
          PROVE  BatchShare(u)' = BatchShare(u) /\ DueShare(u)' = DueShare(u)
      <4>1. u \in Tasks /\ place[u] # "on" BY <3>2, <3>4 DEF Tasks, At
      <4>2. Stretch(u)' = Stretch(u) BY <1>1 DEF Stretch
      <4>3. place'[u] = place[u] \/ (place[u] = "wait" /\ place'[u] = "due") BY <1>1, <4>1
      <4> QED BY <4>1, <4>2, <4>3 DEF BatchShare, DueShare
    <3>5. Left(t)' = Left(t) - 1 /\ Left(t) \in Nat
      <4>1. phase \in {"db", "http", "sleep"}
        BY <1>0, <3>1, <3>2 DEF Charged, Types, CallPhases
      <4>2. Positive(rest[t]) \in Nat /\ Positive(rest'[t]) = Positive(rest[t]) - 1
        BY <3>1, <3>3 DEF Positive
      <4>3. Stretch(t)' = Stretch(t) /\ Stretch(t) \in Nat
        <5>1. Stretch(t)' = Stretch(t) BY <1>1 DEF Stretch
        <5> QED BY <3>2, <5>1, StretchFits
      <4>4. Left(t) \in Nat BY <3>2, LeftFits
      <4>5. CASE phase = "db" BY <1>1, <4>2, <4>4, <4>5 DEF Left
      <4>6. CASE phase \in {"http", "sleep"}
        <5>1. PICK a : a = attempt * (MaxCall + MaxDelay) OBVIOUS
        <5>2. PICK m : m = IF phase = "http" THEN MaxCall ELSE 0 OBVIOUS
        <5>3. attempt \in Nat /\ a \in Nat /\ m \in Nat
          <6>1. attempt \in Nat /\ attempt <= MaxRetries BY <1>0, <3>2, <4>6 DEF Charged, Types
          <6> QED BY <5>1, <5>2, <6>1, AttemptsFit, Lengths
        <5>4. Left(t) = Stretch(t) - a + Positive(rest[t]) - m BY <4>6, <5>1, <5>2 DEF Left
        <5>5. Left(t)' = Stretch(t) - a + Positive(rest'[t]) - m
          BY <1>1, <4>3, <4>6, <5>1, <5>2 DEF Left
        <5> QED BY <4>2, <4>3, <4>4, <5>3, <5>4, <5>5
      <4> QED BY <4>1, <4>5, <4>6
    <3>6. BatchShare(t)' = BatchShare(t) - 1 BY <3>2, <3>3, <3>5 DEF BatchShare
    <3>7. DueShare(t)' = DueShare(t) - 1
      <4>1. held \in Nat /\ HoldBound \in Nat /\ held <= HoldBound
        BY <1>0, HeldWithin, Bounds DEF Types, HoldBounded
      <4>2. Min({held, HoldBound}) = held
        <5>1. Min({held, HoldBound}) \in {held, HoldBound} /\ Min({held, HoldBound}) <= held
              /\ Min({held, HoldBound}) <= HoldBound
          BY <4>1, MinMax
        <5> QED BY <4>1, <5>1
      <4>3. held' = held + 1 BY <1>1, <3>2, <4>2
      <4>4. CASE t \in Seconds BY <3>2, <3>3, <3>5, <4>4 DEF DueShare
      <4>5. CASE t \notin Seconds
        <5>1. DueShare(t) = TwoStretches - held /\ DueShare(t)' = TwoStretches - held'
          BY <3>2, <3>3, <4>5 DEF DueShare
        <5> QED BY <4>1, <4>3, <5>1, Lengths
      <4> QED BY <4>4, <4>5
    <3>8. PICK f, g : f = Ahead(p)' /\ g = Ahead(p) OBVIOUS
    <3>9. PICK a \in Turns : t = Lead(a) \/ t = Second(a) BY <3>2, StrandKinds
    <3>10. Share(p, t)' = Share(p, t) - 1 BY <3>3, <3>6, <3>7 DEF Share
    <3>11. ASSUME NEW u \in Strands, u # t PROVE Share(p, u)' = Share(p, u)
      BY <3>3, <3>4, <3>11 DEF Share
    <3>12. ASSUME NEW b \in Turns
           PROVE  /\ f[b] \in Int /\ g[b] \in Int /\ f[b] <= g[b]
                  /\ b = a => f[b] < g[b] /\ g[b] \in 1 .. TurnBound
      <4>1. TurnsInRange BY TurnsAlways
      <4>2. TurnsInRange' BY TurnsAlways, PTL
      <4>3. /\ Share(p, Lead(b)) \in Nat /\ Share(p, Second(b)) \in Nat
            /\ g[b] = Share(p, Lead(b)) + Share(p, Second(b)) /\ g[b] \in 0 .. TurnBound
        BY <3>8, <4>1 DEF TurnsInRange
      <4>4. /\ Share(p, Lead(b))' \in Nat /\ Share(p, Second(b))' \in Nat
            /\ f[b] = Share(p, Lead(b))' + Share(p, Second(b))' /\ f[b] \in 0 .. TurnBound
        BY <3>8, <4>2 DEF TurnsInRange
      <4>5. /\ Lead(b) \in Strands /\ Second(b) \in Strands /\ Lead(b) # Second(b)
            /\ Lead(b) = Lead(a) => b = a
            /\ Second(b) = Second(a) => b = a
        BY StrandKinds DEF Lead, Second
      <4>6. CASE b # a
        <5>1. Lead(b) # t /\ Second(b) # t BY <3>9, <4>5, <4>6 DEF Lead, Second
        <5>2. Share(p, Lead(b))' = Share(p, Lead(b)) /\ Share(p, Second(b))' = Share(p, Second(b))
          BY <3>11, <4>5, <5>1
        <5> QED BY <4>3, <4>4, <4>6, <5>2
      <4>7. CASE b = a /\ t = Lead(a)
        <5>1. Share(p, Second(b))' = Share(p, Second(b)) BY <3>11, <4>5, <4>7
        <5>2. Share(p, Lead(b))' = Share(p, Lead(b)) - 1 BY <3>10, <4>7
        <5> QED BY <4>3, <4>4, <5>1, <5>2, Lengths
      <4>8. CASE b = a /\ t = Second(a)
        <5>1. Share(p, Lead(b))' = Share(p, Lead(b)) BY <3>11, <4>5, <4>8
        <5>2. Share(p, Second(b))' = Share(p, Second(b)) - 1 BY <3>10, <4>8
        <5> QED BY <4>3, <4>4, <5>1, <5>2, Lengths
      <4> QED BY <3>9, <4>6, <4>7, <4>8
    <3>13. Total(f) + 1 <= Total(g) BY <3>12, TotalLess
    <3>14. Total(f) \in Nat /\ Total(g) \in Nat BY TotalType
    <3>15. lag[p] + Total(g) <= LagBound /\ lag[p] \in Nat BY <1>0, <2>2, <3>8 DEF Lagging
    <3>16. lag'[p] + Total(f) <= LagBound
      BY <1>0, <1>2, <2>2, <3>13, <3>14, <3>15
    <3> QED BY <2>2, <3>3, <3>8, <3>16
  <2> QED BY <2>1, <2>2
<1> QED BY <1>3, <1>4 DEF Lagging

\* However slow the provider and the database, a ready probe is run after two
\* stays of each turn and one loop of its second agent at the most: the batch it
\* missed, and its own. This is what keeps /readyz answering on the loop it
\* shares with the turns.
THEOREM ProbeRunsInTime == Spec => []LagBounded
<1>1. Init => Lagging
  <2> SUFFICES ASSUME Init PROVE Lagging OBVIOUS
  <2>1. ASSUME NEW p \in Probes PROVE lag[p] = 0 /\ place[p] = "new"
    <3>1. p \in Tasks /\ p \notin Seconds BY StrandKinds, Kinds DEF Tasks
    <3> QED BY <3>1 DEF Init
  <2>2. lag \in [Probes -> Nat] BY DEF Init
  <2> QED BY <2>1, <2>2 DEF Lagging
<1>2. ASSUME IInv, IInv', Lagging, [Next]_vars PROVE Lagging'
  <2>1. CASE \E t \in Tasks : Arrive(t) BY <1>2, <2>1, ArriveLag
  <2>2. CASE Poll BY <1>2, <2>2, PollLag
  <2>3. CASE Tick BY <1>2, <2>3, TickLag
  <2>4. CASE \E p \in Probes : ProbeRuns(p) BY <1>2, <2>4, ProbeLag
  <2>5. CASE \E t \in Strands : TurnStep(t) BY <1>2, <2>5, TurnShares, TurnKeepsLag
  <2>6. CASE UNCHANGED vars
    <3>1. /\ UNCHANGED <<place, lag>>
          /\ \A t \in Strands : BatchShare(t)' = BatchShare(t) /\ DueShare(t)' = DueShare(t)
      BY <2>6 DEF vars, BatchShare, DueShare, Stretch, Left
    <3>2. ASSUME NEW p \in Probes
          PROVE  IF place'[p] \in {"due", "batch"} THEN lag'[p] + Total(Ahead(p)') <= LagBound ELSE lag'[p] = 0
      <4>1. \A t \in Strands : Share(p, t)' <= Share(p, t) BY <1>2, <3>1, AsMuch
      <4>2. CASE place[p] \in {"due", "batch"} BY <1>2, <3>1, <4>1, <4>2, NoMoreAhead
      <4>3. CASE place[p] \notin {"due", "batch"} BY <1>2, <3>1, <4>3 DEF Lagging
      <4> QED BY <4>2, <4>3
    <3> QED BY <1>2, <3>1, <3>2 DEF Lagging
  <2> QED BY <1>2, <2>1, <2>2, <2>3, <2>4, <2>5, <2>6 DEF Next, LoopStep, AllDone
<1>3. Lagging => LagBounded
  <2> SUFFICES ASSUME Lagging, NEW p \in Probes PROVE lag[p] <= LagBound BY DEF LagBounded
  <2>1. lag[p] \in Nat /\ Total(Ahead(p)) \in Nat /\ LagBound \in Nat BY TotalType DEF Lagging
  <2> QED BY <2>1 DEF Lagging
<1>4. IInv /\ Lagging /\ [Next]_vars => Lagging'
  BY <1>2, Stepwise
<1> QED BY <1>1, <1>3, <1>4, Invariant, PTL DEF Spec
=============================================================================
