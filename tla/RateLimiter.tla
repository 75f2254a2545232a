----------------------------- MODULE RateLimiter -----------------------------
(***************************************************************************)
(* api/rate_limit.py: a fixed window of admitted requests per customer and *)
(* one for everybody.  `check` runs in one piece: chat() calls it without  *)
(* an await, in the only worker process.  Time is counted in whole units;  *)
(* the clock is monotonic.                                                 *)
(***************************************************************************)
EXTENDS Integers, FiniteSets

CONSTANTS
  Customers,
  PerKeyLimit,   \* rate_limit_per_customer_per_minute
  GlobalLimit,   \* rate_limit_global_per_minute
  Window,        \* window_seconds
  MaxTime        \* bound: the model's clock stops here

ASSUME LimitsAssumption == PerKeyLimit \in Nat \ {0} /\ GlobalLimit \in Nat \ {0}
ASSUME TimeAssumption == Window \in Nat \ {0} /\ MaxTime \in Nat

VARIABLES
  now,           \* time.monotonic()
  globalWindow,  \* _global_window
  keyWindows,    \* _per_key_windows: a window for every customer seen
  admitted,      \* history: the requests admitted, numbered for each customer
  keyPromise,    \* history: when the last per-customer refusal said to return
  globalPromise  \* history: when the last global refusal said to return

vars == <<now, globalWindow, keyWindows, admitted, keyPromise, globalPromise>>

Times == 0 .. MaxTime
Counter == [window_start : Times, count : Nat]
Fresh == [window_start |-> now, count |-> 0]

\* How many requests of the customers in cs were admitted at the times in ts.
Admitted(cs, ts) == Cardinality({a \in admitted : a.customer \in cs /\ a.time \in ts})

Init ==
  /\ now = 0
  /\ globalWindow = Fresh
  /\ keyWindows = << >>
  /\ admitted = {}
  /\ keyPromise = [c \in Customers |-> 0]
  /\ globalPromise = 0

-----------------------------------------------------------------------------
\* _check_window: a window that is over is opened anew before it is judged.
Current_WindowOfOneUnit(w) == IF now > w.window_start THEN Fresh ELSE w
Current(w) == IF now - w.window_start >= Window THEN Fresh ELSE w

Full(w, limit) == w.count >= limit

Charged(w) == [w EXCEPT !.count = @ + 1]

\* When the refusal tells the client to come back.
RetryAt_WindowFromNow(w) == now + Window - 1
RetryAt(w) == w.window_start + Window

KeyWindow(c) == Current(IF c \in DOMAIN keyWindows THEN keyWindows[c] ELSE Fresh)

\* setdefault, then the window's own update.
PutKeyWindow(c, w) ==
  keyWindows' = [d \in DOMAIN keyWindows \cup {c} |-> IF d = c THEN w ELSE keyWindows[d]]

Admit(c) ==
  /\ ~Full(Current(globalWindow), GlobalLimit)
  /\ ~Full(KeyWindow(c), PerKeyLimit)
  /\ globalWindow' = Charged(Current(globalWindow))
  /\ PutKeyWindow(c, Charged(KeyWindow(c)))
  /\ admitted' = admitted \cup {[customer |-> c, time |-> now, number |-> Admitted({c}, Times) + 1]}
  /\ UNCHANGED <<now, keyPromise, globalPromise>>

\* Refused by everybody's limit: the customer's window is not even looked at.
RefuseGlobal(c) ==
  /\ Full(Current(globalWindow), GlobalLimit)
  /\ globalWindow' = Current(globalWindow)
  /\ globalPromise' = RetryAt(Current(globalWindow))
  /\ UNCHANGED <<now, keyWindows, admitted, keyPromise>>

AfterRollback_Forgotten(w) == Charged(w)
\* The global charge made before the customer's window was checked is undone.
AfterRollback(w) == [Charged(w) EXCEPT !.count = @ - 1]

RefuseKey(c) ==
  /\ ~Full(Current(globalWindow), GlobalLimit)
  /\ Full(KeyWindow(c), PerKeyLimit)
  /\ globalWindow' = AfterRollback(Current(globalWindow))
  /\ PutKeyWindow(c, KeyWindow(c))
  /\ keyPromise' = [keyPromise EXCEPT ![c] = RetryAt(KeyWindow(c))]
  /\ UNCHANGED <<now, admitted, globalPromise>>

Check(c) == Admit(c) \/ RefuseGlobal(c) \/ RefuseKey(c)

Tick ==
  /\ now < MaxTime
  /\ now' = now + 1
  /\ UNCHANGED <<globalWindow, keyWindows, admitted, keyPromise, globalPromise>>

Next == Tick \/ \E c \in Customers : Check(c)

Spec == Init /\ [][Next]_vars

-----------------------------------------------------------------------------
\* Counters never pass their limit: the rollback never takes a count below
\* zero, and a window never admits one too many.
TypeOK ==
  /\ now \in Times
  /\ globalWindow \in Counter /\ globalWindow.count <= GlobalLimit
  /\ globalWindow.window_start <= now
  /\ DOMAIN keyWindows \subseteq Customers
  /\ \A c \in DOMAIN keyWindows :
       /\ keyWindows[c] \in Counter /\ keyWindows[c].count <= PerKeyLimit
       /\ keyWindows[c].window_start <= now
  /\ admitted \subseteq [customer : Customers, time : 0 .. now, number : Nat] /\ IsFiniteSet(admitted)
  /\ keyPromise \in [Customers -> Nat]
  /\ globalPromise \in Nat

\* What check's docstring promises: a request refused by one limit does not
\* consume the other's budget.  Each counter is exactly the number of requests
\* admitted since its window opened.
ChargedOnlyIfAdmitted ==
  /\ globalWindow.count = Admitted(Customers, globalWindow.window_start .. now)
  /\ \A c \in DOMAIN keyWindows :
       keyWindows[c].count = Admitted({c}, keyWindows[c].window_start .. now)

\* The class docstring's bound: a burst that straddles a boundary gets at most
\* twice the limit into any interval of one window's length, per customer and
\* for all of them together.
StraddleAtMostTwice ==
  \A t \in Times :
    /\ Admitted(Customers, t .. t + Window - 1) <= 2 * GlobalLimit
    /\ \A c \in Customers : Admitted({c}, t .. t + Window - 1) <= 2 * PerKeyLimit

\* Retry-After is honest: a client that comes back when a refusal told it to,
\* and is refused by the same limit again, is refused because a full limit of
\* requests was admitted in the meantime, never by the old window.
RetryAfterHonest ==
  [][/\ \A c \in Customers :
          keyPromise'[c] # keyPromise[c] /\ keyPromise[c] \in 1 .. now =>
            Admitted({c}, keyPromise[c] .. now) >= PerKeyLimit
     /\ globalPromise' # globalPromise /\ globalPromise \in 1 .. now =>
          Admitted(Customers, globalPromise .. now) >= GlobalLimit]_vars
=============================================================================
