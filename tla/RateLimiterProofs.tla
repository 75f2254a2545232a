-------------------------- MODULE RateLimiterProofs --------------------------
(***************************************************************************)
(* All of RateLimiter's properties, for any customers, limits and window.  *)
(* What holds of the window of one customer holds of everybody's, so it is *)
(* stated once, of the requests of some customers, one window and a limit. *)
(***************************************************************************)
EXTENDS RateLimiter, FiniteSetTheorems, TLAPS

\* Admitted, of any set of requests.
Count(A, cs, ts) == Cardinality({a \in A : a.customer \in cs /\ a.time \in ts})

Request == [customer : Customers, time : Nat, number : Nat]

Log(A, n) ==
  /\ A \subseteq Request /\ IsFiniteSet(A)
  /\ \A a \in A : a.time <= n

\* At time n, window w has counted the requests of cs since it was opened, a
\* full limit at most came in the window's length before that, and none after
\* it was over.
Keeps(A, n, cs, w, limit) ==
  /\ w \in Counter /\ w.count <= limit /\ w.window_start <= n
  /\ w.count = Count(A, cs, w.window_start .. n)
  /\ Count(A, cs, w.window_start - Window + 1 .. w.window_start - 1) <= limit
  /\ \A a \in A : a.customer \in cs => a.time < w.window_start + Window
  /\ \A t \in Times : Count(A, cs, t .. t + Window - 1) <= 2 * limit

\* A promise is kept by the window it was made of, or that window is gone.
Due(p, w) == p = w.window_start + Window \/ p <= w.window_start

Windows ==
  /\ Keeps(admitted, now, Customers, globalWindow, GlobalLimit)
  /\ \A c \in DOMAIN keyWindows : Keeps(admitted, now, {c}, keyWindows[c], PerKeyLimit)
  /\ \A a \in admitted : a.customer \in DOMAIN keyWindows

\* No two requests are the same.
Numbered == \A a \in admitted : a.number <= Count(admitted, {a.customer}, Times)

Promises ==
  /\ globalPromise > 0 => Due(globalPromise, globalWindow)
  /\ \A c \in Customers : keyPromise[c] > 0 => c \in DOMAIN keyWindows /\ Due(keyPromise[c], keyWindows[c])

IInv == TypeOK /\ Windows /\ Numbered /\ Promises

-----------------------------------------------------------------------------
\* Counting.

\* More times, no fewer requests.
LEMMA CountMore ==
  ASSUME NEW A, IsFiniteSet(A), NEW cs, NEW ts, NEW us,
         \A a \in A : a.customer \in cs /\ a.time \in ts => a.time \in us
  PROVE  /\ Count(A, cs, ts) \in Nat /\ Count(A, cs, us) \in Nat
         /\ Count(A, cs, ts) <= Count(A, cs, us)
<1> DEFINE T == {a \in A : a.customer \in cs /\ a.time \in ts}
           U == {a \in A : a.customer \in cs /\ a.time \in us}
<1>1. IsFiniteSet(U) /\ T \in SUBSET U BY FS_Subset
<1>2. IsFiniteSet(T) /\ Cardinality(T) <= Cardinality(U) BY <1>1, FS_Subset
<1> QED BY <1>1, <1>2, FS_CardinalityType DEF Count

\* The same requests, the same count.
LEMMA CountSame ==
  ASSUME NEW A, NEW B, NEW cs, NEW ts, NEW us,
         \A a : (a \in A /\ a.customer \in cs /\ a.time \in ts)
                  <=> (a \in B /\ a.customer \in cs /\ a.time \in us)
  PROVE  Count(A, cs, ts) = Count(B, cs, us)
<1>1. {a \in A : a.customer \in cs /\ a.time \in ts} = {a \in B : a.customer \in cs /\ a.time \in us}
  OBVIOUS
<1> QED BY <1>1 DEF Count

\* None of them, none counted.
LEMMA CountNone ==
  ASSUME NEW A, NEW cs, NEW ts, \A a \in A : ~(a.customer \in cs /\ a.time \in ts)
  PROVE  Count(A, cs, ts) = 0
<1>1. {a \in A : a.customer \in cs /\ a.time \in ts} = {} OBVIOUS
<1> QED BY <1>1, FS_EmptySet DEF Count

\* Times that lie in two parts hold no more than both.
LEMMA CountParts ==
  ASSUME NEW A, IsFiniteSet(A), NEW cs, NEW ts, NEW us, NEW vs,
         \A a \in A : a.customer \in cs /\ a.time \in ts => a.time \in us \/ a.time \in vs
  PROVE  Count(A, cs, ts) <= Count(A, cs, us) + Count(A, cs, vs)
<1> DEFINE T == {a \in A : a.customer \in cs /\ a.time \in ts}
           U == {a \in A : a.customer \in cs /\ a.time \in us}
           V == {a \in A : a.customer \in cs /\ a.time \in vs}
<1>1. IsFiniteSet(U) /\ IsFiniteSet(V) BY FS_Subset
<1>2. IsFiniteSet(U \cup V) /\ Cardinality(U \cup V) = Cardinality(U) + Cardinality(V) - Cardinality(U \cap V)
  BY <1>1, FS_Union
<1>3. IsFiniteSet(U \cap V) BY <1>1, FS_Intersection
<1>4. T \in SUBSET (U \cup V) OBVIOUS
<1>5. IsFiniteSet(T) /\ Cardinality(T) <= Cardinality(U \cup V) BY <1>2, <1>4, FS_Subset
<1>6. Cardinality(T) \in Nat /\ Cardinality(U) \in Nat /\ Cardinality(V) \in Nat /\ Cardinality(U \cap V) \in Nat
  BY <1>1, <1>3, <1>5, FS_CardinalityType
<1>7. Count(A, cs, ts) = Cardinality(T) /\ Count(A, cs, us) = Cardinality(U) /\ Count(A, cs, vs) = Cardinality(V)
  BY DEF Count
<1> HIDE DEF T, U, V
<1> QED BY <1>2, <1>5, <1>6, <1>7

\* One request more.
LEMMA CountAdd ==
  ASSUME NEW A, IsFiniteSet(A), NEW x, x \notin A, NEW cs, NEW ts
  PROVE  Count(A \cup {x}, cs, ts) =
           IF x.customer \in cs /\ x.time \in ts THEN Count(A, cs, ts) + 1 ELSE Count(A, cs, ts)
<1> DEFINE T == {a \in A : a.customer \in cs /\ a.time \in ts}
<1>1. IsFiniteSet(T) /\ x \notin T BY FS_Subset
<1>2. CASE x.customer \in cs /\ x.time \in ts
  <2>1. {a \in A \cup {x} : a.customer \in cs /\ a.time \in ts} = T \cup {x} BY <1>2
  <2>2. Cardinality(T \cup {x}) = Cardinality(T) + 1 BY <1>1, FS_AddElement
  <2> QED BY <1>2, <2>1, <2>2 DEF Count
<1>3. CASE ~(x.customer \in cs /\ x.time \in ts)
  <2>1. {a \in A \cup {x} : a.customer \in cs /\ a.time \in ts} = T BY <1>3
  <2> QED BY <1>3, <2>1 DEF Count
<1> QED BY <1>2, <1>3
-----------------------------------------------------------------------------
\* A window and its requests.

\* What Keeps and Log say of the numbers in them.
LEMMA KeepsTyped ==
  ASSUME NEW A, NEW n \in Times, Log(A, n), NEW cs, NEW w, NEW limit \in Nat, Keeps(A, n, cs, w, limit)
  PROVE  /\ Window \in Nat /\ Window > 0 /\ MaxTime \in Nat /\ Times \subseteq Nat /\ n \in Nat
         /\ w.window_start \in Nat /\ w.window_start <= n
         /\ w.count \in Nat /\ w.count <= limit /\ w.count = Count(A, cs, w.window_start .. n)
         /\ \A a \in A : a.time \in Nat /\ a.time <= n
         /\ \A a \in A : a.customer \in cs => a.time < w.window_start + Window
         /\ IsFiniteSet(A)
BY TimeAssumption DEF Times, Keeps, Counter, Log, Request

\* Opened anew when it is over: what it counted is what came just before.
LEMMA Reopened ==
  ASSUME NEW A, NEW n \in Times, Log(A, n), NEW cs, NEW w, NEW limit \in Nat, Keeps(A, n, cs, w, limit),
         n - w.window_start >= Window
  PROVE  Keeps(A, n, cs, [window_start |-> n, count |-> 0], limit)
<1>0. /\ Window \in Nat /\ Window > 0 /\ n \in Nat /\ w.window_start \in Nat
      /\ w.count <= limit /\ w.count \in Nat /\ w.count = Count(A, cs, w.window_start .. n)
      /\ \A a \in A : a.time \in Nat /\ a.time <= n
      /\ \A a \in A : a.customer \in cs => a.time < w.window_start + Window
      /\ IsFiniteSet(A)
  BY KeepsTyped
<1>1. Count(A, cs, n .. n) = 0 BY <1>0, CountNone
<1>2. Count(A, cs, n - Window + 1 .. n - 1) <= limit
  <2>1. \A a \in A : a.time \in n - Window + 1 .. n - 1 => a.time \in w.window_start .. n
    BY <1>0
  <2>2. Count(A, cs, n - Window + 1 .. n - 1) <= Count(A, cs, w.window_start .. n)
        /\ Count(A, cs, n - Window + 1 .. n - 1) \in Nat
    BY <1>0, <2>1, CountMore
  <2> QED BY <1>0, <2>2
<1>3. \A a \in A : a.customer \in cs => a.time < n + Window BY <1>0
<1> QED BY <1>0, <1>1, <1>2, <1>3 DEF Keeps, Counter

\* Opened for customers nobody has seen.
LEMMA Opened ==
  ASSUME NEW A, NEW n \in Times, NEW cs, NEW limit \in Nat, \A a \in A : a.customer \notin cs
  PROVE  Keeps(A, n, cs, [window_start |-> n, count |-> 0], limit)
<1>1. \A ts : Count(A, cs, ts) = 0 BY CountNone
<1>2. n <= n /\ 0 <= limit /\ 0 <= 2 * limit BY DEF Times
<1> QED BY <1>1, <1>2 DEF Keeps, Counter

\* Charged with one of its own, while it is neither full nor over.
LEMMA ChargedKeeps ==
  ASSUME NEW A, NEW n \in Times, Log(A, n), NEW cs, NEW w, NEW limit \in Nat, Keeps(A, n, cs, w, limit),
         w.count < limit, n - w.window_start < Window,
         NEW x, x \notin A, x.customer \in cs, x.time = n
  PROVE  \A B, v : /\ B = A \cup {x}
                   /\ v \in Counter /\ v.count = w.count + 1 /\ v.window_start = w.window_start
                   => Keeps(B, n, cs, v, limit)
<1> PICK s : s = w.window_start OBVIOUS
<1>0. /\ Window \in Nat /\ Window > 0 /\ MaxTime \in Nat /\ n \in Nat /\ s \in Nat /\ s <= n
      /\ n < s + Window
      /\ w.count \in Nat /\ w.count = Count(A, cs, s .. n)
      /\ \A a \in A : a.time \in Nat /\ a.time <= n
      /\ \A a \in A : a.customer \in cs => a.time < s + Window
      /\ IsFiniteSet(A) /\ Times \subseteq Nat
  BY KeepsTyped
<1> SUFFICES ASSUME NEW B, B = A \cup {x},
                    NEW v \in Counter, v.count = w.count + 1, v.window_start = s
             PROVE  Keeps(B, n, cs, v, limit)
  OBVIOUS
<1>1. IsFiniteSet(B) BY <1>0, FS_AddElement
<1>2. \A ts : Count(B, cs, ts) = IF n \in ts THEN Count(A, cs, ts) + 1 ELSE Count(A, cs, ts)
  BY <1>0, CountAdd
<1>3. Count(B, cs, s .. n) = w.count + 1
  <2>1. n \in s .. n BY <1>0
  <2> QED BY <1>0, <1>2, <2>1
<1>4. Count(B, cs, s - Window + 1 .. s - 1) <= limit
  <2>1. n \notin s - Window + 1 .. s - 1 BY <1>0
  <2>2. Count(B, cs, s - Window + 1 .. s - 1) = Count(A, cs, s - Window + 1 .. s - 1) BY <1>2, <2>1
  <2> QED BY <2>2 DEF Keeps
<1>5. \A a \in B : a.customer \in cs => a.time < s + Window BY <1>0
<1>6. ASSUME NEW t \in Times PROVE Count(B, cs, t .. t + Window - 1) <= 2 * limit
  <2>0. t \in Nat BY <1>0
  <2>1. CASE n \in t .. t + Window - 1
    <3>1. \A a \in B : a.customer \in cs /\ a.time \in t .. t + Window - 1
                         => a.time \in s - Window + 1 .. s - 1 \/ a.time \in s .. n
      BY <1>0, <2>0, <2>1
    <3>2. Count(B, cs, t .. t + Window - 1)
            <= Count(B, cs, s - Window + 1 .. s - 1) + Count(B, cs, s .. n)
      BY <1>1, <3>1, CountParts
    <3>3. \A ts : Count(B, cs, ts) \in Nat BY <1>1, CountMore
    <3>4. Count(B, cs, s .. n) <= limit /\ limit \in Nat BY <1>0, <1>3
    <3>5. \A p, q, r : p \in Nat /\ q \in Nat /\ r \in Nat /\ q <= limit /\ r <= limit /\ p <= q + r => p <= 2 * limit
      BY <3>4
    <3> QED BY <1>4, <3>2, <3>3, <3>4, <3>5
  <2>2. CASE n \notin t .. t + Window - 1
    BY <1>2, <2>2 DEF Keeps
  <2> QED BY <2>1, <2>2
<1>7. v.count <= limit BY <1>0
<1> QED BY <1>0, <1>3, <1>4, <1>5, <1>6, <1>7 DEF Keeps

\* Left alone by a request of somebody else.
LEMMA OthersKeep ==
  ASSUME NEW A, NEW n \in Times, Log(A, n), NEW cs, NEW w, NEW limit \in Nat, Keeps(A, n, cs, w, limit),
         NEW x, x.customer \notin cs
  PROVE  Keeps(A \cup {x}, n, cs, w, limit)
<1>1. \A ts : Count(A \cup {x}, cs, ts) = Count(A, cs, ts) BY CountSame
<1> QED BY <1>1 DEF Keeps

\* Left alone by time.
LEMMA TimeKeeps ==
  ASSUME NEW A, NEW n \in Times, Log(A, n), NEW cs, NEW w, NEW limit \in Nat, Keeps(A, n, cs, w, limit)
  PROVE  Keeps(A, n + 1, cs, w, limit)
<1>0. /\ n \in Nat /\ w.window_start \in Nat /\ w.window_start <= n
      /\ \A a \in A : a.time \in Nat /\ a.time <= n
  BY KeepsTyped
<1>1. Count(A, cs, w.window_start .. n + 1) = Count(A, cs, w.window_start .. n)
  BY <1>0, CountSame
<1> QED BY <1>0, <1>1 DEF Keeps
-----------------------------------------------------------------------------
\* The limiter's own windows.

LEMMA Ground ==
  ASSUME IInv
  PROVE  /\ now \in Times /\ Log(admitted, now)
         /\ PerKeyLimit \in Nat /\ PerKeyLimit > 0 /\ GlobalLimit \in Nat /\ GlobalLimit > 0
         /\ Window \in Nat /\ Window > 0 /\ now \in Nat
         /\ \A cs, ts : Admitted(cs, ts) = Count(admitted, cs, ts) /\ Admitted(cs, ts) \in Nat
<1>1. /\ now \in Times /\ now \in Nat /\ Window \in Nat /\ Window > 0
      /\ PerKeyLimit \in Nat /\ PerKeyLimit > 0 /\ GlobalLimit \in Nat /\ GlobalLimit > 0
  BY LimitsAssumption, TimeAssumption DEF IInv, TypeOK, Times
<1>2. admitted \subseteq [customer : Customers, time : 0 .. now, number : Nat] /\ IsFiniteSet(admitted)
  BY DEF IInv, TypeOK
<1>3. Log(admitted, now) BY <1>1, <1>2 DEF Log, Request
<1>4. \A cs, ts : Admitted(cs, ts) = Count(admitted, cs, ts) BY DEF Admitted, Count
<1>5. \A cs, ts : Count(admitted, cs, ts) \in Nat BY <1>2, CountMore
<1> QED BY <1>1, <1>3, <1>4, <1>5

\* _check_window's own first step.
LEMMA CurrentKeeps ==
  ASSUME IInv, NEW cs, NEW w, NEW limit \in Nat, Keeps(admitted, now, cs, w, limit)
  PROVE  /\ Keeps(admitted, now, cs, Current(w), limit)
         /\ now - Current(w).window_start < Window
         /\ Current(w) \in Counter
         /\ \A p \in Nat : Due(p, w) => Due(p, Current(w))
         /\ \A p \in Nat : Due(p, w) /\ p <= now => p <= Current(w).window_start
<1>1. /\ now \in Times /\ Log(admitted, now) /\ Window \in Nat /\ Window > 0 /\ now \in Nat
      /\ w.window_start \in Nat /\ w.window_start <= now /\ w \in Counter
  BY Ground, KeepsTyped DEF Keeps
<1>2. CASE now - w.window_start >= Window
  <2>1. Current(w) = [window_start |-> now, count |-> 0] BY <1>2 DEF Current, Fresh
  <2>2. Keeps(admitted, now, cs, [window_start |-> now, count |-> 0], limit) BY <1>1, <1>2, Reopened
  <2> QED BY <1>1, <1>2, <2>1, <2>2 DEF Keeps, Due
<1>3. CASE ~(now - w.window_start >= Window)
  <2>1. Current(w) = w BY <1>3 DEF Current
  <2> QED BY <1>1, <1>3, <2>1 DEF Due
<1> QED BY <1>2, <1>3

\* The window check finds for a customer, seen before or not.
LEMMA KeyWindowKeeps ==
  ASSUME IInv, NEW c \in Customers
  PROVE  /\ Keeps(admitted, now, {c}, KeyWindow(c), PerKeyLimit)
         /\ now - KeyWindow(c).window_start < Window
         /\ KeyWindow(c) \in Counter
         /\ keyPromise[c] > 0 => Due(keyPromise[c], KeyWindow(c))
         /\ keyPromise[c] > 0 /\ keyPromise[c] <= now => keyPromise[c] <= KeyWindow(c).window_start
<1>1. CASE c \in DOMAIN keyWindows
  <2>1. Keeps(admitted, now, {c}, keyWindows[c], PerKeyLimit) BY <1>1 DEF IInv, Windows
  <2>2. KeyWindow(c) = Current(keyWindows[c]) BY <1>1 DEF KeyWindow
  <2>3. keyPromise[c] \in Nat BY DEF IInv, TypeOK
  <2>4. keyPromise[c] > 0 => Due(keyPromise[c], keyWindows[c]) BY DEF IInv, Promises
  <2> QED BY <2>1, <2>2, <2>3, <2>4, Ground, CurrentKeeps
<1>2. CASE c \notin DOMAIN keyWindows
  <2>1. \A a \in admitted : a.customer \notin {c} BY <1>2 DEF IInv, Windows
  <2>2. Keeps(admitted, now, {c}, [window_start |-> now, count |-> 0], PerKeyLimit)
    BY <2>1, Ground, Opened
  <2>3. KeyWindow(c) = [window_start |-> now, count |-> 0]
    BY <1>2 DEF KeyWindow, Current, Fresh
  <2>4. ~(keyPromise[c] > 0) BY <1>2 DEF IInv, Promises
  <2>5. KeyWindow(c) \in Counter /\ now - KeyWindow(c).window_start < Window
    BY <2>3, Ground DEF Counter
  <2> QED BY <2>2, <2>3, <2>4, <2>5
<1> QED BY <1>1, <1>2

\* A charge, and one that is taken back.
LEMMA ChargedIs ==
  ASSUME NEW w \in Counter
  PROVE  /\ Charged(w) \in Counter
         /\ Charged(w).count = w.count + 1 /\ Charged(w).window_start = w.window_start
         /\ AfterRollback(w) = w
<1>1. w \in [window_start : Times, count : Nat] BY DEF Counter
<1>2. /\ Charged(w) \in [window_start : Times, count : Nat]
      /\ Charged(w).count = w.count + 1 /\ Charged(w).window_start = w.window_start
  BY <1>1 DEF Charged
<1>3. AfterRollback(w) = w BY <1>1, <1>2 DEF AfterRollback
<1> QED BY <1>1, <1>2, <1>3 DEF Counter

\* A refusal names a time its window keeps.
LEMMA RetryAtDue ==
  ASSUME IInv, NEW w \in Counter
  PROVE  RetryAt(w) \in Nat /\ Due(RetryAt(w), w)
BY TimeAssumption DEF RetryAt, Due, Counter, Times

\* The invariant's windows are what the type invariant says of them.
LEMMA KeptTyped ==
  ASSUME NEW A, NEW n \in Times, NEW cs, NEW w, NEW limit, Keeps(A, n, cs, w, limit)
  PROVE  w \in Counter /\ w.count <= limit /\ w.window_start <= n
BY DEF Keeps

\* The request that is admitted is a new one.
LEMMA NewRequest ==
  ASSUME IInv, NEW c \in Customers,
         NEW x, x = [customer |-> c, time |-> now, number |-> Admitted({c}, Times) + 1]
  PROVE  /\ x \in Request /\ x \notin admitted /\ x.customer = c /\ x.time = now
         /\ x.number = Count(admitted, {c}, Times) + 1
<1>1. Count(admitted, {c}, Times) \in Nat /\ Admitted({c}, Times) = Count(admitted, {c}, Times) /\ now \in Nat
  BY Ground
<1>2. x.customer = c /\ x.time = now /\ x.number = Count(admitted, {c}, Times) + 1 /\ x \in Request
  BY <1>1 DEF Request
<1>3. ASSUME x \in admitted PROVE FALSE
  <2>1. x.number <= Count(admitted, {x.customer}, Times) BY <1>3 DEF IInv, Numbered
  <2> QED BY <1>1, <1>2, <2>1
<1> QED BY <1>2, <1>3
-----------------------------------------------------------------------------
\* The steps.

\* What the type invariant adds to the windows.
Rest ==
  /\ now \in Times /\ DOMAIN keyWindows \subseteq Customers
  /\ admitted \subseteq [customer : Customers, time : 0 .. now, number : Nat] /\ IsFiniteSet(admitted)
  /\ keyPromise \in [Customers -> Nat] /\ globalPromise \in Nat

LEMMA TypedByWindows == Rest /\ Windows => TypeOK
<1> SUFFICES ASSUME Rest, Windows PROVE TypeOK OBVIOUS
<1>1. globalWindow \in Counter /\ globalWindow.count <= GlobalLimit /\ globalWindow.window_start <= now
  BY KeptTyped DEF Windows, Rest
<1>2. \A c \in DOMAIN keyWindows :
        keyWindows[c] \in Counter /\ keyWindows[c].count <= PerKeyLimit /\ keyWindows[c].window_start <= now
  BY KeptTyped DEF Windows, Rest
<1> QED BY <1>1, <1>2 DEF TypeOK, Rest

LEMMA InitInvariant == Init => IInv
<1> SUFFICES ASSUME Init PROVE IInv OBVIOUS
<1>1. /\ 0 \in Times /\ PerKeyLimit \in Nat /\ GlobalLimit \in Nat
  BY LimitsAssumption, TimeAssumption DEF Times
<1>2. /\ now = 0 /\ admitted = {} /\ globalWindow = [window_start |-> 0, count |-> 0]
      /\ DOMAIN keyWindows = {} /\ globalPromise = 0 /\ keyPromise = [c \in Customers |-> 0]
  BY DEF Init, Fresh
<1>3. IsFiniteSet(admitted) BY <1>2, FS_EmptySet
<1>4. Windows
  <2>1. Keeps(admitted, 0, Customers, [window_start |-> 0, count |-> 0], GlobalLimit)
    BY <1>1, <1>2, Opened
  <2> QED BY <1>2, <2>1 DEF Windows
<1>5. Numbered BY <1>2 DEF Numbered
<1>6. Promises BY <1>2 DEF Promises
<1>7. TypeOK BY <1>1, <1>2, <1>3, <1>4, TypedByWindows DEF Rest
<1> QED BY <1>4, <1>5, <1>6, <1>7 DEF IInv

LEMMA TickStep ==
  ASSUME IInv, Tick
  PROVE  IInv'
<1>1. /\ now' = now + 1 /\ now \in Nat /\ now' \in Times /\ now' \in Nat /\ 0 .. now \subseteq 0 .. now'
      /\ PerKeyLimit \in Nat /\ GlobalLimit \in Nat
  BY Ground, TimeAssumption DEF Tick, Times
<1>2. /\ UNCHANGED <<globalWindow, keyWindows, admitted, keyPromise, globalPromise>>
  BY DEF Tick
<1>3. Windows'
  <2>1. Keeps(admitted, now', Customers, globalWindow, GlobalLimit)
    BY <1>1, Ground, TimeKeeps DEF IInv, Windows
  <2>2. \A c \in DOMAIN keyWindows : Keeps(admitted, now', {c}, keyWindows[c], PerKeyLimit)
    BY <1>1, Ground, TimeKeeps DEF IInv, Windows
  <2> QED BY <1>2, <2>1, <2>2 DEF IInv, Windows
<1>4. Numbered' BY <1>2 DEF IInv, Numbered
<1>5. Promises' BY <1>2 DEF IInv, Promises
<1>6. admitted' \subseteq [customer : Customers, time : 0 .. now', number : Nat]
  BY <1>1, <1>2 DEF IInv, TypeOK
<1>7. /\ DOMAIN keyWindows' \subseteq Customers /\ IsFiniteSet(admitted')
      /\ keyPromise' \in [Customers -> Nat] /\ globalPromise' \in Nat
  BY <1>2 DEF IInv, TypeOK
<1>8. Rest' BY <1>1, <1>6, <1>7 DEF Rest
<1>9. TypeOK' BY <1>3, <1>8, TypedByWindows, PTL
<1> QED BY <1>3, <1>4, <1>5, <1>9 DEF IInv

\* The windows after any check that leaves the requests alone.
LEMMA RefusedWindows ==
  ASSUME IInv, globalWindow' = Current(globalWindow), UNCHANGED <<now, admitted>>,
         \/ UNCHANGED keyWindows
         \/ \E c \in Customers : PutKeyWindow(c, KeyWindow(c))
  PROVE  Windows'
<1>1. Keeps(admitted, now, Customers, globalWindow', GlobalLimit)
  BY Ground, CurrentKeeps DEF IInv, Windows
<1>2. CASE UNCHANGED keyWindows
  BY <1>1, <1>2 DEF IInv, Windows
<1>3. ASSUME NEW c \in Customers, PutKeyWindow(c, KeyWindow(c)) PROVE Windows'
  <2>1. /\ DOMAIN keyWindows' = DOMAIN keyWindows \cup {c}
        /\ \A d \in DOMAIN keyWindows' : keyWindows'[d] = IF d = c THEN KeyWindow(c) ELSE keyWindows[d]
    BY <1>3 DEF PutKeyWindow
  <2>2. ASSUME NEW d \in DOMAIN keyWindows' PROVE Keeps(admitted, now, {d}, keyWindows'[d], PerKeyLimit)
    <3>1. CASE d = c BY <2>1, <3>1, KeyWindowKeeps
    <3>2. CASE d # c BY <2>1, <3>2 DEF IInv, Windows
    <3> QED BY <3>1, <3>2
  <2>3. \A a \in admitted : a.customer \in DOMAIN keyWindows' BY <2>1 DEF IInv, Windows
  <2> QED BY <1>1, <2>2, <2>3 DEF Windows
<1> QED BY <1>2, <1>3

LEMMA RefuseGlobalStep ==
  ASSUME IInv, NEW c \in Customers, RefuseGlobal(c)
  PROVE  IInv'
<1>1. Windows' BY RefusedWindows DEF RefuseGlobal
<1>2. /\ UNCHANGED <<now, keyWindows, admitted, keyPromise>>
      /\ globalWindow' = Current(globalWindow)
      /\ globalPromise' = RetryAt(Current(globalWindow))
  BY DEF RefuseGlobal
<1>3. Numbered' BY <1>2 DEF IInv, Numbered
<1>4. globalPromise' \in Nat /\ Due(globalPromise', globalWindow')
  <2>1. Current(globalWindow) \in Counter BY Ground, CurrentKeeps DEF IInv, Windows
  <2> QED BY <1>2, <2>1, RetryAtDue
<1>5. Promises' BY <1>2, <1>4 DEF IInv, Promises
<1>6. /\ now' \in Times /\ DOMAIN keyWindows' \subseteq Customers /\ IsFiniteSet(admitted')
      /\ keyPromise' \in [Customers -> Nat]
      /\ admitted' \subseteq [customer : Customers, time : 0 .. now', number : Nat]
  BY <1>2 DEF IInv, TypeOK
<1>7. Rest' BY <1>4, <1>6 DEF Rest
<1>8. TypeOK' BY <1>1, <1>7, TypedByWindows, PTL
<1> QED BY <1>1, <1>3, <1>5, <1>8 DEF IInv

LEMMA RefuseKeyStep ==
  ASSUME IInv, NEW c \in Customers, RefuseKey(c)
  PROVE  IInv'
<1>1. Current(globalWindow) \in Counter
      /\ (\A p \in Nat : Due(p, globalWindow) => Due(p, Current(globalWindow)))
  BY Ground, CurrentKeeps DEF IInv, Windows
<1>2. /\ UNCHANGED <<now, admitted, globalPromise>>
      /\ globalWindow' = Current(globalWindow)
      /\ PutKeyWindow(c, KeyWindow(c))
      /\ keyPromise' = [keyPromise EXCEPT ![c] = RetryAt(KeyWindow(c))]
  BY <1>1, ChargedIs DEF RefuseKey
<1>3. Windows' BY <1>2, RefusedWindows
<1>4. Numbered' BY <1>2 DEF IInv, Numbered
<1>5. RetryAt(KeyWindow(c)) \in Nat /\ Due(RetryAt(KeyWindow(c)), KeyWindow(c))
  BY KeyWindowKeeps, RetryAtDue
<1>6. /\ DOMAIN keyWindows' = DOMAIN keyWindows \cup {c}
      /\ \A d \in DOMAIN keyWindows' : keyWindows'[d] = IF d = c THEN KeyWindow(c) ELSE keyWindows[d]
  BY <1>2 DEF PutKeyWindow
<1>7. /\ keyPromise' \in [Customers -> Nat]
      /\ \A d \in Customers : keyPromise'[d] = IF d = c THEN RetryAt(KeyWindow(c)) ELSE keyPromise[d]
  BY <1>2, <1>5 DEF IInv, TypeOK
<1>8. Promises'
  <2>1. globalPromise' > 0 => Due(globalPromise', globalWindow')
    BY <1>1, <1>2 DEF IInv, Promises, TypeOK
  <2>2. ASSUME NEW d \in Customers, keyPromise'[d] > 0
        PROVE  d \in DOMAIN keyWindows' /\ Due(keyPromise'[d], keyWindows'[d])
    <3>1. CASE d = c BY <1>5, <1>6, <1>7, <3>1
    <3>2. CASE d # c BY <1>6, <1>7, <2>2, <3>2 DEF IInv, Promises
    <3> QED BY <3>1, <3>2
  <2> QED BY <2>1, <2>2 DEF Promises
<1>9. /\ now' \in Times /\ DOMAIN keyWindows' \subseteq Customers /\ IsFiniteSet(admitted')
      /\ globalPromise' \in Nat
      /\ admitted' \subseteq [customer : Customers, time : 0 .. now', number : Nat]
  BY <1>2, <1>6 DEF IInv, TypeOK
<1>10. Rest' BY <1>7, <1>9 DEF Rest
<1>11. TypeOK' BY <1>3, <1>10, TypedByWindows, PTL
<1> QED BY <1>3, <1>4, <1>8, <1>11 DEF IInv
LEMMA AdmitStep ==
  ASSUME IInv, NEW c \in Customers, Admit(c)
  PROVE  IInv'
<1> PICK x : x = [customer |-> c, time |-> now, number |-> Admitted({c}, Times) + 1] OBVIOUS
<1>0. /\ x \in Request /\ x \notin admitted /\ x.customer = c /\ x.time = now
      /\ x.number = Count(admitted, {c}, Times) + 1
  BY NewRequest
<1>1. admitted' = admitted \cup {x} /\ UNCHANGED <<now, keyPromise, globalPromise>> BY DEF Admit
<1>2. /\ now \in Times /\ Log(admitted, now) /\ PerKeyLimit \in Nat /\ GlobalLimit \in Nat
  BY Ground
<1>3. /\ Keeps(admitted', now, Customers, globalWindow', GlobalLimit)
      /\ \A p \in Nat : Due(p, globalWindow) => Due(p, globalWindow')
  <2> PICK w : w = Current(globalWindow) OBVIOUS
  <2>1. /\ Keeps(admitted, now, Customers, w, GlobalLimit)
        /\ now - w.window_start < Window /\ w \in Counter
        /\ \A p \in Nat : Due(p, globalWindow) => Due(p, w)
    BY <1>2, CurrentKeeps DEF IInv, Windows
  <2>2. globalWindow' = Charged(w) /\ w.count < GlobalLimit
    BY <1>2, <2>1 DEF Admit, Full, Counter
  <2>3. globalWindow' \in Counter /\ globalWindow'.count = w.count + 1
        /\ globalWindow'.window_start = w.window_start
    BY <2>1, <2>2, ChargedIs
  <2>4. Keeps(admitted', now, Customers, globalWindow', GlobalLimit)
    BY <1>0, <1>1, <1>2, <2>1, <2>2, <2>3, ChargedKeeps
  <2> QED BY <2>1, <2>3, <2>4 DEF Due
<1>4. /\ Keeps(admitted', now, {c}, keyWindows'[c], PerKeyLimit)
      /\ keyPromise[c] > 0 => Due(keyPromise[c], keyWindows'[c])
      /\ DOMAIN keyWindows' = DOMAIN keyWindows \cup {c}
      /\ \A d \in DOMAIN keyWindows : d # c => keyWindows'[d] = keyWindows[d]
  <2> PICK w : w = KeyWindow(c) OBVIOUS
  <2>1. /\ Keeps(admitted, now, {c}, w, PerKeyLimit)
        /\ now - w.window_start < Window /\ w \in Counter
        /\ keyPromise[c] > 0 => Due(keyPromise[c], w)
    BY KeyWindowKeeps
  <2>2. PutKeyWindow(c, Charged(w)) /\ w.count < PerKeyLimit
    BY <1>2, <2>1 DEF Admit, Full, Counter
  <2>3. /\ DOMAIN keyWindows' = DOMAIN keyWindows \cup {c}
        /\ keyWindows'[c] = Charged(w)
        /\ \A d \in DOMAIN keyWindows : d # c => keyWindows'[d] = keyWindows[d]
    BY <2>2 DEF PutKeyWindow
  <2>4. keyWindows'[c] \in Counter /\ keyWindows'[c].count = w.count + 1
        /\ keyWindows'[c].window_start = w.window_start
    BY <2>1, <2>3, ChargedIs
  <2>5. Keeps(admitted', now, {c}, keyWindows'[c], PerKeyLimit)
    BY <1>0, <1>1, <1>2, <2>1, <2>2, <2>4, ChargedKeeps
  <2> QED BY <2>1, <2>3, <2>4, <2>5 DEF Due
<1>5. Windows'
  <2>1. ASSUME NEW d \in DOMAIN keyWindows' PROVE Keeps(admitted', now, {d}, keyWindows'[d], PerKeyLimit)
    <3>1. CASE d = c BY <1>4, <3>1
    <3>2. CASE d # c
      <4>1. d \in DOMAIN keyWindows /\ keyWindows'[d] = keyWindows[d] /\ x.customer \notin {d}
        BY <1>0, <1>4, <3>2
      <4>2. Keeps(admitted, now, {d}, keyWindows[d], PerKeyLimit) BY <4>1 DEF IInv, Windows
      <4> QED BY <1>1, <1>2, <4>1, <4>2, OthersKeep
    <3> QED BY <3>1, <3>2
  <2>2. \A a \in admitted' : a.customer \in DOMAIN keyWindows'
    BY <1>0, <1>1, <1>4 DEF IInv, Windows
  <2> QED BY <1>1, <1>3, <2>1, <2>2 DEF Windows
<1>6. Numbered'
  <2>1. ASSUME NEW a \in admitted' PROVE a.number <= Count(admitted', {a.customer}, Times)
    <3>0. IsFiniteSet(admitted) BY <1>2 DEF Log
    <3>1. /\ Count(admitted, {a.customer}, Times) \in Nat
          /\ Count(admitted', {a.customer}, Times)
               = IF x.customer \in {a.customer} /\ x.time \in Times
                 THEN Count(admitted, {a.customer}, Times) + 1 ELSE Count(admitted, {a.customer}, Times)
      BY <1>0, <1>1, <3>0, CountAdd, CountMore
    <3>2. CASE a = x BY <1>0, <1>2, <3>1, <3>2
    <3>3. CASE a # x
      <4>1. a \in admitted BY <1>1, <3>3
      <4>2. a.number <= Count(admitted, {a.customer}, Times) BY <4>1 DEF IInv, Numbered
      <4>3. a.number \in Nat BY <1>2, <4>1 DEF Log, Request
      <4> QED BY <3>1, <4>2, <4>3
    <3> QED BY <3>2, <3>3
  <2> QED BY <2>1 DEF Numbered
<1>7. Promises'
  <2>1. globalPromise' > 0 => Due(globalPromise', globalWindow')
    BY <1>1, <1>3 DEF IInv, Promises, TypeOK
  <2>2. ASSUME NEW d \in Customers, keyPromise'[d] > 0
        PROVE  d \in DOMAIN keyWindows' /\ Due(keyPromise'[d], keyWindows'[d])
    <3>1. CASE d = c BY <1>1, <1>4, <2>2, <3>1
    <3>2. CASE d # c BY <1>1, <1>4, <2>2, <3>2 DEF IInv, Promises
    <3> QED BY <3>1, <3>2
  <2> QED BY <2>1, <2>2 DEF Promises
<1>8. Rest'
  <2>1. x \in [customer : Customers, time : 0 .. now, number : Nat]
    BY <1>0, <1>2 DEF Request
  <2>2. admitted' \subseteq [customer : Customers, time : 0 .. now', number : Nat]
    BY <1>1, <2>1 DEF IInv, TypeOK
  <2>3. IsFiniteSet(admitted') BY <1>1, <1>2, FS_AddElement DEF Log
  <2> QED BY <1>1, <1>4, <2>2, <2>3 DEF Rest, IInv, TypeOK
<1>9. TypeOK' BY <1>5, <1>8, TypedByWindows, PTL
<1> QED BY <1>5, <1>6, <1>7, <1>9 DEF IInv

\* The inductive invariant.
THEOREM InvariantHolds == Spec => []IInv
<1>1. ASSUME IInv, [Next]_vars PROVE IInv'
  <2>1. CASE Tick BY <1>1, <2>1, TickStep
  <2>2. ASSUME NEW c \in Customers, Check(c) PROVE IInv'
    BY <1>1, <2>2, AdmitStep, RefuseGlobalStep, RefuseKeyStep DEF Check
  <2>3. CASE UNCHANGED vars
    BY <1>1, <2>3 DEF vars, IInv, TypeOK, Windows, Numbered, Promises
  <2> QED BY <1>1, <2>1, <2>2, <2>3 DEF Next
<1> QED BY <1>1, InitInvariant, PTL DEF Spec
-----------------------------------------------------------------------------
\* Whatever requests come when, a window never admits one too many and the
\* rollback never takes a count below zero: _check_window and check.
THEOREM CountersKeepLimits == Spec => []TypeOK
BY InvariantHolds, PTL DEF IInv

\* check's docstring: a request that one limit refuses does not consume the
\* other's budget.
THEOREM OnlyTheAdmittedAreCharged == Spec => []ChargedOnlyIfAdmitted
<1>1. IInv => ChargedOnlyIfAdmitted
  <2> SUFFICES ASSUME IInv PROVE ChargedOnlyIfAdmitted OBVIOUS
  <2>1. \A cs, ts : Admitted(cs, ts) = Count(admitted, cs, ts) BY Ground
  <2> QED BY <2>1 DEF IInv, Windows, Keeps, ChargedOnlyIfAdmitted
<1> QED BY <1>1, InvariantHolds, PTL

\* The class docstring's bound on a burst that straddles a boundary, with the
\* reason: what a window admits adds to what the one before it admitted, and
\* nothing was admitted between the two.
THEOREM BurstAtMostTwice == Spec => []StraddleAtMostTwice
<1>1. IInv => StraddleAtMostTwice
  <2> SUFFICES ASSUME IInv, NEW t \in Times
               PROVE  /\ Admitted(Customers, t .. t + Window - 1) <= 2 * GlobalLimit
                      /\ \A c \in Customers : Admitted({c}, t .. t + Window - 1) <= 2 * PerKeyLimit
    BY DEF StraddleAtMostTwice
  <2>1. /\ \A cs, ts : Admitted(cs, ts) = Count(admitted, cs, ts)
        /\ PerKeyLimit \in Nat
    BY Ground
  <2>2. Count(admitted, Customers, t .. t + Window - 1) <= 2 * GlobalLimit
    BY DEF IInv, Windows, Keeps
  <2>3. ASSUME NEW c \in Customers PROVE Count(admitted, {c}, t .. t + Window - 1) <= 2 * PerKeyLimit
    <3>1. CASE c \in DOMAIN keyWindows BY <3>1 DEF IInv, Windows, Keeps
    <3>2. CASE c \notin DOMAIN keyWindows
      <4>1. \A a \in admitted : a.customer \notin {c} BY <3>2 DEF IInv, Windows
      <4>2. Count(admitted, {c}, t .. t + Window - 1) = 0 BY <4>1, CountNone
      <4> QED BY <2>1, <4>2
    <3> QED BY <3>1, <3>2
  <2> QED BY <2>1, <2>2, <2>3
<1> QED BY <1>1, InvariantHolds, PTL

\* A full window that opened at p or later: a limit's worth since p.
LEMMA FullSince ==
  ASSUME IInv, NEW cs, NEW w, NEW limit \in Nat, Keeps(admitted, now, cs, w, limit),
         Full(w, limit), NEW p \in Nat, p <= w.window_start
  PROVE  Admitted(cs, p .. now) >= limit
<1>1. /\ w.window_start \in Nat /\ w.count \in Nat /\ IsFiniteSet(admitted) /\ now \in Nat
      /\ w.count = Count(admitted, cs, w.window_start .. now)
      /\ \A a \in admitted : a.time \in Nat /\ a.time <= now
  BY Ground, KeepsTyped
<1>2. w.count >= limit BY DEF Full
<1>3. \A a \in admitted : a.customer \in cs /\ a.time \in w.window_start .. now => a.time \in p .. now
  BY <1>1
<1>4. Count(admitted, cs, w.window_start .. now) <= Count(admitted, cs, p .. now)
      /\ Count(admitted, cs, p .. now) \in Nat
  BY <1>1, <1>3, CountMore
<1>5. Admitted(cs, p .. now) = Count(admitted, cs, p .. now) BY Ground
<1> QED BY <1>1, <1>2, <1>4, <1>5

\* Retry-After is honest: who comes back when told to, and is refused by the
\* same limit again, meets requests admitted since, never the old window.
THEOREM PromisesAreKept == Spec => RetryAfterHonest
<1> DEFINE Honest ==
      /\ \A c \in Customers :
           keyPromise'[c] # keyPromise[c] /\ keyPromise[c] \in 1 .. now =>
             Admitted({c}, keyPromise[c] .. now) >= PerKeyLimit
      /\ globalPromise' # globalPromise /\ globalPromise \in 1 .. now =>
           Admitted(Customers, globalPromise .. now) >= GlobalLimit
<1>1. ASSUME IInv, [Next]_vars PROVE [Honest]_vars
  <2>1. CASE Tick \/ UNCHANGED vars BY <2>1 DEF Tick, vars
  <2>2. ASSUME NEW c \in Customers, Admit(c) PROVE Honest BY <2>2 DEF Admit
  <2>3. ASSUME NEW c \in Customers, RefuseGlobal(c) PROVE Honest
    <3>1. UNCHANGED keyPromise /\ Full(Current(globalWindow), GlobalLimit) BY <2>3 DEF RefuseGlobal
    <3>2. ASSUME globalPromise \in 1 .. now PROVE Admitted(Customers, globalPromise .. now) >= GlobalLimit
      <4>1. globalPromise \in Nat /\ globalPromise > 0 /\ globalPromise <= now
        BY <1>1, <3>2, Ground
      <4>2. Due(globalPromise, globalWindow) BY <1>1, <4>1 DEF IInv, Promises
      <4>3. Keeps(admitted, now, Customers, Current(globalWindow), GlobalLimit)
            /\ globalPromise <= Current(globalWindow).window_start
        BY <1>1, <4>1, <4>2, Ground, CurrentKeeps DEF IInv, Windows
      <4> QED BY <1>1, <3>1, <4>1, <4>3, Ground, FullSince
    <3> QED BY <3>1, <3>2
  <2>4. ASSUME NEW c \in Customers, RefuseKey(c) PROVE Honest
    <3>1. /\ UNCHANGED globalPromise /\ Full(KeyWindow(c), PerKeyLimit)
          /\ \A d \in Customers : d # c => keyPromise'[d] = keyPromise[d]
      BY <1>1, <2>4 DEF RefuseKey, IInv, TypeOK
    <3>2. ASSUME keyPromise[c] \in 1 .. now PROVE Admitted({c}, keyPromise[c] .. now) >= PerKeyLimit
      <4>1. keyPromise[c] \in Nat /\ keyPromise[c] > 0 /\ keyPromise[c] <= now
        BY <1>1, <3>2, Ground
      <4>2. Keeps(admitted, now, {c}, KeyWindow(c), PerKeyLimit)
            /\ keyPromise[c] <= KeyWindow(c).window_start
        BY <1>1, <4>1, KeyWindowKeeps
      <4> QED BY <1>1, <3>1, <4>1, <4>2, Ground, FullSince
    <3> QED BY <3>1, <3>2
  <2> QED BY <1>1, <2>1, <2>2, <2>3, <2>4 DEF Next, Check
<1>2. IInv /\ [Next]_vars => [Honest]_vars BY <1>1
<1> QED BY <1>2, InvariantHolds, PTL DEF Spec, RetryAfterHonest
=============================================================================
