------------------------------ MODULE RowScope ------------------------------
(***************************************************************************)
(* Row-level security and the connections it rests on: db/rls.py's         *)
(* customer_scope, the pool of db/session.py's engine, tools/scope.py's    *)
(* chokepoint, and the policies of the two migrations that enable RLS.     *)
(*                                                                         *)
(* A connection is taken from the pool, runs the statements of one         *)
(* transaction and goes back.  Inside it a caller may run ANY insert or    *)
(* select: the policies must hold "regardless of what application code     *)
(* does" (tools/scope.py).  Statements of different connections interleave *)
(* and read what is committed when they run.                               *)
(*                                                                         *)
(* A parent row has its owner's customer_id (customers, orders,            *)
(* test_drive_bookings, escalations, conversations); a child row has only  *)
(* its parent's id (order_status_history, conversation_messages).          *)
(***************************************************************************)
EXTENDS Naturals

CONSTANTS
  Customers,
  Connections,   \* backends behind the pool
  RowIds,        \* bound: primary keys the sequences can still hand out
  Nobody         \* no authenticated customer; SQL's NULL for the setting

ASSUME NobodyAssumption == Nobody \notin Customers

VARIABLES
  phase,       \* "pooled", "out", "raw" (statements, no scope), "scoped"
  user,        \* the identity on whose behalf the connection is out
  setting,     \* what app.customer_id reads as, NULLIF applied
  parents, children,         \* committed rows
  newParents, newChildren,   \* rows of each connection's open transaction
  disclosed    \* history: <<u, o>> when a statement run for u returned a row of o

connVars == <<phase, user, setting>>
rowVars == <<parents, children, newParents, newChildren>>
vars == <<connVars, rowVars, disclosed>>

\* `by` is history: the identity whose transaction inserted the row.
Parent == [id : RowIds, owner : Customers, by : Customers \cup {Nobody}]
Child == [id : RowIds, of : RowIds, by : Customers \cup {Nobody}]

Init ==
  /\ phase = [c \in Connections |-> "pooled"]
  /\ user = [c \in Connections |-> Nobody]
  /\ setting = [c \in Connections |-> Nobody]
  /\ parents = {} /\ children = {}
  /\ newParents = [c \in Connections |-> {}]
  /\ newChildren = [c \in Connections |-> {}]
  /\ disclosed = {}

-----------------------------------------------------------------------------
(* The policies.                                                            *)

\* USING and WITH CHECK alike: `customer_id = <setting>` is never true of NULL.
Passes_FailsOpen(owner, scope) == scope = Nobody \/ owner = scope
Passes(owner, scope) == owner = scope

\* A statement sees what is committed and what its own transaction wrote.
VisibleParents(c) == {p \in parents \cup newParents[c] : Passes(p.owner, setting[c])}

\* `<parent>_id IN (SELECT id FROM <parent> WHERE ...)`.
VisibleChildren(c) ==
  {k \in children \cup newChildren[c] : \E p \in VisibleParents(c) : k.of = p.id}

MayInsertChild_ExistingParent(c, of) == \E p \in parents \cup newParents[c] : of = p.id
MayInsertChild(c, of) == \E p \in VisibleParents(c) : of = p.id

-----------------------------------------------------------------------------
UsedIds ==
  {r.id : r \in parents \cup children
          \cup UNION {newParents[c] \cup newChildren[c] : c \in Connections}}

\* engine.connect(), for any caller, authenticated or not.
Connect(c, u) ==
  /\ phase[c] = "pooled"
  /\ phase' = [phase EXCEPT ![c] = "out"]
  /\ user' = [user EXCEPT ![c] = u]
  /\ UNCHANGED <<setting, rowVars, disclosed>>

\* customer_scope: begin, then set_config with is_local.  The chokepoint and
\* the conversation functions come here only with an authenticated customer.
BeginScope(c) ==
  /\ phase[c] = "out"
  /\ user[c] \in Customers
  /\ phase' = [phase EXCEPT ![c] = "scoped"]
  /\ setting' = [setting EXCEPT ![c] = user[c]]
  /\ UNCHANGED <<user, rowVars, disclosed>>

InUse(c) == phase[c] \in {"out", "raw", "scoped"}

\* The first statement without a scope begins a transaction of its own, in
\* which customer_scope can no longer begin.
Run(c) ==
  /\ InUse(c)
  /\ phase' = [phase EXCEPT ![c] = IF @ = "scoped" THEN @ ELSE "raw"]
  /\ UNCHANGED <<user, setting, parents, children>>

OwnersSeen(c) ==
  {p.owner : p \in VisibleParents(c)}
  \cup {p.owner : p \in {q \in parents \cup newParents[c] :
                           \E k \in VisibleChildren(c) : k.of = q.id}}

Select(c) ==
  /\ Run(c)
  /\ disclosed' = disclosed \cup {<<user[c], o>> : o \in OwnersSeen(c)}
  /\ UNCHANGED <<newParents, newChildren>>

InsertParent(c, i, o) ==
  /\ Run(c)
  /\ i \in RowIds \ UsedIds
  /\ Passes(o, setting[c])
  /\ newParents' = [newParents EXCEPT ![c] = @ \cup {[id |-> i, owner |-> o, by |-> user[c]]}]
  /\ UNCHANGED <<newChildren, disclosed>>

InsertChild(c, i, of) ==
  /\ Run(c)
  /\ i \in RowIds \ UsedIds
  /\ MayInsertChild(c, of)
  /\ newChildren' = [newChildren EXCEPT ![c] = @ \cup {[id |-> i, of |-> of, by |-> user[c]]}]
  /\ UNCHANGED <<newParents, disclosed>>

\* What is_local makes of the setting when the transaction ends, either way.
AfterTransaction_SessionLevel(c) == setting[c]
AfterTransaction(c) == Nobody

ToPool(c) ==
  /\ phase' = [phase EXCEPT ![c] = "pooled"]
  /\ user' = [user EXCEPT ![c] = Nobody]
  /\ newParents' = [newParents EXCEPT ![c] = {}]
  /\ newChildren' = [newChildren EXCEPT ![c] = {}]
  /\ UNCHANGED disclosed

\* The with block is left normally: commit, then the connection is returned.
Commit(c) ==
  /\ phase[c] = "scoped"
  /\ parents' = parents \cup newParents[c]
  /\ children' = children \cup newChildren[c]
  /\ setting' = [setting EXCEPT ![c] = AfterTransaction(c)]
  /\ ToPool(c)

\* An exception leaves the block (a policy's refusal is one), or a connection
\* without customer_scope is closed: rolled back and returned.
Rollback(c) ==
  /\ InUse(c)
  /\ setting' = [setting EXCEPT ![c] = AfterTransaction(c)]
  /\ ToPool(c)
  /\ UNCHANGED <<parents, children>>

\* The process or the connection dies; pool_pre_ping replaces the backend.
Lost(c) ==
  /\ setting' = [setting EXCEPT ![c] = Nobody]
  /\ ToPool(c)
  /\ UNCHANGED <<parents, children>>

Next == \E c \in Connections :
  \/ \E u \in Customers \cup {Nobody} : Connect(c, u)
  \/ BeginScope(c)
  \/ Select(c)
  \/ \E i \in RowIds, o \in Customers : InsertParent(c, i, o)
  \/ \E i, of \in RowIds : InsertChild(c, i, of)
  \/ Commit(c)
  \/ Rollback(c)
  \/ Lost(c)

Spec == Init /\ [][Next]_vars

-----------------------------------------------------------------------------
\* A scope is in force exactly while its transaction is.
TypeOK ==
  /\ phase \in [Connections -> {"pooled", "out", "raw", "scoped"}]
  /\ user \in [Connections -> Customers \cup {Nobody}]
  /\ setting \in [Connections -> Customers \cup {Nobody}]
  /\ \A c \in Connections :
       setting[c] = IF phase[c] = "scoped" THEN user[c] ELSE Nobody
  /\ parents \in SUBSET Parent /\ children \in SUBSET Child
  /\ newParents \in [Connections -> SUBSET Parent]
  /\ newChildren \in [Connections -> SUBSET Child]
  /\ disclosed \in SUBSET ((Customers \cup {Nobody}) \X Customers)

\* No statement ever returned one customer's row to another customer or to an
\* anonymous caller, whichever connections the pool handed to whom before.
ReadsOwnRows == \A d \in disclosed : d[1] = d[2]

\* No transaction wrote a row that belongs to somebody else, directly or by
\* attaching it to somebody else's parent row.
WritesOwnRows == \A c \in Connections :
  /\ \A p \in parents \cup newParents[c] : p.by = p.owner
  /\ \A k \in children \cup newChildren[c] :
       \E p \in parents \cup newParents[c] : p.id = k.of /\ p.owner = k.by

\* Fail closed: a connection on which customer_scope did not run sees no
\* protected row, and neither does an idle one.
UnscopedSeesNothing == \A c \in Connections :
  phase[c] # "scoped" => VisibleParents(c) = {} /\ VisibleChildren(c) = {}

\* The scope hides nothing of one's own: a scoped transaction sees every row
\* its customer has written, parents and children, and only those.
ScopedSeesOwn == \A c \in Connections : phase[c] = "scoped" =>
  /\ VisibleParents(c) = {p \in parents \cup newParents[c] : p.by = user[c]}
  /\ VisibleChildren(c) = {k \in children \cup newChildren[c] : k.by = user[c]}

\* A connection sees its customer's rows while it is scoped, nothing otherwise,
\* whatever it was used for before.
ScopeExact == UnscopedSeesNothing /\ ScopedSeesOwn
=============================================================================
