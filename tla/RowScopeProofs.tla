---------------------------- MODULE RowScopeProofs ----------------------------
(***************************************************************************)
(* Row isolation for any number of customers, connections and rows, and    *)
(* the chain of migrations that makes and unmakes its guards, for any      *)
(* sequence of invocations.                                                *)
(*                                                                         *)
(* Isolation: a scope is in force exactly inside the transaction that set  *)
(* it, so what passes a policy is the current user's; primary keys name    *)
(* one parent each, so a child reached through a visible parent has no     *)
(* other owner; and a committed child's parent is itself committed, so a   *)
(* rollback never orphans it.                                              *)
(*                                                                         *)
(* Migrations: an upgrade only adds facts to the schema and a downgrade    *)
(* only drops some, so what is left of one, if every statement of it can   *)
(* run where its turn comes, determines the schema it ends with. The       *)
(* invariant ChainInv says both of the open transaction. It rests on one   *)
(* lemma for each migration, which takes it from any schema its revision   *)
(* names to one its next revision names.                                   *)
(***************************************************************************)
EXTENDS RowScope, Migrations, TLAPS

\* All parents some connection can see or commit.
Seen(c) == parents \cup newParents[c]

UniqueParents == \A c, d \in Connections :
  \A p \in Seen(c), q \in Seen(d) : p.id = q.id => p = q

ParentsOwned == \A c \in Connections : \A p \in Seen(c) : p.by = p.owner

Below(k, ps) == \E p \in ps : p.id = k.of /\ p.owner = k.by

ChildrenOwned ==
  /\ \A k \in children : Below(k, parents)
  /\ \A c \in Connections : \A k \in newChildren[c] : Below(k, Seen(c))

IInv == TypeOK /\ UniqueParents /\ ParentsOwned /\ ChildrenOwned /\ ReadsOwnRows

-----------------------------------------------------------------------------
\* What a policy lets pass on a connection belongs to the scoped user.
LEMMA PassesOwner ==
  ASSUME TypeOK, NEW c \in Connections, NEW o \in Customers, Passes(o, setting[c])
  PROVE  phase[c] = "scoped" /\ o = user[c]
BY NobodyAssumption DEF TypeOK, Passes

LEMMA SeenTyped ==
  ASSUME TypeOK, NEW c \in Connections
  PROVE  Seen(c) \subseteq Parent
BY DEF TypeOK, Seen

\* Every visible parent is the scoped user's.
LEMMA VisibleOwned ==
  ASSUME TypeOK, NEW c \in Connections, NEW p \in VisibleParents(c)
  PROVE  p \in Seen(c) /\ phase[c] = "scoped" /\ p.owner = user[c]
<1>1. p \in Seen(c) /\ Passes(p.owner, setting[c])
  BY DEF VisibleParents, Seen
<1>2. p.owner \in Customers
  BY <1>1, SeenTyped DEF Parent
<1> QED BY <1>1, <1>2, PassesOwner

\* A select returns the scoped user's rows, parents and children, or none.
LEMMA SelectsOwn ==
  ASSUME IInv, NEW c \in Connections, NEW o \in OwnersSeen(c)
  PROVE  o = user[c] /\ o \in Customers
<1>1. CASE \E p \in VisibleParents(c) : o = p.owner
  <2>1. PICK p \in VisibleParents(c) : o = p.owner
    BY <1>1
  <2>2. p \in Seen(c) /\ o = user[c]
    BY <2>1, VisibleOwned DEF IInv
  <2> QED BY <2>1, <2>2, SeenTyped DEF IInv, Parent
<1>2. CASE \E q \in Seen(c) : o = q.owner /\ \E k \in VisibleChildren(c) : k.of = q.id
  <2>1. PICK q \in Seen(c), k \in VisibleChildren(c) : o = q.owner /\ k.of = q.id
    BY <1>2
  <2>2. PICK p \in VisibleParents(c) : k.of = p.id
    BY <2>1 DEF VisibleChildren
  <2>3. p \in Seen(c) /\ p.owner = user[c]
    BY <2>2, VisibleOwned DEF IInv
  <2>4. q = p
    BY <2>1, <2>2, <2>3 DEF IInv, UniqueParents
  <2> QED BY <2>1, <2>3, <2>4, SeenTyped DEF IInv, Parent
<1> QED BY <1>1, <1>2 DEF OwnersSeen, Seen

-----------------------------------------------------------------------------
LEMMA InitInvariant == Init => IInv
BY DEF Init, IInv, TypeOK, UniqueParents, ParentsOwned, ChildrenOwned, ReadsOwnRows,
       Seen, Below, Parent, Child

\* Connections go back to the pool with their own new rows dropped.
LEMMA RollsBack ==
  ASSUME IInv, NEW c \in Connections, ToPool(c), UNCHANGED <<parents, children>>,
         setting' = [setting EXCEPT ![c] = Nobody]
  PROVE  IInv'
<1>1. TypeOK'
  BY DEF IInv, TypeOK, ToPool
<1>2. \A d \in Connections : Seen(d)' \subseteq Seen(d) /\ newChildren'[d] \subseteq newChildren[d]
  BY DEF IInv, TypeOK, ToPool, Seen
<1>3. \A d \in Connections : d # c => Seen(d)' = Seen(d)
  BY DEF IInv, TypeOK, ToPool, Seen
<1>4. UniqueParents'
  BY <1>2 DEF IInv, UniqueParents
<1>5. ParentsOwned'
  BY <1>2 DEF IInv, ParentsOwned
<1>6. ChildrenOwned'
  <2>1. \A k \in children' : Below(k, parents')
    BY DEF IInv, ChildrenOwned
  <2>2. ASSUME NEW d \in Connections, NEW k \in newChildren'[d]
        PROVE  Below(k, Seen(d)')
    <3>1. d # c /\ k \in newChildren[d]
      BY <2>2 DEF IInv, TypeOK, ToPool
    <3> QED BY <3>1, <1>3 DEF IInv, ChildrenOwned
  <2> QED BY <2>1, <2>2 DEF ChildrenOwned, Below, Seen
<1>7. ReadsOwnRows'
  BY DEF IInv, ReadsOwnRows, ToPool
<1> QED BY <1>1, <1>4, <1>5, <1>6, <1>7 DEF IInv


\* A commit moves the new rows of one connection to the committed ones.
LEMMA Commits ==
  ASSUME IInv, NEW c \in Connections, Commit(c)
  PROVE  IInv'
<1> USE DEF Commit, AfterTransaction
<1>1. TypeOK'
  BY DEF IInv, TypeOK, ToPool
<1>2. \A d \in Connections : Seen(d)' \subseteq Seen(d) \cup Seen(c)
  BY DEF IInv, TypeOK, ToPool, Seen
<1>3. UniqueParents'
  <2> SUFFICES ASSUME NEW d \in Connections, NEW e \in Connections,
                      NEW p \in Seen(d)', NEW q \in Seen(e)', p.id = q.id
               PROVE  p = q
    BY DEF UniqueParents
  <2> QED BY <1>2 DEF IInv, UniqueParents
<1>4. ParentsOwned'
  BY <1>2 DEF IInv, ParentsOwned
<1>5. ChildrenOwned'
  <2>1. \A k \in children' : Below(k, parents')
    BY DEF IInv, ChildrenOwned, Below, Seen
  <2>2. ASSUME NEW d \in Connections, NEW k \in newChildren'[d]
        PROVE  Below(k, Seen(d)')
    <3>1. d # c /\ k \in newChildren[d]
      BY <2>2 DEF IInv, TypeOK, ToPool
    <3>2. Seen(d) \subseteq Seen(d)'
      BY <3>1 DEF IInv, TypeOK, ToPool, Seen
    <3> QED BY <3>1, <3>2 DEF IInv, ChildrenOwned, Below
  <2> QED BY <2>1, <2>2 DEF ChildrenOwned, Below, Seen
<1>6. ReadsOwnRows'
  BY DEF IInv, ReadsOwnRows, ToPool
<1> QED BY <1>1, <1>3, <1>4, <1>5, <1>6 DEF IInv

\* A new parent has an unused key and passed WITH CHECK: it is the user's.
LEMMA InsertsParent ==
  ASSUME IInv, NEW c \in Connections, NEW i \in RowIds, NEW o \in Customers,
         InsertParent(c, i, o)
  PROVE  IInv'
<1> DEFINE new == [id |-> i, owner |-> o, by |-> user[c]]
<1>1. phase[c] = "scoped" /\ o = user[c]
  BY PassesOwner DEF InsertParent, IInv
<1>2. new \in Parent
  BY DEF IInv, TypeOK, Parent
<1>3. TypeOK'
  BY <1>1, <1>2 DEF IInv, TypeOK, InsertParent, Run
<1>4. \A d \in Connections : Seen(d)' = IF d = c THEN Seen(d) \cup {new} ELSE Seen(d)
  BY DEF IInv, TypeOK, InsertParent, Run, Seen
<1>5. \A d \in Connections : \A p \in Seen(d) : p.id # i
  BY DEF InsertParent, UsedIds, Seen
<1>6. UniqueParents'
  <2> SUFFICES ASSUME NEW d \in Connections, NEW e \in Connections,
                      NEW p \in Seen(d)', NEW q \in Seen(e)', p.id = q.id
               PROVE  p = q
    BY DEF UniqueParents
  <2>1. (p \in Seen(d) \/ p = new) /\ (q \in Seen(e) \/ q = new)
    BY <1>4
  <2>2. CASE p \in Seen(d) /\ q \in Seen(e)
    BY <2>2 DEF IInv, UniqueParents
  <2>3. CASE p = new \/ q = new
    BY <2>1, <2>3, <1>5
  <2> QED BY <2>1, <2>2, <2>3
<1>7. ParentsOwned'
  BY <1>1, <1>4 DEF IInv, ParentsOwned
<1>8. ChildrenOwned'
  BY <1>4 DEF IInv, ChildrenOwned, Below, InsertParent, Run
<1>9. ReadsOwnRows'
  BY DEF IInv, ReadsOwnRows, InsertParent
<1> QED BY <1>3, <1>6, <1>7, <1>8, <1>9 DEF IInv

\* A new child hangs below a parent that passed WITH CHECK.
LEMMA InsertsChild ==
  ASSUME IInv, NEW c \in Connections, NEW i \in RowIds, NEW of \in RowIds,
         InsertChild(c, i, of)
  PROVE  IInv'
<1> DEFINE new == [id |-> i, of |-> of, by |-> user[c]]
<1>1. PICK p \in VisibleParents(c) : of = p.id
  BY DEF InsertChild, MayInsertChild
<1>2. p \in Seen(c) /\ phase[c] = "scoped" /\ p.owner = user[c]
  BY <1>1, VisibleOwned DEF IInv
<1>3. new \in Child
  BY DEF IInv, TypeOK, Child
<1>4. TypeOK'
  BY <1>2, <1>3 DEF IInv, TypeOK, InsertChild, Run
<1>5. \A d \in Connections : Seen(d)' = Seen(d)
  BY DEF InsertChild, Run, Seen
<1>6. UniqueParents' /\ ParentsOwned'
  BY <1>5 DEF IInv, UniqueParents, ParentsOwned
<1>7. ChildrenOwned'
  <2>1. \A k \in children' : Below(k, parents')
    BY DEF IInv, ChildrenOwned, InsertChild, Run
  <2>2. ASSUME NEW d \in Connections, NEW k \in newChildren'[d]
        PROVE  Below(k, Seen(d)')
    <3>1. k \in newChildren[d] \/ (d = c /\ k = new)
      BY <2>2 DEF IInv, TypeOK, InsertChild
    <3>2. Below(new, Seen(c))
      BY <1>1, <1>2 DEF Below
    <3> QED BY <3>1, <3>2, <1>5 DEF IInv, ChildrenOwned
  <2> QED BY <2>1, <2>2 DEF ChildrenOwned, Below, Seen
<1>8. ReadsOwnRows'
  BY DEF IInv, ReadsOwnRows, InsertChild
<1> QED BY <1>4, <1>6, <1>7, <1>8 DEF IInv

\* Every step keeps the invariant.
LEMMA Inductive == IInv /\ [Next]_vars => IInv'
<1> SUFFICES ASSUME IInv, [Next]_vars PROVE IInv'
  OBVIOUS
<1> DEFINE Rows == UniqueParents /\ ParentsOwned /\ ChildrenOwned
<1>1. ASSUME UNCHANGED rowVars, TypeOK', ReadsOwnRows' PROVE IInv'
  BY <1>1 DEF IInv, rowVars, UniqueParents, ParentsOwned, ChildrenOwned, Seen, Below
<1>2. CASE UNCHANGED vars
  BY <1>1, <1>2 DEF vars, connVars, rowVars, IInv, TypeOK, ReadsOwnRows
<1>3. ASSUME NEW c \in Connections, NEW u \in Customers \cup {Nobody}, Connect(c, u)
      PROVE  IInv'
  <2>1. TypeOK' /\ ReadsOwnRows'
    BY <1>3 DEF IInv, TypeOK, ReadsOwnRows, Connect, rowVars
  <2> QED BY <1>1, <1>3, <2>1 DEF Connect
<1>4. ASSUME NEW c \in Connections, BeginScope(c) PROVE IInv'
  <2>1. TypeOK' /\ ReadsOwnRows'
    BY <1>4 DEF IInv, TypeOK, ReadsOwnRows, BeginScope, rowVars
  <2> QED BY <1>1, <1>4, <2>1 DEF BeginScope
<1>5. ASSUME NEW c \in Connections, Select(c) PROVE IInv'
  <2>1. \A o \in OwnersSeen(c) : o = user[c] /\ o \in Customers
    BY SelectsOwn
  <2>2. ReadsOwnRows'
    BY <1>5, <2>1 DEF IInv, ReadsOwnRows, Select
  <2>3. disclosed' \in SUBSET ((Customers \cup {Nobody}) \X Customers)
    BY <1>5, <2>1 DEF IInv, TypeOK, Select
  <2>4. TypeOK'
    BY <1>5, <2>3 DEF IInv, TypeOK, Select, Run, InUse
  <2> QED BY <1>1, <1>5, <2>2, <2>4 DEF Select, Run, rowVars
<1>6. ASSUME NEW c \in Connections, Rollback(c) PROVE IInv'
  BY <1>6, RollsBack DEF Rollback, AfterTransaction
<1>7. ASSUME NEW c \in Connections, Lost(c) PROVE IInv'
  BY <1>7, RollsBack DEF Lost
<1> QED
  BY <1>2, <1>3, <1>4, <1>5, <1>6, <1>7, Commits, InsertsParent, InsertsChild DEF Next

LEMMA Invariance == Spec => []IInv
BY InitInvariant, Inductive, PTL DEF Spec

-----------------------------------------------------------------------------
\* A scope is in force exactly while the transaction that set it runs.
THEOREM ScopeEndsWithTransaction == Spec => []TypeOK
<1>1. IInv => TypeOK
  BY DEF IInv
<1> QED BY <1>1, Invariance, PTL

\* No select of any caller, on any reused connection, returns another
\* customer's row.
THEOREM ReadIsolation == Spec => []ReadsOwnRows
<1>1. IInv => ReadsOwnRows
  BY DEF IInv
<1> QED BY <1>1, Invariance, PTL

\* No insert of any caller creates or attaches a row that is not its own.
THEOREM WriteIsolation == Spec => []WritesOwnRows
<1>1. IInv => WritesOwnRows
  BY DEF IInv, ParentsOwned, ChildrenOwned, Below, Seen, WritesOwnRows
<1> QED BY <1>1, Invariance, PTL

\* A connection without a scope sees nothing.
THEOREM FailsClosed == Spec => []UnscopedSeesNothing
<1>1. IInv => UnscopedSeesNothing
  <2> SUFFICES ASSUME IInv, NEW c \in Connections, phase[c] # "scoped"
               PROVE  VisibleParents(c) = {} /\ VisibleChildren(c) = {}
    BY DEF UnscopedSeesNothing
  <2>1. VisibleParents(c) = {}
    BY VisibleOwned DEF IInv
  <2> QED BY <2>1 DEF VisibleChildren
<1> QED BY <1>1, Invariance, PTL

\* A scope hides nothing that its customer wrote.
THEOREM ScopeComplete == Spec => []ScopedSeesOwn
<1>1. IInv => ScopedSeesOwn
  <2> SUFFICES ASSUME IInv, NEW c \in Connections, phase[c] = "scoped"
               PROVE  /\ VisibleParents(c) = {p \in Seen(c) : p.by = user[c]}
                      /\ VisibleChildren(c) =
                           {k \in children \cup newChildren[c] : k.by = user[c]}
    BY DEF ScopedSeesOwn, Seen
  <2>1. setting[c] = user[c]
    BY DEF IInv, TypeOK
  <2>2. VisibleParents(c) = {p \in Seen(c) : p.by = user[c]}
    BY <2>1 DEF IInv, ParentsOwned, VisibleParents, Seen, Passes
  <2>3. ASSUME NEW k \in children \cup newChildren[c]
        PROVE  (\E p \in VisibleParents(c) : k.of = p.id) <=> k.by = user[c]
    <3>1. PICK q \in Seen(c) : q.id = k.of /\ q.owner = k.by
      BY <2>3 DEF IInv, ChildrenOwned, Below, Seen
    <3>2. q.by = q.owner
      BY <3>1 DEF IInv, ParentsOwned
    <3>3. ASSUME NEW p \in VisibleParents(c), k.of = p.id PROVE k.by = user[c]
      <4>1. p \in Seen(c) /\ p.by = user[c]
        BY <2>2, <3>3
      <4>2. p = q
        BY <3>1, <3>3, <4>1 DEF IInv, UniqueParents
      <4> QED BY <3>1, <3>2, <4>1, <4>2
    <3>4. k.by = user[c] => q \in VisibleParents(c)
      BY <2>2, <3>1, <3>2
    <3> QED BY <3>1, <3>3, <3>4
  <2> QED BY <2>2, <2>3 DEF VisibleChildren
<1> QED BY <1>1, Invariance, PTL

\* Both together: what a connection sees is its customer's, all of it, or nothing.
THEOREM ScopeIsExact == Spec => []ScopeExact
BY FailsClosed, ScopeComplete, PTL DEF ScopeExact

-----------------------------------------------------------------------------
\* Rows of sets and lists of statements.

\* A finite sequence, whatever it is of.
IsList(m) == \E S : m \in Seq(S)

\* What a statement adds in a migration after which the database is at r: of
\* the sequences, those of the tables there are then.
Gives(st, r) == {f \in st.adds : f[1] = "sequence" => <<"table", f[2]>> \in Canonical(r)}
Gains(m, r) == [j \in DOMAIN m |-> Gives(m[j], r)]
Drops(m) == [j \in DOMAIN m |-> m[j].drops]

\* The union of the first n of a row of sets.
Together(row, n) == UNION {row[j] : j \in 1 .. n}
Given(m, r) == Together(Gains(m, r), Len(m))
GivenBefore(m, i, r) == Together(Gains(m, r), i - 1)
Taken(m) == Together(Drops(m), Len(m))
TakenBefore(m, i) == Together(Drops(m), i - 1)

\* k is the i-th place after the first n.
Place(k, n, i) == k = n + i

\* z is x and then y, as far as n and p.
Joins(z, x, n, y, p) == (\A j \in 1 .. n : z[j] = x[j]) /\ \A j \in 1 .. p : z[n + j] = y[j]

\* A statement that can run on a schema, or lacks a setting.
Runs(st, s) ==
  /\ st.needs \subseteq s \/ st.needs \subseteq Settings
  /\ st.forbids \cap (s \cup Settings) = {}

\* Statements that run one after the other on s and only add, those of upgrades.
Grows(s, m, r) == \A i \in DOMAIN m :
  /\ m[i].drops = {}
  /\ Runs(m[i], s \cup GivenBefore(m, i, r))
  /\ \A f \in m[i].adds : f[1] = "sequence" =>
       (<<"table", f[2]>> \in s \cup GivenBefore(m, i, r) <=> <<"table", f[2]>> \in Canonical(r))

\* The same for statements that only drop, those of downgrades.
Shrinks(s, m) == \A i \in DOMAIN m :
  m[i].adds = {} /\ Runs(m[i], s \ TakenBefore(m, i))

\* The places of a list.
LEMMA ListDomain ==
  ASSUME NEW m, IsList(m)
  PROVE  Len(m) \in Nat /\ DOMAIN m = 1 .. Len(m)
BY DEF IsList

\* The places of two lists put together.
LEMMA ListBoth ==
  ASSUME NEW a, NEW b, IsList(a), IsList(b)
  PROVE  /\ IsList(a \o b)
         /\ DOMAIN (a \o b) = 1 .. Len(a) + Len(b) /\ Len(a \o b) = Len(a) + Len(b)
         /\ \A i \in DOMAIN a : (a \o b)[i] = a[i] /\ i \in DOMAIN (a \o b)
         /\ \A i \in DOMAIN b : (a \o b)[Len(a) + i] = b[i] /\ Len(a) + i \in DOMAIN (a \o b)
         /\ \A k \in DOMAIN (a \o b) : k \in DOMAIN a \/ k - Len(a) \in DOMAIN b
<1> PICK A, B : a \in Seq(A) /\ b \in Seq(B)
  BY DEF IsList
<1> DEFINE S == A \cup B
<1>1. a \in Seq(S) /\ b \in Seq(S)
  OBVIOUS
<1> DEFINE c == a \o b
<1>2. c \in Seq(S) /\ Len(c) = Len(a) + Len(b) /\ DOMAIN c = 1 .. Len(a) + Len(b)
  BY <1>1
<1>3. IsList(c)
  BY <1>2 DEF IsList
<1> QED BY <1>1, <1>2, <1>3

\* Two rows of sets, one after the other.
LEMMA TogetherFirst ==
  ASSUME NEW n \in Nat, NEW p \in Nat, NEW x, NEW y, NEW z, Joins(z, x, n, y, p), NEW i \in 0 .. n
  PROVE  Together(z, i) = Together(x, i)
<1>1. \A j \in 1 .. i : z[j] = x[j]
  BY DEF Joins
<1> QED BY <1>1 DEF Together

\* The same past the first row's end.
LEMMA TogetherBoth ==
  ASSUME NEW n \in Nat, NEW p \in Nat, NEW x, NEW y, NEW z, Joins(z, x, n, y, p),
         NEW i \in 0 .. p, NEW k \in Nat, Place(k, n, i)
  PROVE  Together(z, k) = Together(x, n) \cup Together(y, i)
<1>1. /\ k = n + i
      /\ \A j \in 1 .. n : z[j] = x[j]
      /\ \A j \in 1 .. p : z[n + j] = y[j]
  BY DEF Place, Joins
<1>2. ASSUME NEW l \in 1 .. k, NEW f \in z[l]
      PROVE  f \in Together(x, n) \cup Together(y, i)
  <2>1. CASE l \in 1 .. n
    BY <1>1, <1>2, <2>1 DEF Together
  <2>2. CASE l \notin 1 .. n
    <3>1. l - n \in 1 .. i /\ l - n \in 1 .. p /\ n + (l - n) = l
      BY <1>1, <2>2
    <3>2. f \in y[l - n]
      BY <1>1, <1>2, <3>1
    <3> QED BY <3>1, <3>2 DEF Together
  <2> QED BY <2>1, <2>2
<1>3. ASSUME NEW j \in 1 .. n PROVE j \in 1 .. k /\ x[j] = z[j]
  BY <1>1
<1>4. ASSUME NEW j \in 1 .. i PROVE \E l \in 1 .. k : y[j] = z[l]
  <2>1. n + j \in 1 .. k /\ j \in 1 .. p
    BY <1>1
  <2> QED BY <1>1, <2>1
<1>5. Together(x, n) \subseteq Together(z, k)
  BY <1>3 DEF Together
<1>6. Together(y, i) \subseteq Together(z, k)
  BY <1>4 DEF Together
<1>7. Together(z, k) \subseteq Together(x, n) \cup Together(y, i)
  BY <1>2 DEF Together
<1> QED BY <1>5, <1>6, <1>7

\* What two lists of statements add, one after the other.
LEMMA GivenBoth ==
  ASSUME NEW a, NEW b, NEW r, IsList(a), IsList(b)
  PROVE  /\ Given(a \o b, r) = Given(a, r) \cup Given(b, r)
         /\ \A i \in DOMAIN a : GivenBefore(a \o b, i, r) = GivenBefore(a, i, r)
<1>1. PICK n, p, c : n \in Nat /\ p \in Nat /\ n = Len(a) /\ p = Len(b) /\ c = a \o b /\ Len(c) = n + p
  <2>1. Len(a) \in Nat /\ Len(b) \in Nat /\ Len(a \o b) = Len(a) + Len(b)
    BY ListDomain, ListBoth
  <2> QED BY <2>1
<1> n \in Nat /\ p \in Nat
  BY <1>1
<1>2. /\ DOMAIN a = 1 .. n /\ DOMAIN b = 1 .. p /\ DOMAIN c = 1 .. n + p
      /\ \A j \in 1 .. n : c[j] = a[j] /\ j \in 1 .. n + p
      /\ \A j \in 1 .. p : c[n + j] = b[j] /\ n + j \in 1 .. n + p
  BY <1>1, ListBoth, ListDomain
<1>3. n \in Nat /\ p \in Nat
  BY <1>1
<1>4. PICK x, y, z : x = Gains(a, r) /\ y = Gains(b, r) /\ z = Gains(c, r)
  OBVIOUS
<1>5. Joins(z, x, n, y, p)
  BY <1>2, <1>4 DEF Gains, Joins
<1>6. Together(z, n + p) = Together(x, n) \cup Together(y, p)
  <2>1. PICK q \in Nat : Place(q, n, p) /\ p \in 0 .. p
    BY <1>3 DEF Place
  <2>2. Together(z, q) = Together(x, n) \cup Together(y, p)
    BY <1>3, <1>5, <2>1, TogetherBoth
  <2> QED BY <2>1, <2>2 DEF Place
<1>7. Given(c, r) = Given(a, r) \cup Given(b, r)
  BY <1>1, <1>4, <1>6 DEF Given
<1>8. ASSUME NEW i \in 1 .. n PROVE GivenBefore(c, i, r) = GivenBefore(a, i, r)
  <2>1. PICK h \in 0 .. n : h = i - 1
    BY <1>1
  <2>2. Together(z, h) = Together(x, h)
    BY <1>3, <1>5, TogetherFirst
  <2> QED BY <1>4, <2>1, <2>2 DEF GivenBefore
<1> QED BY <1>1, <1>2, <1>7, <1>8

\* The same for what comes before a place of the second list.
LEMMA GivenLater ==
  ASSUME NEW a, NEW b, NEW r, IsList(a), IsList(b), NEW i \in DOMAIN b, NEW k \in Nat, Place(k, Len(a), i)
  PROVE  GivenBefore(a \o b, k, r) = Given(a, r) \cup GivenBefore(b, i, r)
<1>1. PICK n, p, c : n \in Nat /\ p \in Nat /\ n = Len(a) /\ p = Len(b) /\ c = a \o b /\ Len(c) = n + p
  <2>1. Len(a) \in Nat /\ Len(b) \in Nat /\ Len(a \o b) = Len(a) + Len(b)
    BY ListDomain, ListBoth
  <2> QED BY <2>1
<1> n \in Nat /\ p \in Nat
  BY <1>1
<1>2. /\ DOMAIN a = 1 .. n /\ DOMAIN b = 1 .. p /\ DOMAIN c = 1 .. n + p
      /\ \A j \in 1 .. n : c[j] = a[j] /\ j \in 1 .. n + p
      /\ \A j \in 1 .. p : c[n + j] = b[j] /\ n + j \in 1 .. n + p
  BY <1>1, ListBoth, ListDomain
<1>3. n \in Nat /\ p \in Nat
  BY <1>1
<1>4. PICK x, y, z : x = Gains(a, r) /\ y = Gains(b, r) /\ z = Gains(c, r)
  OBVIOUS
<1>5. Joins(z, x, n, y, p)
  BY <1>2, <1>4 DEF Gains, Joins
<1>6. PICK h \in 0 .. p, l \in Nat : h = i - 1 /\ l = k - 1 /\ Place(l, n, h)
  <2>1. i - 1 \in 0 .. p /\ k - 1 \in Nat /\ k - 1 = n + (i - 1)
    BY <1>1, <1>2 DEF Place
  <2> QED BY <2>1 DEF Place
<1>7. Together(z, l) = Together(x, n) \cup Together(y, h)
  <2>1. Place(l, n, h)
    BY <1>6
  <2> QED BY <1>3, <1>5, <2>1, TogetherBoth
<1> QED BY <1>1, <1>4, <1>6, <1>7 DEF Given, GivenBefore

\* What two lists drop, together and before a place of the first.
LEMMA TakenBoth ==
  ASSUME NEW a, NEW b, IsList(a), IsList(b)
  PROVE  /\ Taken(a \o b) = Taken(a) \cup Taken(b)
         /\ \A i \in DOMAIN a : TakenBefore(a \o b, i) = TakenBefore(a, i)
<1>1. PICK n, p, c : n \in Nat /\ p \in Nat /\ n = Len(a) /\ p = Len(b) /\ c = a \o b /\ Len(c) = n + p
  <2>1. Len(a) \in Nat /\ Len(b) \in Nat /\ Len(a \o b) = Len(a) + Len(b)
    BY ListDomain, ListBoth
  <2> QED BY <2>1
<1> n \in Nat /\ p \in Nat
  BY <1>1
<1>2. /\ DOMAIN a = 1 .. n /\ DOMAIN b = 1 .. p /\ DOMAIN c = 1 .. n + p
      /\ \A j \in 1 .. n : c[j] = a[j] /\ j \in 1 .. n + p
      /\ \A j \in 1 .. p : c[n + j] = b[j] /\ n + j \in 1 .. n + p
  BY <1>1, ListBoth, ListDomain
<1>3. n \in Nat /\ p \in Nat
  BY <1>1
<1>4. PICK x, y, z : x = Drops(a) /\ y = Drops(b) /\ z = Drops(c)
  OBVIOUS
<1>5. Joins(z, x, n, y, p)
  BY <1>2, <1>4 DEF Drops, Joins
<1>6. Together(z, n + p) = Together(x, n) \cup Together(y, p)
  <2>1. PICK q \in Nat : Place(q, n, p) /\ p \in 0 .. p
    BY <1>3 DEF Place
  <2>2. Together(z, q) = Together(x, n) \cup Together(y, p)
    BY <1>3, <1>5, <2>1, TogetherBoth
  <2> QED BY <2>1, <2>2 DEF Place
<1>7. Taken(c) = Taken(a) \cup Taken(b)
  BY <1>1, <1>4, <1>6 DEF Taken
<1>8. ASSUME NEW i \in 1 .. n PROVE TakenBefore(c, i) = TakenBefore(a, i)
  <2>1. PICK h \in 0 .. n : h = i - 1
    BY <1>1
  <2>2. Together(z, h) = Together(x, h)
    BY <1>3, <1>5, TogetherFirst
  <2> QED BY <1>4, <2>1, <2>2 DEF TakenBefore
<1> QED BY <1>1, <1>2, <1>7, <1>8

\* The same before a place of the second.
LEMMA TakenLater ==
  ASSUME NEW a, NEW b, IsList(a), IsList(b), NEW i \in DOMAIN b, NEW k \in Nat, Place(k, Len(a), i)
  PROVE  TakenBefore(a \o b, k) = Taken(a) \cup TakenBefore(b, i)
<1>1. PICK n, p, c : n \in Nat /\ p \in Nat /\ n = Len(a) /\ p = Len(b) /\ c = a \o b /\ Len(c) = n + p
  <2>1. Len(a) \in Nat /\ Len(b) \in Nat /\ Len(a \o b) = Len(a) + Len(b)
    BY ListDomain, ListBoth
  <2> QED BY <2>1
<1> n \in Nat /\ p \in Nat
  BY <1>1
<1>2. /\ DOMAIN a = 1 .. n /\ DOMAIN b = 1 .. p /\ DOMAIN c = 1 .. n + p
      /\ \A j \in 1 .. n : c[j] = a[j] /\ j \in 1 .. n + p
      /\ \A j \in 1 .. p : c[n + j] = b[j] /\ n + j \in 1 .. n + p
  BY <1>1, ListBoth, ListDomain
<1>3. n \in Nat /\ p \in Nat
  BY <1>1
<1>4. PICK x, y, z : x = Drops(a) /\ y = Drops(b) /\ z = Drops(c)
  OBVIOUS
<1>5. Joins(z, x, n, y, p)
  BY <1>2, <1>4 DEF Drops, Joins
<1>6. PICK h \in 0 .. p, l \in Nat : h = i - 1 /\ l = k - 1 /\ Place(l, n, h)
  <2>1. i - 1 \in 0 .. p /\ k - 1 \in Nat /\ k - 1 = n + (i - 1)
    BY <1>1, <1>2 DEF Place
  <2> QED BY <2>1 DEF Place
<1>7. Together(z, l) = Together(x, n) \cup Together(y, h)
  <2>1. Place(l, n, h)
    BY <1>6
  <2> QED BY <1>3, <1>5, <2>1, TogetherBoth
<1> QED BY <1>1, <1>4, <1>6, <1>7 DEF Taken, TakenBefore

\* A list is its first statement and the others.
LEMMA HeadTail ==
  ASSUME NEW m, IsList(m), m # << >>
  PROVE  /\ IsList(<<Head(m)>>) /\ IsList(Tail(m)) /\ m = <<Head(m)>> \o Tail(m)
         /\ Len(<<Head(m)>>) = 1 /\ 1 \in DOMAIN m /\ Head(m) = m[1]
         /\ \A i \in DOMAIN Tail(m) : i + 1 \in DOMAIN m /\ Tail(m)[i] = m[i + 1]
<1> PICK S : m \in Seq(S)
  BY DEF IsList
<1>1. Head(m) \in S /\ Tail(m) \in Seq(S) /\ <<Head(m)>> \in Seq(S)
  OBVIOUS
<1>2. m = <<Head(m)>> \o Tail(m)
  BY <1>1
<1> QED BY <1>1, <1>2 DEF IsList

\* A list of one statement.
LEMMA OneStatement ==
  ASSUME NEW st, NEW r
  PROVE  /\ IsList(<<st>>) /\ DOMAIN <<st>> = 1 .. 1 /\ <<st>>[1] = st
         /\ Given(<<st>>, r) = Gives(st, r) /\ Taken(<<st>>) = st.drops
<1>1. PICK e : e = <<st>>
  OBVIOUS
<1>2. Len(e) = 1 /\ DOMAIN e = 1 .. 1 /\ e[1] = st
  BY <1>1
<1>3. IsList(<<st>>)
  <2>1. <<st>> \in Seq({st})
    OBVIOUS
  <2> QED BY <2>1 DEF IsList
<1>4. Gains(e, r)[1] = Gives(st, r) /\ Drops(e)[1] = st.drops
  BY <1>2 DEF Gains, Drops
<1>5. Given(e, r) = Gives(st, r) /\ Taken(e) = st.drops
  <2>1. \A row : Together(row, 1) = row[1]
    BY DEF Together
  <2> QED BY <1>2, <1>4, <2>1 DEF Given, Taken
<1> QED BY <1>1, <1>2, <1>3, <1>5

\* Nothing comes before the first statement.
LEMMA NothingBefore ==
  ASSUME NEW m, NEW r
  PROVE  GivenBefore(m, 1, r) = {} /\ TakenBefore(m, 1) = {}
<1>1. \A row : Together(row, 0) = {}
  BY DEF Together
<1> QED BY <1>1 DEF GivenBefore, TakenBefore

\* Running the first statement keeps the rest runnable and the outcome the same.
LEMMA GrowsOn ==
  ASSUME NEW s, NEW m, NEW r, IsList(m), m # << >>, Grows(s, m, r)
  PROVE  LET after == Effect(Head(m), s) IN
         /\ Grows(after, Tail(m), r)
         /\ after \cup Given(Tail(m), r) = s \cup Given(m, r)
<1>1. PICK h, t : h = Head(m) /\ t = Tail(m)
  OBVIOUS
<1>2. /\ IsList(<<h>>) /\ IsList(t) /\ m = <<h>> \o t /\ Len(<<h>>) = 1 /\ 1 \in DOMAIN m /\ h = m[1]
      /\ \A i \in DOMAIN t : i \in Nat /\ i + 1 \in DOMAIN m /\ t[i] = m[i + 1]
  BY <1>1, HeadTail, ListDomain
<1>3. /\ Given(m, r) = Gives(h, r) \cup Given(t, r)
      /\ \A i \in DOMAIN t : GivenBefore(m, i + 1, r) = Gives(h, r) \cup GivenBefore(t, i, r)
  <2>1. PICK e : e = <<h>> /\ IsList(e) /\ Given(e, r) = Gives(h, r) /\ Len(e) = 1 /\ m = e \o t
    BY <1>2, OneStatement
  <2>2. Given(e \o t, r) = Given(e, r) \cup Given(t, r)
    BY <1>2, <2>1, GivenBoth
  <2>3. ASSUME NEW i \in DOMAIN t PROVE GivenBefore(e \o t, i + 1, r) = Given(e, r) \cup GivenBefore(t, i, r)
    <3>1. PICK k \in Nat : k = i + 1 /\ Place(k, Len(e), i)
      BY <1>2, <2>1 DEF Place
    <3>2. GivenBefore(e \o t, k, r) = Given(e, r) \cup GivenBefore(t, i, r)
      <4>1. IsList(e) /\ IsList(t) /\ Place(k, Len(e), i)
        BY <1>2, <2>1, <3>1
      <4> QED BY <4>1, GivenLater
    <3> QED BY <3>1, <3>2
  <2> QED BY <2>1, <2>2, <2>3
<1>4. PICK after : after = Effect(h, s)
  OBVIOUS
<1>5. after = s \cup Gives(h, r)
  <2>1. s \cup GivenBefore(m, 1, r) = s
    BY NothingBefore
  <2>2. /\ h.drops = {}
        /\ \A f \in h.adds : f[1] = "sequence" =>
             (<<"table", f[2]>> \in s <=> <<"table", f[2]>> \in Canonical(r))
    BY <1>2, <2>1 DEF Grows
  <2> QED BY <1>4, <2>2 DEF Effect, Gives
<1>6. \A i \in DOMAIN t : after \cup GivenBefore(t, i, r) = s \cup GivenBefore(m, i + 1, r)
  BY <1>3, <1>5
<1>7. Grows(after, t, r)
  BY <1>2, <1>6 DEF Grows
<1>8. after \cup Given(t, r) = s \cup Given(m, r)
  BY <1>3, <1>5
<1> QED BY <1>1, <1>4, <1>7, <1>8

\* The same for statements that drop.
LEMMA ShrinksOn ==
  ASSUME NEW s, NEW m, IsList(m), m # << >>, Shrinks(s, m)
  PROVE  LET after == Effect(Head(m), s) IN
         /\ Shrinks(after, Tail(m))
         /\ after \ Taken(Tail(m)) = s \ Taken(m)
<1>1. PICK h, t : h = Head(m) /\ t = Tail(m)
  OBVIOUS
<1>2. /\ IsList(<<h>>) /\ IsList(t) /\ m = <<h>> \o t /\ Len(<<h>>) = 1 /\ 1 \in DOMAIN m /\ h = m[1]
      /\ \A i \in DOMAIN t : i \in Nat /\ i + 1 \in DOMAIN m /\ t[i] = m[i + 1]
  BY <1>1, HeadTail, ListDomain
<1>3. /\ Taken(m) = h.drops \cup Taken(t)
      /\ \A i \in DOMAIN t : TakenBefore(m, i + 1) = h.drops \cup TakenBefore(t, i)
  <2>1. PICK e : e = <<h>> /\ IsList(e) /\ Taken(e) = h.drops /\ Len(e) = 1 /\ m = e \o t
    BY <1>2, OneStatement
  <2>2. Taken(e \o t) = Taken(e) \cup Taken(t)
    BY <1>2, <2>1, TakenBoth
  <2>3. ASSUME NEW i \in DOMAIN t PROVE TakenBefore(e \o t, i + 1) = Taken(e) \cup TakenBefore(t, i)
    <3>1. PICK k \in Nat : k = i + 1 /\ Place(k, Len(e), i)
      BY <1>2, <2>1 DEF Place
    <3>2. TakenBefore(e \o t, k) = Taken(e) \cup TakenBefore(t, i)
      <4>1. IsList(e) /\ IsList(t) /\ Place(k, Len(e), i)
        BY <1>2, <2>1, <3>1
      <4> QED BY <4>1, TakenLater
    <3> QED BY <3>1, <3>2
  <2> QED BY <2>1, <2>2, <2>3
<1>4. PICK after : after = Effect(h, s)
  OBVIOUS
<1>5. after = s \ h.drops
  <2>1. h.adds = {}
    BY <1>2 DEF Shrinks
  <2> QED BY <1>4, <2>1 DEF Effect
<1>6. \A i \in DOMAIN t : after \ TakenBefore(t, i) = s \ TakenBefore(m, i + 1)
  BY <1>3, <1>5
<1>7. Shrinks(after, t)
  BY <1>2, <1>6 DEF Shrinks
<1>8. after \ Taken(t) = s \ Taken(m)
  BY <1>3, <1>5
<1> QED BY <1>1, <1>4, <1>7, <1>8

\* The first statement, if it cannot run, lacks a setting.
LEMMA FirstRuns ==
  ASSUME NEW s, NEW m, NEW r, IsList(m), m # << >>, Grows(s, m, r) \/ Shrinks(s, m)
  PROVE  Runs(Head(m), s)
<1>1. Head(m) = m[1] /\ 1 \in DOMAIN m
  BY HeadTail
<1>2. s \cup GivenBefore(m, 1, r) = s /\ s \ TakenBefore(m, 1) = s
  BY NothingBefore
<1> QED BY <1>1, <1>2 DEF Grows, Shrinks

\* Lists that run one after the other run as one.
LEMMA GrowsBoth ==
  ASSUME NEW s, NEW a, NEW b, NEW r, IsList(a), IsList(b),
         Grows(s, a, r), Grows(s \cup Given(a, r), b, r)
  PROVE  Grows(s, a \o b, r)
<1>1. PICK n, p, c : n \in Nat /\ p \in Nat /\ n = Len(a) /\ p = Len(b) /\ c = a \o b
  BY ListDomain
<1> n \in Nat /\ p \in Nat
  BY <1>1
<1>2. /\ DOMAIN a = 1 .. n /\ DOMAIN b = 1 .. p /\ DOMAIN c = 1 .. n + p
      /\ \A i \in 1 .. n : c[i] = a[i]
      /\ \A i \in 1 .. p : c[n + i] = b[i]
  BY <1>1, ListBoth, ListDomain
<1>3. /\ \A i \in 1 .. n : GivenBefore(c, i, r) = GivenBefore(a, i, r)
      /\ \A i \in 1 .. p : GivenBefore(c, n + i, r) = Given(a, r) \cup GivenBefore(b, i, r)
  <2>1. \A i \in DOMAIN a : GivenBefore(a \o b, i, r) = GivenBefore(a, i, r)
    BY GivenBoth
  <2>2. ASSUME NEW i \in 1 .. p PROVE GivenBefore(a \o b, n + i, r) = Given(a, r) \cup GivenBefore(b, i, r)
    <3>1. PICK k \in Nat : k = n + i
      BY <1>1
    <3>2. Place(k, Len(a), i) /\ i \in DOMAIN b
      BY <1>1, <1>2, <3>1 DEF Place
    <3>3. GivenBefore(a \o b, k, r) = Given(a, r) \cup GivenBefore(b, i, r)
      BY <3>2, GivenLater
    <3> QED BY <3>1, <3>3
  <2> QED BY <1>1, <1>2, <2>1, <2>2
<1>4. SUFFICES ASSUME NEW k \in 1 .. n + p
               PROVE  /\ c[k].drops = {}
                      /\ Runs(c[k], s \cup GivenBefore(c, k, r))
                      /\ \A f \in c[k].adds : f[1] = "sequence" =>
                           (<<"table", f[2]>> \in s \cup GivenBefore(c, k, r)
                            <=> <<"table", f[2]>> \in Canonical(r))
  BY <1>1, <1>2 DEF Grows
<1>5. CASE k \in 1 .. n
  BY <1>2, <1>3, <1>5 DEF Grows
<1>6. CASE k \notin 1 .. n
  <2>1. PICK i \in 1 .. p : k = n + i
    <3>1. k - n \in 1 .. p /\ k = n + (k - n)
      BY <1>6
    <3> QED BY <3>1
  <2>2. c[k] = b[i] /\ s \cup GivenBefore(c, k, r) = (s \cup Given(a, r)) \cup GivenBefore(b, i, r)
    BY <1>2, <1>3, <2>1
  <2> QED BY <1>2, <2>2 DEF Grows
<1> QED BY <1>5, <1>6

\* The same for statements that drop.
LEMMA ShrinksBoth ==
  ASSUME NEW s, NEW a, NEW b, IsList(a), IsList(b),
         Shrinks(s, a), Shrinks(s \ Taken(a), b)
  PROVE  Shrinks(s, a \o b)
<1>1. PICK n, p, c : n \in Nat /\ p \in Nat /\ n = Len(a) /\ p = Len(b) /\ c = a \o b
  BY ListDomain
<1> n \in Nat /\ p \in Nat
  BY <1>1
<1>2. /\ DOMAIN a = 1 .. n /\ DOMAIN b = 1 .. p /\ DOMAIN c = 1 .. n + p
      /\ \A i \in 1 .. n : c[i] = a[i]
      /\ \A i \in 1 .. p : c[n + i] = b[i]
  BY <1>1, ListBoth, ListDomain
<1>3. /\ \A i \in 1 .. n : TakenBefore(c, i) = TakenBefore(a, i)
      /\ \A i \in 1 .. p : TakenBefore(c, n + i) = Taken(a) \cup TakenBefore(b, i)
  <2>1. \A i \in DOMAIN a : TakenBefore(a \o b, i) = TakenBefore(a, i)
    BY TakenBoth
  <2>2. ASSUME NEW i \in 1 .. p PROVE TakenBefore(a \o b, n + i) = Taken(a) \cup TakenBefore(b, i)
    <3>1. PICK k \in Nat : k = n + i
      BY <1>1
    <3>2. Place(k, Len(a), i) /\ i \in DOMAIN b
      BY <1>1, <1>2, <3>1 DEF Place
    <3>3. TakenBefore(a \o b, k) = Taken(a) \cup TakenBefore(b, i)
      BY <3>2, TakenLater
    <3> QED BY <3>1, <3>3
  <2> QED BY <1>1, <1>2, <2>1, <2>2
<1>4. SUFFICES ASSUME NEW k \in 1 .. n + p
               PROVE  c[k].adds = {} /\ Runs(c[k], s \ TakenBefore(c, k))
  BY <1>1, <1>2 DEF Shrinks
<1>5. CASE k \in 1 .. n
  BY <1>2, <1>3, <1>5 DEF Shrinks
<1>6. CASE k \notin 1 .. n
  <2>1. PICK i \in 1 .. p : k = n + i
    <3>1. k - n \in 1 .. p /\ k = n + (k - n)
      BY <1>6
    <3> QED BY <3>1
  <2>2. c[k] = b[i] /\ s \ TakenBefore(c, k) = (s \ Taken(a)) \ TakenBefore(b, i)
    BY <1>2, <1>3, <2>1
  <2> QED BY <1>2, <2>2 DEF Shrinks
<1> QED BY <1>5, <1>6

\* What is left of the migration leads to the revision it is to make.
Underway ==
  \/ Grows(tx, todo, at) /\ AtRevision(tx \cup Given(todo, at), at)
  \/ Shrinks(tx, todo) /\ AtRevision(tx \ Taken(todo), at)

ChainInv ==
  /\ version \in Revision /\ at \in Revision /\ goal \in Revision
  /\ env \subseteq Settings /\ running \in BOOLEAN
  /\ IsList(todo)
  /\ ~running => tx = schema /\ at = version /\ todo = << >>
  /\ AtRevision(schema, version)
  /\ Underway
  /\ NoStatementFails

\* The tables by name.
LEMMA TableNames ==
  /\ Range(InitialTables) = {"customers", "vehicles", "escalations", "orders", "test_drive_bookings",
                             "vehicle_embeddings", "order_status_history"}
  /\ Range(AppRoleTables) = {"customers", "orders", "order_status_history", "test_drive_bookings", "escalations"}
  /\ Range(ConversationTables) = {"conversations", "conversation_messages"}
  /\ Tables = Range(InitialTables) \cup {"policy_chunks"} \cup Range(ConversationTables)
<1>1. PICK m : m = InitialTables
  OBVIOUS
<1>2. /\ DOMAIN m = 1 .. 7 /\ m[1] = "customers" /\ m[2] = "vehicles" /\ m[3] = "escalations" /\ m[4] = "orders"
      /\ m[5] = "test_drive_bookings" /\ m[6] = "vehicle_embeddings" /\ m[7] = "order_status_history"
  BY <1>1 DEF InitialTables
<1>3. {m[i] : i \in 1 .. 7} = {m[1], m[2], m[3], m[4], m[5], m[6], m[7]}
  <2>1. \A i : i \in 1 .. 7 <=> i \in {1, 2, 3, 4, 5, 6, 7}
    OBVIOUS
  <2> QED BY <2>1
<1>4. PICK a : a = AppRoleTables
  OBVIOUS
<1>5. /\ DOMAIN a = 1 .. 5 /\ a[1] = "customers" /\ a[2] = "orders" /\ a[3] = "order_status_history"
      /\ a[4] = "test_drive_bookings" /\ a[5] = "escalations"
  BY <1>4 DEF AppRoleTables
<1>6. {a[i] : i \in 1 .. 5} = {a[1], a[2], a[3], a[4], a[5]}
  <2>1. \A i : i \in 1 .. 5 <=> i \in {1, 2, 3, 4, 5}
    OBVIOUS
  <2> QED BY <2>1
<1>7. PICK c : c = ConversationTables
  OBVIOUS
<1>8. DOMAIN c = 1 .. 2 /\ c[1] = "conversations" /\ c[2] = "conversation_messages"
  BY <1>7 DEF ConversationTables
<1>9. {c[i] : i \in 1 .. 2} = {c[1], c[2]}
  <2>1. \A i : i \in 1 .. 2 <=> i \in {1, 2}
    OBVIOUS
  <2> QED BY <2>1
<1>10. Range(m) = {m[i] : i \in 1 .. 7} /\ Range(a) = {a[i] : i \in 1 .. 5} /\ Range(c) = {c[i] : i \in 1 .. 2}
  BY <1>2, <1>5, <1>8 DEF Range
<1> QED BY <1>1, <1>2, <1>3, <1>4, <1>5, <1>6, <1>7, <1>8, <1>9, <1>10 DEF Tables

\* What a revision adds, fact by fact.
Initially == {"customers", "vehicles", "escalations", "orders", "test_drive_bookings",
              "vehicle_embeddings", "order_status_history"}
Scoped == {"customers", "orders", "order_status_history", "test_drive_bookings", "escalations"}
Talks == {"conversations", "conversation_messages"}

\* The tables, the types and the extension.
LEMMA AddedBy1 ==
  ASSUME NEW n
  PROVE  /\ <<"table", n>> \in Added(1) <=> n \in Initially
         /\ <<"type", n>> \in Added(1) <=> n \in {"order_status", "test_drive_status"}
         /\ <<"extension", n>> \in Added(1) <=> n = "vector"
         /\ <<"role", n>> \notin Added(1)
         /\ <<"access", n>> \notin Added(1)
         /\ <<"grant", n>> \notin Added(1)
         /\ <<"sequence", n>> \notin Added(1)
         /\ <<"rls", n>> \notin Added(1)
         /\ <<"force", n>> \notin Added(1)
         /\ <<"policy", n>> \notin Added(1)
         /\ <<"column", n>> \notin Added(1)
BY TableNames DEF Added, Of, Vector, Initially

\* The role, what it may do, and the guards of the customers' tables.
LEMMA AddedBy2 ==
  ASSUME NEW n
  PROVE  /\ <<"table", n>> \notin Added(2)
         /\ <<"type", n>> \notin Added(2)
         /\ <<"extension", n>> \notin Added(2)
         /\ <<"role", n>> \in Added(2) <=> n = "app"
         /\ <<"access", n>> \in Added(2) <=> n \in {"database", "schema"}
         /\ <<"grant", n>> \in Added(2) <=> n \in Initially
         /\ <<"sequence", n>> \in Added(2) <=> n \in Initially
         /\ <<"rls", n>> \in Added(2) <=> n \in Scoped
         /\ <<"force", n>> \in Added(2) <=> n \in Scoped
         /\ <<"policy", n>> \in Added(2) <=> n \in Scoped
         /\ <<"column", n>> \notin Added(2)
BY TableNames DEF Added, Of, Role, Initially, Scoped, Guards, PublicTables

\* The column.
LEMMA AddedBy3 ==
  ASSUME NEW n
  PROVE  /\ <<"table", n>> \notin Added(3)
         /\ <<"type", n>> \notin Added(3)
         /\ <<"extension", n>> \notin Added(3)
         /\ <<"role", n>> \notin Added(3)
         /\ <<"access", n>> \notin Added(3)
         /\ <<"grant", n>> \notin Added(3)
         /\ <<"sequence", n>> \notin Added(3)
         /\ <<"rls", n>> \notin Added(3)
         /\ <<"force", n>> \notin Added(3)
         /\ <<"policy", n>> \notin Added(3)
         /\ <<"column", n>> \in Added(3) <=> n = "is_price_reliable"
BY DEF Added, Of, Flag

\* The policy chunks, granted and not guarded: they are nobody's.
LEMMA AddedBy4 ==
  ASSUME NEW n
  PROVE  /\ <<"table", n>> \in Added(4) <=> n = "policy_chunks"
         /\ <<"type", n>> \notin Added(4)
         /\ <<"extension", n>> \notin Added(4)
         /\ <<"role", n>> \notin Added(4)
         /\ <<"access", n>> \notin Added(4)
         /\ <<"grant", n>> \in Added(4) <=> n = "policy_chunks"
         /\ <<"sequence", n>> \notin Added(4)
         /\ <<"rls", n>> \notin Added(4)
         /\ <<"force", n>> \notin Added(4)
         /\ <<"policy", n>> \notin Added(4)
         /\ <<"column", n>> \notin Added(4)
BY DEF Added

\* The conversations, granted and guarded, and every sequence there is by then.
LEMMA AddedBy5 ==
  ASSUME NEW n
  PROVE  /\ <<"table", n>> \in Added(5) <=> n \in Talks
         /\ <<"type", n>> \notin Added(5)
         /\ <<"extension", n>> \notin Added(5)
         /\ <<"role", n>> \notin Added(5)
         /\ <<"access", n>> \notin Added(5)
         /\ <<"grant", n>> \in Added(5) <=> n \in Talks
         /\ <<"sequence", n>> \in Added(5) <=> n \in Talks \cup {"policy_chunks"}
         /\ <<"rls", n>> \in Added(5) <=> n \in Talks
         /\ <<"force", n>> \in Added(5) <=> n \in Talks
         /\ <<"policy", n>> \in Added(5) <=> n \in Talks
         /\ <<"column", n>> \notin Added(5)
BY TableNames DEF Added, Of, Talks, Guards

\* A revision is the one before it and what it adds.
LEMMA CanonicalStep ==
  /\ Canonical(0) = {}
  /\ \A r \in 1 .. 5 : Canonical(r) = Canonical(r - 1) \cup Added(r)
<1>1. Canonical(0) = {}
  BY DEF Canonical
<1>2. ASSUME NEW r \in 1 .. 5 PROVE Canonical(r) = Canonical(r - 1) \cup Added(r)
  <2>1. 1 .. r = (1 .. r - 1) \cup {r}
    OBVIOUS
  <2> QED BY <2>1 DEF Canonical
<1> QED BY <1>1, <1>2

\* A fact of a revision was added by it or by one before it.
LEMMA CanonicalIs ==
  ASSUME NEW f, NEW r \in 0 .. 5
  PROVE  f \in Canonical(r) <=>
           \/ r > 0 /\ f \in Added(1)
           \/ r > 1 /\ f \in Added(2)
           \/ r > 2 /\ f \in Added(3)
           \/ r > 3 /\ f \in Added(4)
           \/ r > 4 /\ f \in Added(5)
<1>1. f \in Canonical(r) <=> \E q \in 1 .. 5 : q \leq r /\ f \in Added(q)
  BY DEF Canonical
<1>2. \A q : q \in 1 .. 5 <=> q \in {1, 2, 3, 4, 5}
  OBVIOUS
<1> QED BY <1>1, <1>2

\* Every fact of every revision.
LEMMA CanonicalFacts ==
  ASSUME NEW n, NEW r \in 0 .. 5
  PROVE  /\ <<"table", n>> \in Canonical(r) <=>
              (r > 0 /\ n \in Initially) \/ (r > 3 /\ n = "policy_chunks") \/ (r > 4 /\ n \in Talks)
         /\ <<"type", n>> \in Canonical(r) <=> r > 0 /\ n \in {"order_status", "test_drive_status"}
         /\ <<"extension", n>> \in Canonical(r) <=> r > 0 /\ n = "vector"
         /\ <<"role", n>> \in Canonical(r) <=> r > 1 /\ n = "app"
         /\ <<"access", n>> \in Canonical(r) <=> r > 1 /\ n \in {"database", "schema"}
         /\ <<"grant", n>> \in Canonical(r) <=>
              (r > 1 /\ n \in Initially) \/ (r > 3 /\ n = "policy_chunks") \/ (r > 4 /\ n \in Talks)
         /\ <<"sequence", n>> \in Canonical(r) <=>
              (r > 1 /\ n \in Initially) \/ (r > 4 /\ n \in Talks \cup {"policy_chunks"})
         /\ <<"column", n>> \in Canonical(r) <=> r > 2 /\ n = "is_price_reliable"
         /\ \A k \in {"rls", "force", "policy"} :
              <<k, n>> \in Canonical(r) <=> (r > 1 /\ n \in Scoped) \/ (r > 4 /\ n \in Talks)
<1>1. <<"table", n>> \in Canonical(r) <=>
        (r > 0 /\ n \in Initially) \/ (r > 3 /\ n = "policy_chunks") \/ (r > 4 /\ n \in Talks)
  <2>1. PICK f : f = <<"table", n>>
    OBVIOUS
  <2>2. /\ f \in Added(1) <=> n \in Initially
        /\ f \notin Added(2)
        /\ f \notin Added(3)
        /\ f \in Added(4) <=> n = "policy_chunks"
        /\ f \in Added(5) <=> n \in Talks
    BY <2>1, AddedBy1, AddedBy2, AddedBy3, AddedBy4, AddedBy5
  <2> QED BY <2>1, <2>2, CanonicalIs
<1>2. <<"type", n>> \in Canonical(r) <=>
        r > 0 /\ n \in {"order_status", "test_drive_status"}
  <2>1. PICK f : f = <<"type", n>>
    OBVIOUS
  <2>2. /\ f \in Added(1) <=> n \in {"order_status", "test_drive_status"}
        /\ f \notin Added(2)
        /\ f \notin Added(3)
        /\ f \notin Added(4)
        /\ f \notin Added(5)
    BY <2>1, AddedBy1, AddedBy2, AddedBy3, AddedBy4, AddedBy5
  <2> QED BY <2>1, <2>2, CanonicalIs
<1>3. <<"extension", n>> \in Canonical(r) <=>
        r > 0 /\ n = "vector"
  <2>1. PICK f : f = <<"extension", n>>
    OBVIOUS
  <2>2. /\ f \in Added(1) <=> n = "vector"
        /\ f \notin Added(2)
        /\ f \notin Added(3)
        /\ f \notin Added(4)
        /\ f \notin Added(5)
    BY <2>1, AddedBy1, AddedBy2, AddedBy3, AddedBy4, AddedBy5
  <2> QED BY <2>1, <2>2, CanonicalIs
<1>4. <<"role", n>> \in Canonical(r) <=>
        r > 1 /\ n = "app"
  <2>1. PICK f : f = <<"role", n>>
    OBVIOUS
  <2>2. /\ f \notin Added(1)
        /\ f \in Added(2) <=> n = "app"
        /\ f \notin Added(3)
        /\ f \notin Added(4)
        /\ f \notin Added(5)
    BY <2>1, AddedBy1, AddedBy2, AddedBy3, AddedBy4, AddedBy5
  <2> QED BY <2>1, <2>2, CanonicalIs
<1>5. <<"access", n>> \in Canonical(r) <=>
        r > 1 /\ n \in {"database", "schema"}
  <2>1. PICK f : f = <<"access", n>>
    OBVIOUS
  <2>2. /\ f \notin Added(1)
        /\ f \in Added(2) <=> n \in {"database", "schema"}
        /\ f \notin Added(3)
        /\ f \notin Added(4)
        /\ f \notin Added(5)
    BY <2>1, AddedBy1, AddedBy2, AddedBy3, AddedBy4, AddedBy5
  <2> QED BY <2>1, <2>2, CanonicalIs
<1>6. <<"grant", n>> \in Canonical(r) <=>
        (r > 1 /\ n \in Initially) \/ (r > 3 /\ n = "policy_chunks") \/ (r > 4 /\ n \in Talks)
  <2>1. PICK f : f = <<"grant", n>>
    OBVIOUS
  <2>2. /\ f \notin Added(1)
        /\ f \in Added(2) <=> n \in Initially
        /\ f \notin Added(3)
        /\ f \in Added(4) <=> n = "policy_chunks"
        /\ f \in Added(5) <=> n \in Talks
    BY <2>1, AddedBy1, AddedBy2, AddedBy3, AddedBy4, AddedBy5
  <2> QED BY <2>1, <2>2, CanonicalIs
<1>7. <<"sequence", n>> \in Canonical(r) <=>
        (r > 1 /\ n \in Initially) \/ (r > 4 /\ n \in Talks \cup {"policy_chunks"})
  <2>1. PICK f : f = <<"sequence", n>>
    OBVIOUS
  <2>2. /\ f \notin Added(1)
        /\ f \in Added(2) <=> n \in Initially
        /\ f \notin Added(3)
        /\ f \notin Added(4)
        /\ f \in Added(5) <=> n \in Talks \cup {"policy_chunks"}
    BY <2>1, AddedBy1, AddedBy2, AddedBy3, AddedBy4, AddedBy5
  <2> QED BY <2>1, <2>2, CanonicalIs
<1>8. <<"column", n>> \in Canonical(r) <=>
        r > 2 /\ n = "is_price_reliable"
  <2>1. PICK f : f = <<"column", n>>
    OBVIOUS
  <2>2. /\ f \notin Added(1)
        /\ f \notin Added(2)
        /\ f \in Added(3) <=> n = "is_price_reliable"
        /\ f \notin Added(4)
        /\ f \notin Added(5)
    BY <2>1, AddedBy1, AddedBy2, AddedBy3, AddedBy4, AddedBy5
  <2> QED BY <2>1, <2>2, CanonicalIs
<1>9. ASSUME NEW k \in {"rls", "force", "policy"}
      PROVE  <<k, n>> \in Canonical(r) <=> (r > 1 /\ n \in Scoped) \/ (r > 4 /\ n \in Talks)
  <2>1. PICK f : f = <<k, n>>
    OBVIOUS
  <2>2. /\ f \notin Added(1)
        /\ f \in Added(2) <=> n \in Scoped
        /\ f \notin Added(3)
        /\ f \notin Added(4)
        /\ f \in Added(5) <=> n \in Talks
    BY <2>1, AddedBy1, AddedBy2, AddedBy3, AddedBy4, AddedBy5
  <2> QED BY <2>1, <2>2, CanonicalIs
<1> QED BY <1>1, <1>2, <1>3, <1>4, <1>5, <1>6, <1>7, <1>8, <1>9

-----------------------------------------------------------------------------
\* Lists of statements, piece by piece.

\* A list that runs on s when only adding, and adds g in all; one that runs on
\* it when only dropping, and drops g in all.
Leads(s, m, r, g) == IsList(m) /\ Grows(s, m, r) /\ Given(m, r) = g
Undoes(s, m, g) == IsList(m) /\ Shrinks(s, m) /\ Taken(m) = g

\* Upgrades piece by piece.
LEMMA LeadsBoth ==
  ASSUME NEW s, NEW a, NEW b, NEW r, NEW g, NEW h, Leads(s, a, r, g), Leads(s \cup g, b, r, h)
  PROVE  Leads(s, a \o b, r, g \cup h)
<1>1. IsList(a) /\ IsList(b) /\ Grows(s, a, r) /\ Grows(s \cup Given(a, r), b, r)
  BY DEF Leads
<1>2. IsList(a \o b) /\ Given(a \o b, r) = Given(a, r) \cup Given(b, r)
  BY <1>1, ListBoth, GivenBoth
<1>3. Grows(s, a \o b, r)
  BY <1>1, GrowsBoth
<1> QED BY <1>2, <1>3 DEF Leads

\* Downgrades piece by piece.
LEMMA UndoesBoth ==
  ASSUME NEW s, NEW a, NEW b, NEW g, NEW h, Undoes(s, a, g), Undoes(s \ g, b, h)
  PROVE  Undoes(s, a \o b, g \cup h)
<1>1. IsList(a) /\ IsList(b) /\ Shrinks(s, a) /\ Shrinks(s \ Taken(a), b)
  BY DEF Undoes
<1>2. IsList(a \o b) /\ Taken(a \o b) = Taken(a) \cup Taken(b)
  BY <1>1, ListBoth, TakenBoth
<1>3. Shrinks(s, a \o b)
  BY <1>1, ShrinksBoth
<1> QED BY <1>2, <1>3 DEF Undoes

\* A function on the first n places is a list.
LEMMA ListOf ==
  ASSUME NEW n \in Nat, NEW m, m = [i \in 1 .. n |-> m[i]]
  PROVE  IsList(m) /\ Len(m) = n /\ DOMAIN m = 1 .. n
<1>1. PICK S : S = {m[i] : i \in 1 .. n}
  OBVIOUS
<1>2. m \in [1 .. n -> S]
  BY <1>1
<1>3. m \in Seq(S)
  BY <1>2
<1> QED BY <1>2, <1>3 DEF IsList

\* What a list adds, in all and before a place.
LEMMA GivenIs ==
  ASSUME NEW m, IsList(m), NEW r
  PROVE  /\ Given(m, r) = UNION {Gives(m[i], r) : i \in DOMAIN m}
         /\ \A i \in DOMAIN m : \A f : f \in GivenBefore(m, i, r) <=>
              \E j \in DOMAIN m : j < i /\ f \in Gives(m[j], r)
<1>1. Len(m) \in Nat /\ DOMAIN m = 1 .. Len(m) /\ \A j \in DOMAIN m : Gains(m, r)[j] = Gives(m[j], r)
  BY ListDomain DEF Gains
<1>2. ASSUME NEW i \in DOMAIN m, NEW f
      PROVE  f \in GivenBefore(m, i, r) <=> \E j \in DOMAIN m : j < i /\ f \in Gives(m[j], r)
  <2>1. \A j : j \in 1 .. i - 1 <=> j \in DOMAIN m /\ j < i
    BY <1>1
  <2> QED BY <1>1, <2>1 DEF GivenBefore, Together
<1>3. Given(m, r) = UNION {Gives(m[i], r) : i \in DOMAIN m}
  BY <1>1 DEF Given, Together
<1> QED BY <1>2, <1>3

\* What a list drops, in all and before a place.
LEMMA TakenIs ==
  ASSUME NEW m, IsList(m)
  PROVE  /\ Taken(m) = UNION {m[i].drops : i \in DOMAIN m}
         /\ \A i \in DOMAIN m : \A f : f \in TakenBefore(m, i) <=>
              \E j \in DOMAIN m : j < i /\ f \in m[j].drops
<1>1. Len(m) \in Nat /\ DOMAIN m = 1 .. Len(m) /\ \A j \in DOMAIN m : Drops(m)[j] = m[j].drops
  BY ListDomain DEF Drops
<1>2. ASSUME NEW i \in DOMAIN m, NEW f
      PROVE  f \in TakenBefore(m, i) <=> \E j \in DOMAIN m : j < i /\ f \in m[j].drops
  <2>1. \A j : j \in 1 .. i - 1 <=> j \in DOMAIN m /\ j < i
    BY <1>1
  <2> QED BY <1>1, <2>1 DEF TakenBefore, Together
<1>3. Taken(m) = UNION {m[i].drops : i \in DOMAIN m}
  BY <1>1 DEF Taken, Together
<1> QED BY <1>2, <1>3

\* Statements that ask for nothing the list itself brings, or takes, run in any order.
LEMMA SteadyLeads ==
  ASSUME NEW s, NEW m, NEW r, NEW g, IsList(m), g = UNION {m[i].adds : i \in DOMAIN m},
         \A i \in DOMAIN m : /\ m[i].drops = {} /\ m[i].forbids = {}
                             /\ m[i].needs \subseteq s \/ m[i].needs \subseteq Settings
                             /\ \A f \in m[i].adds : f[1] # "sequence"
  PROVE  Leads(s, m, r, g)
<1>1. \A i \in DOMAIN m : Gives(m[i], r) = m[i].adds
  BY DEF Gives
<1>2. Given(m, r) = g
  BY <1>1, GivenIs
<1>3. Grows(s, m, r)
  BY DEF Grows, Runs
<1> QED BY <1>2, <1>3 DEF Leads

\* The same for statements that need nothing the list drops.
LEMMA SteadyUndoes ==
  ASSUME NEW s, NEW m, NEW g, IsList(m), g = UNION {m[i].drops : i \in DOMAIN m},
         \A i \in DOMAIN m : /\ m[i].adds = {} /\ m[i].forbids \cap (s \cup Settings) = {}
                             /\ m[i].needs \subseteq s \ g \/ m[i].needs \subseteq Settings
  PROVE  Undoes(s, m, g)
<1>1. Taken(m) = g
  BY TakenIs
<1>2. \A i \in DOMAIN m : TakenBefore(m, i) \subseteq g
  BY TakenIs
<1>3. Shrinks(s, m)
  BY <1>2 DEF Shrinks, Runs
<1> QED BY <1>1, <1>3 DEF Undoes

\* A single statement that adds.
LEMMA LeadsOne ==
  ASSUME NEW s, NEW st, NEW r, st.drops = {}, Runs(st, s),
         \A f \in st.adds : f[1] = "sequence" =>
           (<<"table", f[2]>> \in s <=> <<"table", f[2]>> \in Canonical(r))
  PROVE  Leads(s, <<st>>, r, Gives(st, r))
<1>1. PICK e : e = <<st>>
  OBVIOUS
<1>2. IsList(e) /\ DOMAIN e = 1 .. 1 /\ e[1] = st /\ Given(e, r) = Gives(st, r)
  BY <1>1, OneStatement
<1>3. s \cup GivenBefore(e, 1, r) = s
  BY NothingBefore
<1>4. Grows(s, e, r)
  <2> SUFFICES ASSUME NEW i \in DOMAIN e
               PROVE  /\ e[i].drops = {} /\ Runs(e[i], s \cup GivenBefore(e, i, r))
                      /\ \A f \in e[i].adds : f[1] = "sequence" =>
                           (<<"table", f[2]>> \in s \cup GivenBefore(e, i, r) <=> <<"table", f[2]>> \in Canonical(r))
    BY DEF Grows
  <2>1. i = 1
    BY <1>2
  <2>2. e[i] = st /\ s \cup GivenBefore(e, i, r) = s
    BY <1>2, <1>3, <2>1
  <2>3. \A f \in st.adds : f[1] = "sequence" =>
           (<<"table", f[2]>> \in s <=> <<"table", f[2]>> \in Canonical(r))
    OBVIOUS
  <2>4. st.drops = {} /\ Runs(st, s)
    OBVIOUS
  <2> QED BY <2>2, <2>3, <2>4
<1> QED BY <1>1, <1>2, <1>4 DEF Leads

\* A single statement that drops.
LEMMA UndoesOne ==
  ASSUME NEW s, NEW st, st.adds = {}, Runs(st, s)
  PROVE  Undoes(s, <<st>>, st.drops)
<1>1. PICK e : e = <<st>>
  OBVIOUS
<1>2. IsList(e) /\ DOMAIN e = 1 .. 1 /\ e[1] = st /\ Taken(e) = st.drops
  BY <1>1, OneStatement
<1>3. s \ TakenBefore(e, 1) = s
  BY NothingBefore
<1>4. Shrinks(s, e)
  BY <1>2, <1>3 DEF Shrinks
<1> QED BY <1>1, <1>2, <1>4 DEF Undoes

-----------------------------------------------------------------------------
\* The statements, and the loops over tables.

\* GRANT and REVOKE on tables.
LEMMA Grants ==
  ASSUME NEW ts
  PROVE  /\ Grant(ts).needs = Of("table", ts) \cup Role /\ Grant(ts).forbids = {}
         /\ Grant(ts).adds = Of("grant", ts) /\ Grant(ts).drops = {}
         /\ Revoke(ts).needs = Of("table", ts) \cup Role /\ Revoke(ts).forbids = {}
         /\ Revoke(ts).adds = {} /\ Revoke(ts).drops = Of("grant", ts)
BY DEF Grant, Revoke, Existing, Statement

\* ENABLE, FORCE, NO FORCE and DISABLE ROW LEVEL SECURITY.
LEMMA RowSecurity ==
  ASSUME NEW t
  PROVE  /\ Enable(t).needs = {<<"table", t>>} /\ Enable(t).forbids = {}
         /\ Enable(t).adds = {<<"rls", t>>} /\ Enable(t).drops = {}
         /\ ForceRls(t).needs = {<<"table", t>>} /\ ForceRls(t).forbids = {}
         /\ ForceRls(t).adds = {<<"force", t>>} /\ ForceRls(t).drops = {}
         /\ Disable(t).needs = {<<"table", t>>} /\ Disable(t).forbids = {}
         /\ Disable(t).adds = {} /\ Disable(t).drops = {<<"rls", t>>}
         /\ NoForceRls(t).needs = {<<"table", t>>} /\ NoForceRls(t).forbids = {}
         /\ NoForceRls(t).adds = {} /\ NoForceRls(t).drops = {<<"force", t>>}
BY DEF Enable, Disable, ForceRls, NoForceRls, Existing, Statement, Of

\* CREATE POLICY and DROP POLICY.
LEMMA PolicyStatements ==
  ASSUME NEW t
  PROVE  /\ CreatePolicy(t).needs = Of("table", {t} \cup PolicyReads(t))
         /\ CreatePolicy(t).forbids = {<<"policy", t>>}
         /\ CreatePolicy(t).adds = {<<"policy", t>>} /\ CreatePolicy(t).drops = {}
         /\ DropPolicy(t).needs = {<<"table", t>>} /\ DropPolicy(t).forbids = {}
         /\ DropPolicy(t).adds = {} /\ DropPolicy(t).drops = {<<"policy", t>>}
BY DEF CreatePolicy, DropPolicy, Existing, Statement, Of

\* GRANT for each table, once the tables and the role are there.
LEMMA GrantedLeads ==
  ASSUME NEW ts, IsList(ts), NEW s, NEW r, Of("table", Range(ts)) \subseteq s, Role \subseteq s
  PROVE  Leads(s, Granted(ts), r, Of("grant", Range(ts)))
<1>1. PICK n, m : n \in Nat /\ n = Len(ts) /\ m = Granted(ts)
  BY ListDomain
<1> n \in Nat
  BY <1>1
<1>2. DOMAIN ts = 1 .. n /\ DOMAIN m = 1 .. n /\ \A i \in 1 .. n : m[i] = Grant({ts[i]})
  BY <1>1, ListDomain DEF Granted
<1>3. m = [i \in 1 .. n |-> m[i]]
  BY <1>1, <1>2 DEF Granted
<1>4. IsList(m)
  BY <1>3, ListOf
<1>5. \A i \in 1 .. n : /\ m[i].drops = {} /\ m[i].forbids = {} /\ m[i].adds = {<<"grant", ts[i]>>}
                        /\ m[i].needs \subseteq s
  <2> TAKE i \in 1 .. n
  <2>1. <<"table", ts[i]>> \in s
    BY <1>2 DEF Of, Range
  <2>2. Of("table", {ts[i]}) \cup Role \subseteq s /\ Of("grant", {ts[i]}) = {<<"grant", ts[i]>>}
    BY <2>1 DEF Of
  <2> QED BY <1>2, <2>2, Grants
<1>6. Of("grant", Range(ts)) = UNION {m[i].adds : i \in DOMAIN m}
  BY <1>2, <1>5 DEF Of, Range
<1>7. \A i \in DOMAIN m : \A f : f \in m[i].adds => f[1] # "sequence"
  BY <1>2, <1>5
<1> QED BY <1>1, <1>2, <1>4, <1>5, <1>6, <1>7, SteadyLeads

\* REVOKE for each, while they are.
LEMMA RevokedUndoes ==
  ASSUME NEW ts, IsList(ts), NEW s, Of("table", Range(ts)) \subseteq s, Role \subseteq s
  PROVE  Undoes(s, Revoked(ts), Of("grant", Range(ts)))
<1>1. PICK n, m : n \in Nat /\ n = Len(ts) /\ m = Revoked(ts)
  BY ListDomain
<1> n \in Nat
  BY <1>1
<1>2. DOMAIN ts = 1 .. n /\ DOMAIN m = 1 .. n /\ \A i \in 1 .. n : m[i] = Revoke({ts[i]})
  BY <1>1, ListDomain DEF Revoked
<1>3. m = [i \in 1 .. n |-> m[i]]
  BY <1>1, <1>2 DEF Revoked
<1>4. IsList(m)
  BY <1>3, ListOf
<1>5. \A i \in 1 .. n : /\ m[i].adds = {} /\ m[i].forbids = {} /\ m[i].drops = {<<"grant", ts[i]>>}
                        /\ m[i].needs \subseteq s \ Of("grant", Range(ts))
  <2> TAKE i \in 1 .. n
  <2>1. <<"table", ts[i]>> \in s
    BY <1>2 DEF Of, Range
  <2>2. Of("table", {ts[i]}) \cup Role \subseteq s \ Of("grant", Range(ts)) /\ Of("grant", {ts[i]}) = {<<"grant", ts[i]>>}
    BY <2>1 DEF Of, Role
  <2> QED BY <1>2, <2>2, Grants
<1>6. Of("grant", Range(ts)) = UNION {m[i].drops : i \in DOMAIN m}
  BY <1>2, <1>5 DEF Of, Range
<1>7. \A i \in DOMAIN m : /\ m[i].adds = {} /\ m[i].forbids \cap (s \cup Settings) = {}
                          /\ m[i].needs \subseteq s \ Of("grant", Range(ts)) \/ m[i].needs \subseteq Settings
  BY <1>2, <1>5
<1> QED BY <1>1, <1>4, <1>6, <1>7, SteadyUndoes

\* DROP POLICY for each table, in any order.
LEMMA NoPoliciesUndo ==
  ASSUME NEW ts, IsList(ts), NEW s, Of("table", Range(ts)) \subseteq s
  PROVE  Undoes(s, NoPolicies(ts), Of("policy", Range(ts)))
<1>1. PICK n, m : n \in Nat /\ n = Len(ts) /\ m = NoPolicies(ts)
  BY ListDomain
<1> n \in Nat
  BY <1>1
<1>2. DOMAIN ts = 1 .. n /\ DOMAIN m = 1 .. n /\ \A i \in 1 .. n : m[i] = DropPolicy(ts[i])
  BY <1>1, ListDomain DEF NoPolicies
<1>3. m = [i \in 1 .. n |-> m[i]]
  BY <1>1, <1>2 DEF NoPolicies
<1>4. IsList(m)
  BY <1>3, ListOf
<1>5. \A i \in 1 .. n : /\ m[i].adds = {} /\ m[i].forbids = {} /\ m[i].drops = {<<"policy", ts[i]>>}
                        /\ m[i].needs \subseteq s \ Of("policy", Range(ts))
  <2> TAKE i \in 1 .. n
  <2>1. <<"table", ts[i]>> \in s
    BY <1>2 DEF Of, Range
  <2>2. {<<"table", ts[i]>>} \subseteq s \ Of("policy", Range(ts))
    BY <2>1 DEF Of
  <2>3. /\ m[i].adds = {} /\ m[i].forbids = {} /\ m[i].drops = {<<"policy", ts[i]>>}
        /\ m[i].needs = {<<"table", ts[i]>>}
    BY <1>2, PolicyStatements
  <2> QED BY <2>2, <2>3
<1>6. Of("policy", Range(ts)) = UNION {m[i].drops : i \in DOMAIN m}
  BY <1>2, <1>5 DEF Of, Range
<1>7. \A i \in DOMAIN m : /\ m[i].adds = {} /\ m[i].forbids \cap (s \cup Settings) = {}
                          /\ m[i].needs \subseteq s \ Of("policy", Range(ts)) \/ m[i].needs \subseteq Settings
  BY <1>2, <1>5
<1> QED BY <1>1, <1>4, <1>6, <1>7, SteadyUndoes

\* Every table of a loop once.
Distinct(ts) == \A i \in DOMAIN ts : \A j \in DOMAIN ts : ts[i] = ts[j] => i = j

\* CREATE POLICY for each, once it and the tables its policy reads are there.
LEMMA PoliciesLead ==
  ASSUME NEW ts, IsList(ts), Distinct(ts), NEW s, NEW r,
         Of("table", Range(ts)) \subseteq s, Of("policy", Range(ts)) \cap s = {},
         \A t \in Range(ts) : Of("table", PolicyReads(t)) \subseteq s
  PROVE  Leads(s, Policies(ts), r, Of("policy", Range(ts)))
<1>1. PICK n, m : n \in Nat /\ n = Len(ts) /\ m = Policies(ts)
  BY ListDomain
<1> n \in Nat
  BY <1>1
<1>2. DOMAIN ts = 1 .. n /\ DOMAIN m = 1 .. n /\ \A i \in 1 .. n : m[i] = CreatePolicy(ts[i])
  BY <1>1, ListDomain DEF Policies
<1>3. m = [i \in 1 .. n |-> m[i]]
  BY <1>1, <1>2 DEF Policies
<1>4. IsList(m)
  BY <1>3, ListOf
<1>5. \A i \in 1 .. n : /\ m[i].drops = {} /\ m[i].forbids = {<<"policy", ts[i]>>}
                        /\ m[i].adds = {<<"policy", ts[i]>>} /\ m[i].needs \subseteq s
  <2> TAKE i \in 1 .. n
  <2>1. ts[i] \in Range(ts)
    BY <1>2 DEF Range
  <2>2. Of("table", {ts[i]} \cup PolicyReads(ts[i])) \subseteq s
    BY <2>1 DEF Of
  <2> QED BY <1>2, <2>2, PolicyStatements
<1>6. \A i \in 1 .. n : Gives(m[i], r) = {<<"policy", ts[i]>>}
  BY <1>5 DEF Gives
<1>7. Given(m, r) = Of("policy", Range(ts))
  BY <1>2, <1>4, <1>6, GivenIs DEF Of, Range
<1>8. \A i \in 1 .. n : <<"policy", ts[i]>> \notin s \cup GivenBefore(m, i, r)
  <2> TAKE i \in 1 .. n
  <2>1. <<"policy", ts[i]>> \notin s
    BY <1>2 DEF Of, Range
  <2>2. ASSUME NEW j \in 1 .. n, j < i, <<"policy", ts[i]>> \in Gives(m[j], r) PROVE FALSE
    <3>1. ts[i] = ts[j]
      BY <1>6, <2>2
    <3> QED BY <1>2, <2>2, <3>1 DEF Distinct
  <2>3. <<"policy", ts[i]>> \notin GivenBefore(m, i, r)
    BY <1>2, <1>4, <2>2, GivenIs
  <2> QED BY <2>1, <2>3
<1>9. Grows(s, m, r)
  <2> SUFFICES ASSUME NEW i \in 1 .. n
               PROVE  /\ m[i].drops = {} /\ Runs(m[i], s \cup GivenBefore(m, i, r))
                      /\ \A f \in m[i].adds : f[1] # "sequence"
    BY <1>2 DEF Grows
  <2>1. Runs(m[i], s \cup GivenBefore(m, i, r))
    BY <1>5, <1>8 DEF Runs, Settings, Of
  <2> QED BY <1>5, <2>1
<1> QED BY <1>1, <1>4, <1>7, <1>9 DEF Leads

\* The places of a loop with two statements for each table.
LEMMA Halves ==
  ASSUME NEW n \in Nat
  PROVE  /\ \A i \in 1 .. 2 * n : i % 2 = 1 => (i + 1) \div 2 \in 1 .. n
         /\ \A i \in 1 .. 2 * n : i % 2 # 1 => i \div 2 \in 1 .. n
         /\ \A j \in 1 .. n : /\ 2 * j - 1 \in 1 .. 2 * n /\ (2 * j - 1) % 2 = 1 /\ ((2 * j - 1) + 1) \div 2 = j
                            /\ 2 * j \in 1 .. 2 * n /\ (2 * j) % 2 # 1 /\ (2 * j) \div 2 = j
OBVIOUS

\* Which statements the loop of ENABLE and FORCE runs: both, for every table.
LEMMA GuardedIs ==
  ASSUME NEW ts, IsList(ts)
  PROVE  /\ IsList(Guarded(ts))
         /\ \A i \in DOMAIN Guarded(ts) : \E t \in Range(ts) : Guarded(ts)[i] \in {Enable(t), ForceRls(t)}
         /\ \A t \in Range(ts) : \A st \in {Enable(t), ForceRls(t)} : \E i \in DOMAIN Guarded(ts) : Guarded(ts)[i] = st
<1>1. PICK n, m : n \in Nat /\ n = Len(ts) /\ m = Guarded(ts)
  BY ListDomain
<1> n \in Nat
  BY <1>1
<1>2. /\ DOMAIN ts = 1 .. n
      /\ m = [i \in 1 .. 2 * n |-> IF i % 2 = 1 THEN Enable(ts[(i + 1) \div 2]) ELSE ForceRls(ts[i \div 2])]
  BY <1>1, ListDomain DEF Guarded
<1>3. PICK p \in Nat : p = 2 * n
  BY <1>1
<1>4. DOMAIN m = 1 .. p /\ IsList(m)
  <2>1. DOMAIN m = 1 .. p /\ m = [i \in 1 .. p |-> m[i]]
    BY <1>2, <1>3
  <2> QED BY <2>1, ListOf
<1>5. ASSUME NEW i \in 1 .. p PROVE \E t \in Range(ts) : m[i] \in {Enable(t), ForceRls(t)}
  <2>1. CASE i % 2 = 1
    <3>1. PICK j \in 1 .. n : j = (i + 1) \div 2
      BY <1>3, <2>1, Halves
    <3>2. m[i] = Enable(ts[j]) /\ ts[j] \in Range(ts)
      BY <1>2, <1>3, <2>1, <3>1 DEF Range
    <3> QED BY <3>2
  <2>2. CASE i % 2 # 1
    <3>1. PICK j \in 1 .. n : j = i \div 2
      BY <1>3, <2>2, Halves
    <3>2. m[i] = ForceRls(ts[j]) /\ ts[j] \in Range(ts)
      BY <1>2, <1>3, <2>2, <3>1 DEF Range
    <3> QED BY <3>2
  <2> QED BY <2>1, <2>2
<1>6. ASSUME NEW t \in Range(ts)
      PROVE  (\E i \in 1 .. p : m[i] = Enable(t)) /\ \E i \in 1 .. p : m[i] = ForceRls(t)
  <2>1. PICK j \in 1 .. n : ts[j] = t
    BY <1>2 DEF Range
  <2>2. PICK i \in 1 .. p : i % 2 = 1 /\ (i + 1) \div 2 = j
    BY <1>3, <2>1, Halves
  <2>3. m[i] = Enable(t)
    BY <1>2, <1>3, <2>1, <2>2
  <2>4. PICK k \in 1 .. p : k % 2 # 1 /\ k \div 2 = j
    BY <1>3, <2>1, Halves
  <2>5. m[k] = ForceRls(t)
    BY <1>2, <1>3, <2>1, <2>4
  <2> QED BY <2>3, <2>5
<1> QED BY <1>1, <1>4, <1>5, <1>6

\* The same for NO FORCE and DISABLE.
LEMMA UnguardedIs ==
  ASSUME NEW ts, IsList(ts)
  PROVE  /\ IsList(Unguarded(ts))
         /\ \A i \in DOMAIN Unguarded(ts) : \E t \in Range(ts) : Unguarded(ts)[i] \in {NoForceRls(t), Disable(t)}
         /\ \A t \in Range(ts) : \A st \in {NoForceRls(t), Disable(t)} : \E i \in DOMAIN Unguarded(ts) : Unguarded(ts)[i] = st
<1>1. PICK n, m : n \in Nat /\ n = Len(ts) /\ m = Unguarded(ts)
  BY ListDomain
<1> n \in Nat
  BY <1>1
<1>2. /\ DOMAIN ts = 1 .. n
      /\ m = [i \in 1 .. 2 * n |-> IF i % 2 = 1 THEN NoForceRls(ts[(i + 1) \div 2]) ELSE Disable(ts[i \div 2])]
  BY <1>1, ListDomain DEF Unguarded
<1>3. PICK p \in Nat : p = 2 * n
  BY <1>1
<1>4. DOMAIN m = 1 .. p /\ IsList(m)
  <2>1. DOMAIN m = 1 .. p /\ m = [i \in 1 .. p |-> m[i]]
    BY <1>2, <1>3
  <2> QED BY <2>1, ListOf
<1>5. ASSUME NEW i \in 1 .. p PROVE \E t \in Range(ts) : m[i] \in {NoForceRls(t), Disable(t)}
  <2>1. CASE i % 2 = 1
    <3>1. PICK j \in 1 .. n : j = (i + 1) \div 2
      BY <1>3, <2>1, Halves
    <3>2. m[i] = NoForceRls(ts[j]) /\ ts[j] \in Range(ts)
      BY <1>2, <1>3, <2>1, <3>1 DEF Range
    <3> QED BY <3>2
  <2>2. CASE i % 2 # 1
    <3>1. PICK j \in 1 .. n : j = i \div 2
      BY <1>3, <2>2, Halves
    <3>2. m[i] = Disable(ts[j]) /\ ts[j] \in Range(ts)
      BY <1>2, <1>3, <2>2, <3>1 DEF Range
    <3> QED BY <3>2
  <2> QED BY <2>1, <2>2
<1>6. ASSUME NEW t \in Range(ts)
      PROVE  (\E i \in 1 .. p : m[i] = NoForceRls(t)) /\ \E i \in 1 .. p : m[i] = Disable(t)
  <2>1. PICK j \in 1 .. n : ts[j] = t
    BY <1>2 DEF Range
  <2>2. PICK i \in 1 .. p : i % 2 = 1 /\ (i + 1) \div 2 = j
    BY <1>3, <2>1, Halves
  <2>3. m[i] = NoForceRls(t)
    BY <1>2, <1>3, <2>1, <2>2
  <2>4. PICK k \in 1 .. p : k % 2 # 1 /\ k \div 2 = j
    BY <1>3, <2>1, Halves
  <2>5. m[k] = Disable(t)
    BY <1>2, <1>3, <2>1, <2>4
  <2> QED BY <2>3, <2>5
<1> QED BY <1>1, <1>4, <1>5, <1>6

\* ENABLE and FORCE for each table.
LEMMA GuardedLeads ==
  ASSUME NEW ts, IsList(ts), NEW s, NEW r, Of("table", Range(ts)) \subseteq s
  PROVE  Leads(s, Guarded(ts), r, {"rls", "force"} \X Range(ts))
<1>1. PICK m : m = Guarded(ts)
  OBVIOUS
<1>2. /\ IsList(m)
      /\ \A i \in DOMAIN m : \E t \in Range(ts) : m[i] \in {Enable(t), ForceRls(t)}
      /\ \A t \in Range(ts) : \A st \in {Enable(t), ForceRls(t)} : \E i \in DOMAIN m : m[i] = st
  BY <1>1, GuardedIs
<1>3. ASSUME NEW i \in DOMAIN m
      PROVE  \E t \in Range(ts) : /\ m[i].drops = {} /\ m[i].forbids = {} /\ m[i].needs \subseteq s
                                  /\ m[i].adds = {<<"rls", t>>} \/ m[i].adds = {<<"force", t>>}
  <2>1. PICK t \in Range(ts) : m[i] = Enable(t) \/ m[i] = ForceRls(t)
    BY <1>2
  <2>2. <<"table", t>> \in s
    BY DEF Of
  <2>3. m[i].drops = {} /\ m[i].forbids = {} /\ m[i].needs \subseteq s
    BY <2>1, <2>2, RowSecurity
  <2>4. m[i].adds = {<<"rls", t>>} \/ m[i].adds = {<<"force", t>>}
    BY <2>1, RowSecurity
  <2> QED BY <2>3, <2>4
<1>4. UNION {m[i].adds : i \in DOMAIN m} = {"rls", "force"} \X Range(ts)
  <2>1. \A i \in DOMAIN m : m[i].adds \subseteq {"rls", "force"} \X Range(ts)
    BY <1>3
  <2>2. \A t \in Range(ts) : \E i \in DOMAIN m : <<"rls", t>> \in m[i].adds
    BY <1>2, RowSecurity
  <2>3. \A t \in Range(ts) : \E i \in DOMAIN m : <<"force", t>> \in m[i].adds
    BY <1>2, RowSecurity
  <2> QED BY <2>1, <2>2, <2>3
<1>5. \A i \in DOMAIN m : /\ m[i].drops = {} /\ m[i].forbids = {}
                          /\ m[i].needs \subseteq s \/ m[i].needs \subseteq Settings
                          /\ \A f \in m[i].adds : f[1] # "sequence"
  <2> TAKE i \in DOMAIN m
  <2>1. PICK t \in Range(ts) : m[i].drops = {} /\ m[i].forbids = {} /\ m[i].needs \subseteq s
    BY <1>3
  <2>2. \A f \in m[i].adds : f[1] # "sequence"
    BY <1>3
  <2> QED BY <2>1, <2>2
<1> QED BY <1>1, <1>2, <1>4, <1>5, SteadyLeads

\* NO FORCE and DISABLE for each table.
LEMMA UnguardedUndoes ==
  ASSUME NEW ts, IsList(ts), NEW s, Of("table", Range(ts)) \subseteq s
  PROVE  Undoes(s, Unguarded(ts), {"rls", "force"} \X Range(ts))
<1>1. PICK m, g : m = Unguarded(ts) /\ g = {"rls", "force"} \X Range(ts)
  OBVIOUS
<1>2. /\ IsList(m)
      /\ \A i \in DOMAIN m : \E t \in Range(ts) : m[i] \in {NoForceRls(t), Disable(t)}
      /\ \A t \in Range(ts) : \A st \in {NoForceRls(t), Disable(t)} : \E i \in DOMAIN m : m[i] = st
  BY <1>1, UnguardedIs
<1>3. ASSUME NEW i \in DOMAIN m
      PROVE  \E t \in Range(ts) : /\ m[i].adds = {} /\ m[i].forbids = {} /\ m[i].needs \subseteq s \ g
                                  /\ m[i].drops = {<<"rls", t>>} \/ m[i].drops = {<<"force", t>>}
  <2>1. PICK t \in Range(ts) : m[i] = NoForceRls(t) \/ m[i] = Disable(t)
    BY <1>2
  <2>2. <<"table", t>> \in s \ g
    BY <1>1 DEF Of
  <2>3. m[i].adds = {} /\ m[i].forbids = {} /\ m[i].needs \subseteq s \ g
    BY <2>1, <2>2, RowSecurity
  <2>4. m[i].drops = {<<"rls", t>>} \/ m[i].drops = {<<"force", t>>}
    BY <2>1, RowSecurity
  <2> QED BY <2>3, <2>4
<1>4. UNION {m[i].drops : i \in DOMAIN m} = g
  <2>1. \A i \in DOMAIN m : m[i].drops \subseteq g
    BY <1>1, <1>3
  <2>2. \A t \in Range(ts) : \E i \in DOMAIN m : <<"rls", t>> \in m[i].drops
    BY <1>2, RowSecurity
  <2>3. \A t \in Range(ts) : \E i \in DOMAIN m : <<"force", t>> \in m[i].drops
    BY <1>2, RowSecurity
  <2> QED BY <1>1, <2>1, <2>2, <2>3
<1>5. \A i \in DOMAIN m : /\ m[i].adds = {} /\ m[i].forbids \cap (s \cup Settings) = {}
                          /\ m[i].needs \subseteq s \ g \/ m[i].needs \subseteq Settings
  <2> TAKE i \in DOMAIN m
  <2>1. PICK t \in Range(ts) : m[i].adds = {} /\ m[i].forbids = {} /\ m[i].needs \subseteq s \ g
    BY <1>3
  <2> QED BY <2>1
<1> QED BY <1>1, <1>2, <1>4, <1>5, SteadyUndoes

\* What CREATE TABLE and DROP TABLE need, refuse, add and drop.
LEMMA TableStatements ==
  ASSUME NEW t
  PROVE  /\ \A f \in CreateTable(t).needs :
              \/ \E u \in References(t) : f = <<"table", u>>
              \/ \E u \in OldTypes(t) : f = <<"type", u>>
              \/ f \in Vector
         /\ \A f : f \in CreateTable(t).forbids <=> (f = <<"table", t>> \/ \E u \in NewTypes(t) : f = <<"type", u>>)
         /\ \A f : f \in CreateTable(t).adds <=> (f = <<"table", t>> \/ \E u \in NewTypes(t) : f = <<"type", u>>)
         /\ CreateTable(t).drops = {}
         /\ DropTable(t).needs = {<<"table", t>>}
         /\ \A f \in DropTable(t).forbids :
              \/ \E u \in Tables : t \in References(u) /\ f = <<"table", u>>
              \/ \E u \in Tables : t \in PolicyReads(u) /\ f = <<"policy", u>>
         /\ DropTable(t).adds = {}
         /\ DropTable(t).drops = {"table", "grant", "sequence", "rls", "force", "policy"} \X {t}
<1>1. PICK v, x, a, b, c, d :
        /\ v = (IF t \in {"vehicle_embeddings", "policy_chunks"} THEN Vector ELSE {})
        /\ a = Of("table", References(t)) /\ b = Of("type", OldTypes(t))
        /\ x = a \cup b \cup v
        /\ c = Of("table", {t}) \cup Of("type", NewTypes(t))
        /\ d = Of("table", {u \in Tables : t \in References(u)}) \cup Of("policy", {u \in Tables : t \in PolicyReads(u)})
  OBVIOUS
<1>2. /\ CreateTable(t).needs = x /\ CreateTable(t).forbids = c /\ CreateTable(t).adds = c /\ CreateTable(t).drops = {}
  BY <1>1 DEF CreateTable
<1>3. /\ DropTable(t).needs = {<<"table", t>>} /\ DropTable(t).forbids = d /\ DropTable(t).adds = {}
      /\ DropTable(t).drops = {"table", "grant", "sequence", "rls", "force", "policy"} \X {t}
  <2>1. Of("table", {t}) = {<<"table", t>>}
    BY DEF Of
  <2> QED BY <1>1, <2>1 DEF DropTable, Existing, Statement
<1>4. \A f \in x : \/ \E u \in References(t) : f = <<"table", u>>
                   \/ \E u \in OldTypes(t) : f = <<"type", u>>
                   \/ f \in Vector
  <2>1. \A f \in v : f \in Vector
    BY <1>1
  <2> QED BY <1>1, <2>1 DEF Of
<1>5. \A f : f \in c <=> (f = <<"table", t>> \/ \E u \in NewTypes(t) : f = <<"type", u>>)
  BY <1>1 DEF Of
<1>6. \A f \in d : \/ \E u \in Tables : t \in References(u) /\ f = <<"table", u>>
                   \/ \E u \in Tables : t \in PolicyReads(u) /\ f = <<"policy", u>>
  BY <1>1 DEF Of
<1> QED BY <1>2, <1>3, <1>4, <1>5, <1>6

\* Tables created in an order in which every foreign key finds its table, and every
\* type in use was created with a table before.
LEMMA CreatedLeads ==
  ASSUME NEW ts, IsList(ts), Distinct(ts), NEW s, NEW r, Vector \subseteq s,
         \A t \in Range(ts) : <<"table", t>> \notin s /\ \A n \in NewTypes(t) : <<"type", n>> \notin s,
         \A i \in DOMAIN ts : \A u \in References(ts[i]) :
           <<"table", u>> \in s \/ \E j \in DOMAIN ts : j < i /\ ts[j] = u,
         \A i \in DOMAIN ts : \A n \in OldTypes(ts[i]) : \E j \in DOMAIN ts : j < i /\ n \in NewTypes(ts[j])
  PROVE  Leads(s, Created(ts), r,
               Of("table", Range(ts)) \cup Of("type", UNION {NewTypes(t) : t \in Range(ts)}))
<1>1. PICK n, m : n \in Nat /\ n = Len(ts) /\ m = Created(ts)
  BY ListDomain
<1> n \in Nat
  BY <1>1
<1>2. DOMAIN ts = 1 .. n /\ DOMAIN m = 1 .. n /\ \A i \in 1 .. n : m[i] = CreateTable(ts[i])
  BY <1>1, ListDomain DEF Created
<1>3. m = [i \in 1 .. n |-> m[i]]
  BY <1>1, <1>2 DEF Created
<1>4. IsList(m)
  BY <1>3, ListOf
<1>5. \A i \in 1 .. n : \A f : f \in Gives(m[i], r) <=> (f = <<"table", ts[i]>> \/ \E u \in NewTypes(ts[i]) : f = <<"type", u>>)
  <2> TAKE i \in 1 .. n
  <2> TAKE f
  <2>1. f \in m[i].adds <=> (f = <<"table", ts[i]>> \/ \E u \in NewTypes(ts[i]) : f = <<"type", u>>)
    BY <1>2, TableStatements
  <2>2. f \in Gives(m[i], r) <=> f \in m[i].adds /\ (f[1] = "sequence" => <<"table", f[2]>> \in Canonical(r))
    BY DEF Gives
  <2> QED BY <2>1, <2>2
<1>6. Given(m, r) = Of("table", Range(ts)) \cup Of("type", UNION {NewTypes(t) : t \in Range(ts)})
  BY <1>2, <1>4, <1>5, GivenIs DEF Of, Range
<1>7. Grows(s, m, r)
  <2> SUFFICES ASSUME NEW i \in 1 .. n
               PROVE  /\ m[i].drops = {} /\ Runs(m[i], s \cup GivenBefore(m, i, r))
                      /\ \A f \in m[i].adds : f[1] # "sequence"
    BY <1>2 DEF Grows
  <2>1. m[i].drops = {} /\ \A f \in m[i].adds : f[1] # "sequence"
    BY <1>2, TableStatements
  <2>2. PICK before : before = GivenBefore(m, i, r)
    OBVIOUS
  <2>3. \A f : f \in before <=> \E j \in 1 .. n : j < i /\ f \in Gives(m[j], r)
    BY <1>2, <1>4, <2>2, GivenIs
  <2>4. ASSUME NEW f \in m[i].needs PROVE f \in s \cup before
    <3>1. CASE \E u \in References(ts[i]) : f = <<"table", u>>
      <4>1. PICK u \in References(ts[i]) : f = <<"table", u>>
        BY <3>1
      <4>2. CASE <<"table", u>> \notin s
        <5>1. PICK j \in 1 .. n : j < i /\ ts[j] = u
          BY <1>2, <4>2
        <5> QED BY <1>5, <2>3, <4>1, <5>1
      <4> QED BY <4>1, <4>2
    <3>2. CASE \E u \in OldTypes(ts[i]) : f = <<"type", u>>
      <4>1. PICK u \in OldTypes(ts[i]) : f = <<"type", u>>
        BY <3>2
      <4>2. PICK j \in 1 .. n : j < i /\ u \in NewTypes(ts[j])
        BY <1>2
      <4> QED BY <1>5, <2>3, <4>1, <4>2
    <3> QED BY <1>2, <3>1, <3>2, TableStatements
  <2>5. ASSUME NEW f \in m[i].forbids PROVE f \notin s \cup before \cup Settings
    <3>1. f = <<"table", ts[i]>> \/ \E u \in NewTypes(ts[i]) : f = <<"type", u>>
      BY <1>2, TableStatements
    <3>2. f \notin s /\ f \notin Settings
      <4>1. ts[i] \in Range(ts)
        BY <1>2 DEF Range
      <4>2. f \notin s
        BY <3>1, <4>1
      <4>3. f \notin Settings
        BY <3>1 DEF Settings, Of
      <4> QED BY <4>2, <4>3
    <3>3. ASSUME NEW j \in 1 .. n, j < i, f \in Gives(m[j], r) PROVE FALSE
      <4>1. f = <<"table", ts[j]>> \/ \E u \in NewTypes(ts[j]) : f = <<"type", u>>
        BY <1>5, <3>3
      <4>2. ts[i] = ts[j] \/ \E u : u \in NewTypes(ts[i]) /\ u \in NewTypes(ts[j])
        BY <3>1, <4>1
      <4>3. ts[i] = ts[j]
        BY <4>2 DEF NewTypes
      <4> QED BY <1>2, <3>3, <4>3 DEF Distinct
    <3> QED BY <2>3, <3>2, <3>3
  <2>6. Runs(m[i], s \cup before)
    <3>1. m[i].needs \subseteq s \cup before
      BY <2>4
    <3>2. m[i].forbids \cap ((s \cup before) \cup Settings) = {}
      BY <2>5
    <3> QED BY <3>1, <3>2 DEF Runs
  <2> QED BY <2>1, <2>2, <2>6
<1> QED BY <1>1, <1>4, <1>6, <1>7 DEF Leads

\* Tables dropped in an order in which whatever points at one is gone before it,
\* after the policies that read it.
LEMMA DroppedUndoes ==
  ASSUME NEW ts, IsList(ts), Distinct(ts), NEW s,
         Of("table", Range(ts)) \subseteq s,
         \A i \in DOMAIN ts : \A u \in Tables : ts[i] \in References(u) =>
           (<<"table", u>> \notin s \/ \E j \in DOMAIN ts : j < i /\ ts[j] = u),
         \A t \in Range(ts) : \A u \in Tables : t \in PolicyReads(u) => <<"policy", u>> \notin s
  PROVE  Undoes(s, Dropped(ts), {"table", "grant", "sequence", "rls", "force", "policy"} \X Range(ts))
<1>1. PICK n, m, K : /\ n \in Nat /\ n = Len(ts) /\ m = Dropped(ts)
                             /\ K = {"table", "grant", "sequence", "rls", "force", "policy"}
  BY ListDomain
<1> n \in Nat
  BY <1>1
<1>2. DOMAIN ts = 1 .. n /\ DOMAIN m = 1 .. n /\ \A i \in 1 .. n : m[i] = DropTable(ts[i])
  BY <1>1, ListDomain DEF Dropped
<1>3. m = [i \in 1 .. n |-> m[i]]
  BY <1>1, <1>2 DEF Dropped
<1>4. IsList(m)
  BY <1>3, ListOf
<1>5. \A i \in 1 .. n : m[i].adds = {} /\ m[i].drops = K \X {ts[i]} /\ m[i].needs = {<<"table", ts[i]>>}
  BY <1>1, <1>2, TableStatements
<1>6. Taken(m) = K \X Range(ts)
  <2>1. UNION {m[i].drops : i \in DOMAIN m} = K \X Range(ts)
    BY <1>2, <1>5 DEF Range
  <2> QED BY <1>4, <2>1, TakenIs
<1>7. Shrinks(s, m)
  <2> SUFFICES ASSUME NEW i \in 1 .. n PROVE m[i].adds = {} /\ Runs(m[i], s \ TakenBefore(m, i))
    BY <1>2 DEF Shrinks
  <2>1. PICK before : before = TakenBefore(m, i)
    OBVIOUS
  <2>2. \A f : f \in before <=> \E j \in 1 .. n : j < i /\ f \in K \X {ts[j]}
    BY <1>2, <1>4, <1>5, <2>1, TakenIs
  <2>3. <<"table", ts[i]>> \in s \ before
    <3>1. <<"table", ts[i]>> \in s
      BY <1>2 DEF Of, Range
    <3>2. ASSUME NEW j \in 1 .. n, j < i, <<"table", ts[i]>> \in K \X {ts[j]} PROVE FALSE
      <4>1. ts[i] = ts[j]
        BY <3>2
      <4> QED BY <1>2, <3>2, <4>1 DEF Distinct
    <3> QED BY <2>2, <3>1, <3>2
  <2>4. ASSUME NEW f \in m[i].forbids PROVE f \notin (s \ before) \cup Settings
    <3>1. \/ \E u \in Tables : ts[i] \in References(u) /\ f = <<"table", u>>
          \/ \E u \in Tables : ts[i] \in PolicyReads(u) /\ f = <<"policy", u>>
      BY <1>2, TableStatements
    <3>2. f \notin Settings
      BY <3>1 DEF Settings, Of
    <3>3. CASE \E u \in Tables : ts[i] \in References(u) /\ f = <<"table", u>>
      <4>1. PICK u \in Tables : ts[i] \in References(u) /\ f = <<"table", u>>
        BY <3>3
      <4>2. CASE <<"table", u>> \in s
        <5>1. PICK j \in 1 .. n : j < i /\ ts[j] = u
          BY <1>2, <4>1, <4>2
        <5>2. f \in K \X {ts[j]}
          BY <1>1, <4>1, <5>1
        <5> QED BY <2>2, <3>2, <5>1, <5>2
      <4> QED BY <3>2, <4>1, <4>2
    <3>4. CASE \E u \in Tables : ts[i] \in PolicyReads(u) /\ f = <<"policy", u>>
      <4>1. PICK u \in Tables : ts[i] \in PolicyReads(u) /\ f = <<"policy", u>>
        BY <3>4
      <4>2. ts[i] \in Range(ts)
        BY <1>2 DEF Range
      <4>3. f \notin s
        BY <4>1, <4>2
      <4> QED BY <3>2, <4>3
    <3> QED BY <3>1, <3>3, <3>4
  <2>5. Runs(m[i], s \ before)
    <3>1. m[i].needs \subseteq s \ before
      BY <1>5, <2>3
    <3>2. m[i].forbids \cap ((s \ before) \cup Settings) = {}
      BY <2>4
    <3> QED BY <3>1, <3>2 DEF Runs
  <2> QED BY <1>5, <2>1, <2>5
<1> QED BY <1>1, <1>4, <1>6, <1>7 DEF Undoes

-----------------------------------------------------------------------------
\* The lists of tables.

\* The order the first revision creates its tables in.
LEMMA InitialList ==
  LET m == InitialTables IN
  /\ IsList(m) /\ Len(m) = 7 /\ DOMAIN m = 1 .. 7
  /\ m[1] = "customers" /\ m[2] = "vehicles" /\ m[3] = "escalations" /\ m[4] = "orders"
  /\ m[5] = "test_drive_bookings" /\ m[6] = "vehicle_embeddings" /\ m[7] = "order_status_history"
<1>1. PICK m : m = InitialTables
  OBVIOUS
<1>2. m \in Seq(Initially) /\ Len(m) = 7
  BY <1>1 DEF InitialTables, Initially
<1> QED BY <1>1, <1>2 DEF IsList, InitialTables

\* The order they are dropped in.
LEMMA ReverseInitialList ==
  LET m == Reverse(InitialTables) IN
  /\ IsList(m) /\ Len(m) = 7 /\ DOMAIN m = 1 .. 7
  /\ m[7] = "customers" /\ m[6] = "vehicles" /\ m[5] = "escalations" /\ m[4] = "orders"
  /\ m[3] = "test_drive_bookings" /\ m[2] = "vehicle_embeddings" /\ m[1] = "order_status_history"
<1>1. PICK m, t : t = InitialTables /\ m = Reverse(t)
  OBVIOUS
<1>2. /\ Len(t) = 7 /\ t[1] = "customers" /\ t[2] = "vehicles" /\ t[3] = "escalations" /\ t[4] = "orders"
      /\ t[5] = "test_drive_bookings" /\ t[6] = "vehicle_embeddings" /\ t[7] = "order_status_history"
  BY <1>1, InitialList
<1>3. m = [i \in 1 .. 7 |-> t[(7 - i) + 1]]
  BY <1>1, <1>2 DEF Reverse
<1>4. m = [i \in 1 .. 7 |-> m[i]]
  BY <1>3
<1>5. IsList(m) /\ Len(m) = 7 /\ DOMAIN m = 1 .. 7
  BY <1>4, ListOf
<1> QED BY <1>1, <1>2, <1>3, <1>5

\* The two of the last revision.
LEMMA ConversationList ==
  /\ IsList(ConversationTables) /\ Len(ConversationTables) = 2 /\ DOMAIN ConversationTables = 1 .. 2
  /\ ConversationTables[1] = "conversations" /\ ConversationTables[2] = "conversation_messages"
<1>1. PICK m : m = ConversationTables
  OBVIOUS
<1>2. m \in Seq(Talks) /\ Len(m) = 2
  BY <1>1 DEF ConversationTables, Talks
<1> QED BY <1>1, <1>2 DEF IsList, ConversationTables

\* The order they are dropped in.
LEMMA ReverseConversationList ==
  LET m == Reverse(ConversationTables) IN
  /\ IsList(m) /\ Len(m) = 2 /\ DOMAIN m = 1 .. 2
  /\ m[1] = "conversation_messages" /\ m[2] = "conversations"
<1>1. PICK m, t : t = ConversationTables /\ m = Reverse(t)
  OBVIOUS
<1>2. Len(t) = 2 /\ t[1] = "conversations" /\ t[2] = "conversation_messages"
  BY <1>1, ConversationList
<1>3. m = [i \in 1 .. 2 |-> t[(2 - i) + 1]]
  BY <1>1, <1>2 DEF Reverse
<1>4. m = [i \in 1 .. 2 |-> m[i]]
  BY <1>3
<1>5. IsList(m) /\ Len(m) = 2 /\ DOMAIN m = 1 .. 2
  BY <1>4, ListOf
<1> QED BY <1>1, <1>2, <1>3, <1>5

\* The tables the second revision guards.
LEMMA AppRoleList ==
  /\ IsList(AppRoleTables) /\ Range(AppRoleTables) = Scoped
<1>1. PICK m : m = AppRoleTables
  OBVIOUS
<1>2. m \in Seq(Scoped)
  BY <1>1 DEF AppRoleTables, Scoped
<1> QED BY <1>1, <1>2, TableNames DEF IsList, Scoped

\* What a list of five different tables ranges over.
LEMMA Five ==
  ASSUME NEW m, DOMAIN m = 1 .. 5, NEW a, NEW b, NEW c, NEW d, NEW e,
         m[1] = a, m[2] = b, m[3] = c, m[4] = d, m[5] = e,
         a \notin {b, c, d, e}, b \notin {c, d, e}, c \notin {d, e}, d # e
  PROVE  Range(m) = {a, b, c, d, e} /\ Distinct(m)
<1>1. \A i : i \in 1 .. 5 <=> i \in {1, 2, 3, 4, 5}
  OBVIOUS
<1>2. Range(m) = {a, b, c, d, e}
  BY <1>1 DEF Range
<1>3. Distinct(m)
  BY <1>1 DEF Distinct
<1> QED BY <1>2, <1>3

\* The same for a list of two.
LEMMA Two ==
  ASSUME NEW m, DOMAIN m = 1 .. 2, NEW a, NEW b, m[1] = a, m[2] = b, a # b
  PROVE  Range(m) = {a, b} /\ Distinct(m)
<1>1. \A i : i \in 1 .. 2 <=> i \in {1, 2}
  OBVIOUS
<1> QED BY <1>1 DEF Range, Distinct

\* The same for a list of seven.
LEMMA Seven ==
  ASSUME NEW m, DOMAIN m = 1 .. 7, NEW a, NEW b, NEW c, NEW d, NEW e, NEW f, NEW g,
         m[1] = a, m[2] = b, m[3] = c, m[4] = d, m[5] = e, m[6] = f, m[7] = g,
         a \notin {b, c, d, e, f, g}, b \notin {c, d, e, f, g}, c \notin {d, e, f, g},
         d \notin {e, f, g}, e \notin {f, g}, f # g
  PROVE  Range(m) = {a, b, c, d, e, f, g} /\ Distinct(m)
<1>1. \A i : i \in 1 .. 7 <=> i \in {1, 2, 3, 4, 5, 6, 7}
  OBVIOUS
<1>2. Range(m) = {a, b, c, d, e, f, g}
  BY <1>1 DEF Range
<1>3. Distinct(m)
  BY <1>1 DEF Distinct
<1> QED BY <1>2, <1>3

\* What the lists of tables range over, none of them naming one twice.
LEMMA Ranges ==
  /\ Range(InitialTables) = Initially /\ Distinct(InitialTables)
  /\ Range(Reverse(InitialTables)) = Initially /\ Distinct(Reverse(InitialTables))
  /\ Range(ConversationTables) = Talks /\ Distinct(ConversationTables)
  /\ Range(Reverse(ConversationTables)) = Talks /\ Distinct(Reverse(ConversationTables))
<1>1. Range(InitialTables) = Initially /\ Distinct(InitialTables)
  BY InitialList, Seven DEF Initially
<1>2. Range(Reverse(InitialTables)) = Initially /\ Distinct(Reverse(InitialTables))
  BY ReverseInitialList, Seven DEF Initially
<1>3. Range(ConversationTables) = Talks /\ Distinct(ConversationTables)
  BY ConversationList, Two DEF Talks
<1>4. Range(Reverse(ConversationTables)) = Talks /\ Distinct(Reverse(ConversationTables))
  BY ReverseConversationList, Two DEF Talks
<1> QED BY <1>1, <1>2, <1>3, <1>4

\* The orders policies are created and dropped in.
LEMMA PolicyLists ==
  LET up == DirectScopeTables \o <<"customers", "order_status_history">>
      down == <<"order_status_history", "customers">> \o DirectScopeTables
  IN /\ IsList(up) /\ Range(up) = Scoped /\ Distinct(up)
     /\ IsList(down) /\ Range(down) = Scoped
<1>1. PICK u, d : /\ u = DirectScopeTables \o <<"customers", "order_status_history">>
                  /\ d = <<"order_status_history", "customers">> \o DirectScopeTables
  OBVIOUS
<1>2. u \in Seq(Scoped) /\ d \in Seq(Scoped)
  <2>1. PICK x, y, z : x = DirectScopeTables /\ y = <<"customers", "order_status_history">>
                       /\ z = <<"order_status_history", "customers">>
    OBVIOUS
  <2>2. x \in Seq(Scoped) /\ y \in Seq(Scoped) /\ z \in Seq(Scoped)
    BY <2>1 DEF DirectScopeTables, Scoped
  <2> QED BY <1>1, <2>1, <2>2
<1>3. /\ DOMAIN u = 1 .. 5 /\ u[1] = "orders" /\ u[2] = "test_drive_bookings" /\ u[3] = "escalations"
      /\ u[4] = "customers" /\ u[5] = "order_status_history"
  BY <1>1 DEF DirectScopeTables
<1>4. /\ DOMAIN d = 1 .. 5 /\ d[1] = "order_status_history" /\ d[2] = "customers" /\ d[3] = "orders"
      /\ d[4] = "test_drive_bookings" /\ d[5] = "escalations"
  BY <1>1 DEF DirectScopeTables
<1>5. Range(u) = Scoped /\ Distinct(u)
  BY <1>3, Five DEF Scoped
<1>6. Range(d) = Scoped
  BY <1>4, Five DEF Scoped
<1> QED BY <1>1, <1>2, <1>5, <1>6 DEF IsList

-----------------------------------------------------------------------------
\* A database at a revision.

\* What is in a database at a revision.
LEMMA Present ==
  ASSUME NEW s, NEW r \in 0 .. 5, AtRevision(s, r)
  PROVE  /\ \A n : <<"table", n>> \in s <=>
              ((r > 0 /\ n \in Initially) \/ (r > 3 /\ n = "policy_chunks") \/ (r > 4 /\ n \in Talks))
         /\ \A n : <<"type", n>> \in s <=> (r > 0 /\ n \in {"order_status", "test_drive_status"})
         /\ \A n : <<"policy", n>> \in s <=> ((r > 1 /\ n \in Scoped) \/ (r > 4 /\ n \in Talks))
         /\ <<"column", "is_price_reliable">> \in s <=> r > 2
<1>1. \A k \in {"table", "type", "policy", "column"} : \A n : <<k, n>> \in s <=> <<k, n>> \in Canonical(r)
  <2>1. \A f : f \in Leftovers(r) => f[1] \in {"extension", "role", "sequence"}
    BY DEF Leftovers, Vector, Role, Of
  <2> QED BY <2>1 DEF AtRevision
<1>2. \A n : <<"table", n>> \in s <=>
        ((r > 0 /\ n \in Initially) \/ (r > 3 /\ n = "policy_chunks") \/ (r > 4 /\ n \in Talks))
  BY <1>1, CanonicalFacts
<1>3. \A n : <<"type", n>> \in s <=> (r > 0 /\ n \in {"order_status", "test_drive_status"})
  BY <1>1, CanonicalFacts
<1>4. \A n : <<"policy", n>> \in s <=> ((r > 1 /\ n \in Scoped) \/ (r > 4 /\ n \in Talks))
  BY <1>1, CanonicalFacts
<1>5. <<"column", "is_price_reliable">> \in s <=> r > 2
  BY <1>1, CanonicalFacts
<1> QED BY <1>2, <1>3, <1>4, <1>5

\* The role and the extension, once made, are there.
LEMMA Standing ==
  ASSUME NEW s, NEW r \in 0 .. 5, AtRevision(s, r)
  PROVE  /\ r > 1 => Role \subseteq s
         /\ r > 0 => Vector \subseteq s
<1>1. Canonical(r) \subseteq s
  BY DEF AtRevision
<1>2. r > 1 => Role \subseteq s
  <2>1. r > 1 => <<"role", "app">> \in Canonical(r)
    BY CanonicalFacts
  <2> QED BY <1>1, <2>1 DEF Role, Of
<1>3. r > 0 => Vector \subseteq s
  <2>1. r > 0 => <<"extension", "vector">> \in Canonical(r)
    BY CanonicalFacts
  <2> QED BY <1>1, <2>1 DEF Vector, Of
<1> QED BY <1>2, <1>3

\* Every table a database at a revision has, and has not.
LEMMA TablesThere ==
  ASSUME NEW s, NEW r \in 0 .. 5, AtRevision(s, r)
  PROVE  /\ r > 0 => \A n \in Initially : <<"table", n>> \in s
         /\ r = 0 => \A n : <<"table", n>> \notin s /\ <<"type", n>> \notin s
         /\ r < 4 => <<"table", "policy_chunks">> \notin s
         /\ r > 3 => <<"table", "policy_chunks">> \in s
         /\ r < 5 => \A n \in Talks : <<"table", n>> \notin s /\ <<"policy", n>> \notin s
         /\ r > 4 => \A n \in Talks : <<"table", n>> \in s
         /\ r < 2 => \A n : <<"policy", n>> \notin s
         /\ r > 2 => <<"column", "is_price_reliable">> \in s
         /\ r < 3 => <<"column", "is_price_reliable">> \notin s
<1>1. "policy_chunks" \notin Initially /\ "policy_chunks" \notin Talks
  BY DEF Initially, Talks
<1>2. \A n \in Talks : n \notin Initially /\ n # "policy_chunks" /\ n \notin Scoped
  BY DEF Initially, Talks, Scoped
<1> QED BY <1>1, <1>2, Present

\* One more statement.
LEMMA LeadsStep ==
  ASSUME NEW s, NEW a, NEW r, NEW g, NEW st, Leads(s, a, r, g), st.drops = {}, Runs(st, s \cup g),
         \A f \in st.adds : f[1] # "sequence"
  PROVE  Leads(s, a \o <<st>>, r, g \cup st.adds)
<1>1. Leads(s \cup g, <<st>>, r, Gives(st, r))
  BY LeadsOne
<1>2. Gives(st, r) = st.adds
  BY DEF Gives
<1>3. Leads(s \cup g, <<st>>, r, st.adds)
  BY <1>1, <1>2
<1> QED BY <1>3, LeadsBoth

\* One more statement of a downgrade.
LEMMA UndoesStep ==
  ASSUME NEW s, NEW a, NEW g, NEW st, Undoes(s, a, g), st.adds = {}, Runs(st, s \ g)
  PROVE  Undoes(s, a \o <<st>>, g \cup st.drops)
<1>1. Undoes(s \ g, <<st>>, st.drops)
  BY UndoesOne
<1> QED BY <1>1, UndoesBoth

\* A migration with nothing left has arrived.
LEMMA NothingLeft ==
  ASSUME NEW s, NEW r
  PROVE  /\ IsList(<< >>) /\ Grows(s, << >>, r) /\ Shrinks(s, << >>)
         /\ Given(<< >>, r) = {} /\ Taken(<< >>) = {}
<1>1. Len(<< >>) = 0 /\ DOMAIN << >> = {}
  OBVIOUS
<1>2. \A row : Together(row, 0) = {}
  BY DEF Together
<1>3. << >> \in Seq({})
  OBVIOUS
<1> QED BY <1>1, <1>2, <1>3 DEF IsList, Grows, Shrinks, Given, Taken

\* The first statement of an upgrade.
LEMMA LeadsFirst ==
  ASSUME NEW s, NEW r, NEW st, st.drops = {}, Runs(st, s), \A f \in st.adds : f[1] # "sequence"
  PROVE  Leads(s, <<st>>, r, st.adds)
<1>1. Leads(s, <<st>>, r, Gives(st, r))
  BY LeadsOne
<1>2. Gives(st, r) = st.adds
  BY DEF Gives
<1> QED BY <1>1, <1>2

\* GRANT ... ON ALL SEQUENCES.
LEMMA LeadsSequences ==
  ASSUME NEW s, NEW r, NEW g, NEW a, Leads(s, a, r, g), Role \subseteq s \cup g,
         \A n \in Tables : <<"table", n>> \in s \cup g <=> <<"table", n>> \in Canonical(r)
  PROVE  Leads(s, a \o <<GrantSequences>>, r,
               g \cup Of("sequence", {n \in Tables : <<"table", n>> \in Canonical(r)}))
<1>1. PICK st, h : /\ st = GrantSequences
                   /\ h = Of("sequence", {n \in Tables : <<"table", n>> \in Canonical(r)})
  OBVIOUS
<1>2. st.needs = Role /\ st.forbids = {} /\ st.drops = {} /\ st.adds = Of("sequence", Tables)
  BY <1>1 DEF GrantSequences, Statement
<1>3. Gives(st, r) = h
  <2>1. ASSUME NEW f \in st.adds PROVE f \in Gives(st, r) <=> f \in h
    <3>1. PICK n \in Tables : f = <<"sequence", n>>
      BY <1>2, <2>1 DEF Of
    <3>2. f[1] = "sequence" /\ f[2] = n
      BY <3>1
    <3>3. f \in Gives(st, r) <=> <<"table", n>> \in Canonical(r)
      BY <2>1, <3>2 DEF Gives
    <3>4. f \in h <=> <<"table", n>> \in Canonical(r)
      BY <1>1, <3>1 DEF Of
    <3> QED BY <3>3, <3>4
  <2>2. Gives(st, r) \subseteq st.adds /\ h \subseteq st.adds
    BY <1>1, <1>2 DEF Gives, Of
  <2> QED BY <2>1, <2>2
<1>4. Leads(s \cup g, <<st>>, r, Gives(st, r))
  <2>1. \A f \in st.adds : f[1] = "sequence" =>
           (<<"table", f[2]>> \in s \cup g <=> <<"table", f[2]>> \in Canonical(r))
    BY <1>2 DEF Of
  <2>2. st.drops = {} /\ Runs(st, s \cup g)
    BY <1>2 DEF Runs
  <2> QED BY <2>1, <2>2, LeadsOne
<1>5. Leads(s, a \o <<st>>, r, g \cup h)
  BY <1>3, <1>4, LeadsBoth
<1> QED BY <1>1, <1>5

\* Asking for settings, and GRANT and REVOKE of CONNECT and USAGE.
LEMMA OtherStatements ==
  ASSUME NEW n
  PROVE  /\ Raises(n).needs = Of("setting", n) /\ Raises(n).forbids = {}
         /\ Raises(n).adds = {} /\ Raises(n).drops = {}
         /\ GrantAccess(n).needs = Role /\ GrantAccess(n).forbids = {}
         /\ GrantAccess(n).adds = Of("access", {n}) /\ GrantAccess(n).drops = {}
         /\ RevokeAccess(n).needs = Role /\ RevokeAccess(n).forbids = {}
         /\ RevokeAccess(n).adds = {} /\ RevokeAccess(n).drops = Of("access", {n})
BY DEF Raises, GrantAccess, RevokeAccess, Statement

\* CREATE ROLE, DROP ROLE and REVOKE ... ON ALL SEQUENCES.
LEMMA RoleStatements ==
  /\ CreateRole.needs = {} /\ CreateRole.forbids = {} /\ CreateRole.adds = Role /\ CreateRole.drops = {}
  /\ DropRole.needs = {} /\ DropRole.adds = {} /\ DropRole.drops = Role
  /\ DropRole.forbids = ({"grant", "sequence"} \X Tables) \cup Of("access", {"database", "schema"})
  /\ RevokeSequences.needs = Role /\ RevokeSequences.forbids = {} /\ RevokeSequences.adds = {}
  /\ RevokeSequences.drops = Of("sequence", Tables)
BY DEF CreateRole, DropRole, RevokeSequences, Statement

\* DROP TYPE.
LEMMA TypeStatements ==
  ASSUME NEW n, NEW users
  PROVE  /\ DropType(n, users).needs = {} /\ DropType(n, users).forbids = Of("table", users)
         /\ DropType(n, users).adds = {} /\ DropType(n, users).drops = Of("type", {n})
BY DEF DropType, Statement

\* A setting that is asked for.
LEMMA AsksSettings ==
  ASSUME NEW s, NEW names \in SUBSET {"APP_DB_USER", "APP_DB_PASSWORD"}
  PROVE  Runs(Raises(names), s)
<1>1. Of("setting", names) \subseteq Settings
  BY DEF Settings, Of
<1> QED BY <1>1, OtherStatements DEF Runs

-----------------------------------------------------------------------------
\* The upgrades.

\* What may be left over from below is made, or may be left over, above.
LEMMA LeftBehind ==
  ASSUME NEW r \in 1 .. 5
  PROVE  Leftovers(r - 1) \subseteq Canonical(r) \cup Leftovers(r)
<1>1. r \in {1, 2, 3, 4, 5}
  OBVIOUS
<1>2. CASE r = 1
  <2>1. Vector \subseteq Canonical(1)
    <3>1. 1 \in 0 .. 5 /\ 1 > 0
      OBVIOUS
    <3>2. <<"extension", "vector">> \in Canonical(1)
      BY <3>1, CanonicalFacts
    <3> QED BY <3>2 DEF Vector, Of
  <2>2. Leftovers(0) = Vector \cup Role /\ Leftovers(1) = Role
    BY DEF Leftovers
  <2> QED BY <1>2, <2>1, <2>2
<1>3. CASE r = 2
  <2>1. <<"role", "app">> \in Canonical(2)
    <3>1. 2 \in 0 .. 5 /\ 2 > 1
      OBVIOUS
    <3> QED BY <3>1, CanonicalFacts
  <2>2. Leftovers(1) = Role
    BY DEF Leftovers
  <2> QED BY <1>3, <2>1, <2>2 DEF Role, Of
<1>4. CASE r \in {3, 4}
  <2>1. Leftovers(r - 1) = {}
    <3>1. CASE r = 3
      <4>1. Leftovers(2) = {}
        BY DEF Leftovers
      <4> QED BY <3>1, <4>1
    <3>2. CASE r = 4
      <4>1. Leftovers(3) = {}
        BY DEF Leftovers
      <4> QED BY <3>2, <4>1
    <3> QED BY <1>4, <3>1, <3>2
  <2> QED BY <2>1
<1>5. CASE r = 5
  <2>1. <<"sequence", "policy_chunks">> \in Canonical(5)
    <3>1. 5 \in 0 .. 5 /\ 5 > 4 /\ "policy_chunks" \in Talks \cup {"policy_chunks"}
      OBVIOUS
    <3> QED BY <3>1, CanonicalFacts
  <2>2. Leftovers(4) = {<<"sequence", "policy_chunks">>}
    BY DEF Leftovers, Of
  <2> QED BY <1>5, <2>1, <2>2
<1> QED BY <1>1, <1>2, <1>3, <1>4, <1>5

\* An upgrade that adds what its revision adds, and nothing the revision does not
\* have, arrives there.
LEMMA Arrives ==
  ASSUME NEW s, NEW r \in 1 .. 5, AtRevision(s, r - 1), NEW g, g \subseteq Canonical(r), Added(r) \subseteq g
  PROVE  AtRevision(s \cup g, r)
<1>1. Canonical(r) = Canonical(r - 1) \cup Added(r)
  BY CanonicalStep
<1> QED BY <1>1, LeftBehind DEF AtRevision

\* A downgrade that drops what its revision added, down to what may be left over,
\* and nothing the one before has, returns to it.
LEMMA Returns ==
  ASSUME NEW s, NEW r \in 1 .. 5, AtRevision(s, r), NEW g, g \cap Canonical(r - 1) = {},
         (Added(r) \cup Leftovers(r)) \ g \subseteq Canonical(r - 1) \cup Leftovers(r - 1)
  PROVE  AtRevision(s \ g, r - 1)
<1>1. Canonical(r) = Canonical(r - 1) \cup Added(r)
  BY CanonicalStep
<1> QED BY <1>1 DEF AtRevision

\* The first upgrade runs on an empty database, whether or not the role and the
\* extension are there, and makes the first revision.
LEMMA UpFirst ==
  ASSUME NEW s, AtRevision(s, 0)
  PROVE  Leads(s, UpInitial, 1, Added(1))
<1>1. PICK st, ts : st = [Statement EXCEPT !.adds = Vector] /\ ts = InitialTables
  OBVIOUS
<1>2. st.needs = {} /\ st.forbids = {} /\ st.adds = Vector /\ st.drops = {}
  BY <1>1 DEF Statement
<1>3. Leads(s, <<st>>, 1, Vector)
  <2>1. \A f \in Vector : f[1] # "sequence"
    BY DEF Vector, Of
  <2>2. Runs(st, s) /\ Gives(st, 1) = Vector
    BY <1>2, <2>1 DEF Runs, Gives
  <2>3. Leads(s, <<st>>, 1, Gives(st, 1))
    BY <1>2, <2>1, <2>2, LeadsOne
  <2> QED BY <2>2, <2>3
<1>4. \A n : <<"table", n>> \notin s \cup Vector /\ <<"type", n>> \notin s \cup Vector
  <2>1. 0 \in 0 .. 5 /\ 0 = 0
    OBVIOUS
  <2>2. \A n : <<"table", n>> \notin s /\ <<"type", n>> \notin s
    BY <2>1, TablesThere
  <2> QED BY <2>2 DEF Vector, Of
<1>5. IsList(ts) /\ Distinct(ts) /\ Range(ts) = Initially
  BY <1>1, InitialList, Ranges
<1>6. /\ DOMAIN ts = 1 .. 7
      /\ ts[1] = "customers" /\ ts[2] = "vehicles" /\ ts[3] = "escalations" /\ ts[4] = "orders"
      /\ ts[5] = "test_drive_bookings" /\ ts[6] = "vehicle_embeddings" /\ ts[7] = "order_status_history"
      /\ \A i : i \in 1 .. 7 <=> i \in {1, 2, 3, 4, 5, 6, 7}
  BY <1>1, InitialList
<1>7. ASSUME NEW i \in DOMAIN ts, NEW u \in References(ts[i]) PROVE \E j \in DOMAIN ts : j < i /\ ts[j] = u
  <2>1. \/ i \in {3, 4, 5} /\ u = ts[1]
        \/ i \in {4, 5, 6} /\ u = ts[2]
        \/ i = 7 /\ u = ts[4]
    BY <1>6, <1>7 DEF References
  <2> QED BY <1>6, <2>1
<1>8. ASSUME NEW i \in DOMAIN ts, NEW n \in OldTypes(ts[i])
      PROVE  \E j \in DOMAIN ts : j < i /\ n \in NewTypes(ts[j])
  <2>1. i = 7 /\ n = "order_status"
    BY <1>6, <1>8 DEF OldTypes
  <2>2. n \in NewTypes(ts[4])
    BY <1>6, <2>1 DEF NewTypes
  <2> QED BY <1>6, <2>1, <2>2
<1>9. PICK h : h = Of("table", Range(ts)) \cup Of("type", UNION {NewTypes(t) : t \in Range(ts)})
  OBVIOUS
<1>10. Leads(s \cup Vector, Created(ts), 1, h)
  BY <1>4, <1>5, <1>7, <1>8, <1>9, CreatedLeads
<1>11. Leads(s, <<st>> \o Created(ts), 1, Vector \cup h)
  BY <1>3, <1>10, LeadsBoth
<1>12. Vector \cup h = Added(1)
  <2>1. UNION {NewTypes(t) : t \in Initially} = {"order_status", "test_drive_status"}
    BY DEF Initially, NewTypes
  <2>2. h = Of("table", Range(InitialTables)) \cup Of("type", {"order_status", "test_drive_status"})
    BY <1>1, <1>5, <1>9, <2>1
  <2>3. Added(1) = Vector \cup Of("table", Range(InitialTables)) \cup Of("type", {"order_status", "test_drive_status"})
    BY DEF Added
  <2> QED BY <2>2, <2>3
<1> QED BY <1>1, <1>11, <1>12 DEF UpInitial

\* The third finds no such column.
LEMMA UpThird ==
  ASSUME NEW s, AtRevision(s, 2)
  PROVE  Leads(s, UpFlag, 3, Added(3))
<1>1. PICK st : st = [Existing({"vehicles"}) EXCEPT !.forbids = Flag, !.adds = Flag]
  OBVIOUS
<1>2. st.needs = {<<"table", "vehicles">>} /\ st.forbids = Flag /\ st.adds = Flag /\ st.drops = {}
  <2>1. Of("table", {"vehicles"}) = {<<"table", "vehicles">>}
    BY DEF Of
  <2> QED BY <1>1, <2>1 DEF Existing, Statement
<1>3. <<"table", "vehicles">> \in s /\ <<"column", "is_price_reliable">> \notin s
  <2>1. 2 \in 0 .. 5 /\ 2 > 0 /\ 2 < 3 /\ "vehicles" \in Initially
    BY DEF Initially
  <2> QED BY <2>1, TablesThere
<1>4. Flag \cap (s \cup Settings) = {}
  BY <1>3 DEF Flag, Settings, Of
<1>5. Runs(st, s)
  BY <1>2, <1>3, <1>4 DEF Runs
<1>6. \A f \in Flag : f[1] # "sequence"
  BY DEF Flag, Of
<1>7. Leads(s, <<st>>, 3, Flag)
  BY <1>2, <1>5, <1>6, LeadsFirst
<1>8. Flag = Added(3)
  BY DEF Added
<1> QED BY <1>1, <1>7, <1>8 DEF UpFlag

\* Two statements are one and then one.
LEMMA TwoStatements ==
  ASSUME NEW a, NEW b
  PROVE  <<a, b>> = <<a>> \o <<b>>
<1>1. PICK x, y, t, S : x = <<a>> /\ y = <<b>> /\ t = <<a, b>> /\ S = {a, b}
  OBVIOUS
<1>2. /\ x \in Seq(S) /\ Len(x) = 1 /\ x[1] = a
      /\ y \in Seq(S) /\ Len(y) = 1 /\ y[1] = b
  BY <1>1
<1>3. t \in Seq(S) /\ Len(t) = 2 /\ t[1] = a /\ t[2] = b
  BY <1>1
<1>4. PICK z : z = x \o y
  OBVIOUS
<1>5. z \in Seq(S) /\ Len(z) = 2 /\ z[1] = a /\ z[2] = b
  <2>1. z \in Seq(S)
    BY <1>2, <1>4
  <2>2. IsList(x) /\ IsList(y) /\ 1 \in DOMAIN x /\ 1 \in DOMAIN y
    BY <1>2 DEF IsList
  <2>3. Len(z) = Len(x) + Len(y) /\ z[1] = x[1] /\ z[Len(x) + 1] = y[1]
    BY <1>4, <2>2, ListBoth
  <2>4. Len(x) + 1 = 2 /\ Len(x) + Len(y) = 2
    BY <1>2
  <2> QED BY <1>2, <2>1, <2>3, <2>4
<1>6. t = z
  BY <1>3, <1>5
<1> QED BY <1>1, <1>4, <1>6

\* The fourth finds the extension, the role and no chunks.
LEMMA UpFourth ==
  ASSUME NEW s, AtRevision(s, 3)
  PROVE  Leads(s, UpChunks, 4, Added(4))
<1>1. PICK a, b, c : a = CreateTable("policy_chunks") /\ b = Raises({"APP_DB_USER"}) /\ c = Grant({"policy_chunks"})
  OBVIOUS
<1>2. /\ a.needs \subseteq Vector /\ a.forbids = {<<"table", "policy_chunks">>}
      /\ a.adds = {<<"table", "policy_chunks">>} /\ a.drops = {}
  <2>1. References("policy_chunks") = {} /\ OldTypes("policy_chunks") = {} /\ NewTypes("policy_chunks") = {}
    BY DEF References, OldTypes, NewTypes
  <2> QED BY <1>1, <2>1, TableStatements
<1>3. Vector \subseteq s /\ Role \subseteq s /\ <<"table", "policy_chunks">> \notin s
  <2>1. 3 \in 0 .. 5 /\ 3 > 0 /\ 3 > 1 /\ 3 < 4
    OBVIOUS
  <2>2. Vector \subseteq s /\ Role \subseteq s
    BY <2>1, Standing
  <2>3. <<"table", "policy_chunks">> \notin s
    BY <2>1, TablesThere
  <2> QED BY <2>2, <2>3
<1>4. Leads(s, <<a>>, 4, a.adds)
  <2>1. a.forbids \cap (s \cup Settings) = {}
    BY <1>2, <1>3 DEF Settings, Of
  <2>2. Runs(a, s)
    BY <1>2, <1>3, <2>1 DEF Runs
  <2>3. \A f \in a.adds : f[1] # "sequence"
    BY <1>2
  <2> QED BY <1>2, <2>2, <2>3, LeadsFirst
<1>5. PICK x, y, z, g : x = <<a>> /\ y = <<a, b>> /\ z = <<a, b, c>> /\ g = a.adds
  OBVIOUS
<1>6. y = x \o <<b>> /\ z = y \o <<c>>
  <2>1. y = x \o <<b>>
    BY <1>5, TwoStatements
  <2>2. z = y \o <<c>>
    BY <1>5
  <2> QED BY <2>1, <2>2
<1>7. Leads(s, x \o <<b>>, 4, g \cup b.adds)
  <2>1. Runs(b, s \cup g)
    BY <1>1, AsksSettings
  <2>2. b.adds = {} /\ b.drops = {}
    BY <1>1, OtherStatements
  <2> QED BY <1>4, <1>5, <2>1, <2>2, LeadsStep
<1>8. PICK h : h = g \cup b.adds
  OBVIOUS
<1>9. h = {<<"table", "policy_chunks">>}
  BY <1>1, <1>2, <1>5, <1>8, OtherStatements
<1>10. c.needs \subseteq s \cup h /\ c.forbids = {} /\ c.adds = {<<"grant", "policy_chunks">>} /\ c.drops = {}
  <2>1. Of("table", {"policy_chunks"}) \cup Role \subseteq s \cup h
    BY <1>3, <1>9 DEF Of
  <2>2. Of("grant", {"policy_chunks"}) = {<<"grant", "policy_chunks">>}
    BY DEF Of
  <2> QED BY <1>1, <2>1, <2>2, Grants
<1>11. Leads(s, y \o <<c>>, 4, h \cup c.adds)
  <2>1. Runs(c, s \cup h) /\ \A f \in c.adds : f[1] # "sequence"
    BY <1>10 DEF Runs
  <2>2. Leads(s, y, 4, h)
    BY <1>7, <1>8, <1>6
  <2> QED BY <1>10, <2>1, <2>2, LeadsStep
<1>12. z = UpChunks
  BY <1>1, <1>5 DEF UpChunks
<1>13. h \cup c.adds = Added(4)
  BY <1>9, <1>10 DEF Added
<1> QED BY <1>11, <1>12, <1>13, <1>6

\* GRANT, once there is the role.
LEMMA LeadsGrant ==
  ASSUME NEW s, NEW a, NEW r, NEW g, NEW ts, Leads(s, a, r, g),
         Role \subseteq s \cup g, Of("table", ts) \subseteq s
  PROVE  Leads(s, a \o <<Grant(ts)>>, r, g \cup Of("grant", ts))
<1>1. PICK st : st = Grant(ts)
  OBVIOUS
<1>2. /\ st.needs = Of("table", ts) \cup Role /\ st.forbids = {}
      /\ st.adds = Of("grant", ts) /\ st.drops = {}
  BY <1>1, Grants
<1>3. Runs(st, s \cup g)
  BY <1>2 DEF Runs
<1>4. \A f \in st.adds : f[1] # "sequence"
  BY <1>2 DEF Of
<1>5. Leads(s, a \o <<st>>, r, g \cup st.adds)
  BY <1>2, <1>3, <1>4, LeadsStep
<1> QED BY <1>1, <1>2, <1>5

\* GRANT CONNECT or USAGE, once there is the role.
LEMMA LeadsAccess ==
  ASSUME NEW s, NEW a, NEW r, NEW g, NEW n, Leads(s, a, r, g), Role \subseteq s \cup g
  PROVE  Leads(s, a \o <<GrantAccess(n)>>, r, g \cup Of("access", {n}))
<1>1. PICK st : st = GrantAccess(n)
  OBVIOUS
<1>2. st.needs = Role /\ st.forbids = {} /\ st.adds = Of("access", {n}) /\ st.drops = {}
  BY <1>1, OtherStatements
<1>3. Runs(st, s \cup g)
  BY <1>2 DEF Runs
<1>4. \A f \in st.adds : f[1] # "sequence"
  BY <1>2 DEF Of
<1>5. Leads(s, a \o <<st>>, r, g \cup st.adds)
  BY <1>2, <1>3, <1>4, LeadsStep
<1> QED BY <1>1, <1>2, <1>5

\* A setting asked for half-way.
LEMMA LeadsRaises ==
  ASSUME NEW s, NEW a, NEW r, NEW g, NEW n \in SUBSET {"APP_DB_USER", "APP_DB_PASSWORD"}, Leads(s, a, r, g)
  PROVE  Leads(s, a \o <<Raises(n)>>, r, g)
<1>1. PICK st : st = Raises(n)
  OBVIOUS
<1>2. st.adds = {} /\ st.drops = {}
  BY <1>1, OtherStatements
<1>3. Runs(st, s \cup g)
  BY <1>1, AsksSettings
<1>4. Leads(s, a \o <<st>>, r, g \cup st.adds)
  BY <1>2, <1>3, LeadsStep
<1> QED BY <1>1, <1>2, <1>4

\* A setting asked for first.
LEMMA RaisesFirst ==
  ASSUME NEW s, NEW r, NEW n \in SUBSET {"APP_DB_USER", "APP_DB_PASSWORD"}
  PROVE  Leads(s, <<Raises(n)>>, r, {}) /\ Undoes(s, <<Raises(n)>>, {})
<1>1. PICK st : st = Raises(n)
  OBVIOUS
<1>2. st.adds = {} /\ st.drops = {} /\ Runs(st, s)
  BY <1>1, OtherStatements, AsksSettings
<1>3. Leads(s, <<st>>, r, st.adds)
  BY <1>2, LeadsFirst
<1>4. Undoes(s, <<st>>, st.drops)
  BY <1>2, UndoesOne
<1> QED BY <1>1, <1>2, <1>3, <1>4

\* The second upgrade makes the role, or finds it made, and grants before it guards.
LEMMA UpSecond ==
  ASSUME NEW s, AtRevision(s, 1)
  PROVE  Leads(s, UpRls, 2, Added(2))
<1>1. /\ \A n \in Initially : <<"table", n>> \in s
      /\ \A n : <<"policy", n>> \notin s
  <2>1. 1 \in 0 .. 5 /\ 1 > 0 /\ 1 < 2
    OBVIOUS
  <2> QED BY <2>1, TablesThere
<1>2. PICK a, b, c, d, e, f, h :
        /\ a = Raises({"APP_DB_USER", "APP_DB_PASSWORD"}) /\ b = CreateRole
        /\ c = GrantAccess("database") /\ d = GrantAccess("schema")
        /\ e = Grant(PublicTables) /\ f = Grant(Range(AppRoleTables)) /\ h = GrantSequences
  OBVIOUS
<1>3. PICK x1, x2, x3, x4, x5, x6, m :
        /\ x1 = <<a>> /\ x2 = <<a, b>> /\ x3 = <<a, b, c>> /\ x4 = <<a, b, c, d>>
        /\ x5 = <<a, b, c, d, e>> /\ x6 = <<a, b, c, d, e, f>> /\ m = <<a, b, c, d, e, f, h>>
  OBVIOUS
<1>4. /\ x2 = x1 \o <<b>> /\ x3 = x2 \o <<c>> /\ x4 = x3 \o <<d>>
       /\ x5 = x4 \o <<e>> /\ x6 = x5 \o <<f>> /\ m = x6 \o <<h>>
  <2>1. x2 = x1 \o <<b>>
    BY <1>3, TwoStatements
  <2>2. x3 = x2 \o <<c>>
    BY <1>3
  <2>3. x4 = x3 \o <<d>>
    BY <1>3
  <2>4. x5 = x4 \o <<e>>
    BY <1>3
  <2>5. x6 = x5 \o <<f>>
    BY <1>3
  <2>6. m = x6 \o <<h>>
    BY <1>3
  <2> QED BY <2>1, <2>2, <2>3, <2>4, <2>5, <2>6
<1>5. Leads(s, x2, 2, Role)
  <2>1. Leads(s, x1, 2, {})
    BY <1>2, <1>3, RaisesFirst
  <2>2. /\ b.drops = {} /\ b.adds = Role /\ Runs(b, s \cup {}) /\ {} \cup b.adds = Role
        /\ \A x \in b.adds : x[1] # "sequence"
    BY <1>2, RoleStatements DEF Runs, Role, Of
  <2>3. Leads(s, x1 \o <<b>>, 2, {} \cup b.adds)
    BY <2>1, <2>2, LeadsStep
  <2> QED BY <1>4, <2>2, <2>3
<1>6. PICK g4 : g4 = Role \cup Of("access", {"database"})
  OBVIOUS
<1>7. Leads(s, x3, 2, g4)
  BY <1>2, <1>4, <1>5, <1>6, LeadsAccess
<1>8. PICK g6 : g6 = g4 \cup Of("access", {"schema"})
  OBVIOUS
<1>9. Leads(s, x4, 2, g6)
  <2>1. Role \subseteq s \cup g4
    BY <1>6
  <2> QED BY <1>2, <1>4, <1>7, <1>8, <2>1, LeadsAccess
<1>10. PICK g8 : g8 = g6 \cup Of("grant", PublicTables)
  OBVIOUS
<1>11. Leads(s, x5, 2, g8)
  <2>1. Role \subseteq s \cup g6
    BY <1>6, <1>8
  <2>2. Of("table", PublicTables) \subseteq s
    BY <1>1 DEF Of, PublicTables, Initially
  <2> QED BY <1>2, <1>4, <1>9, <1>10, <2>1, <2>2, LeadsGrant
<1>12. PICK g10 : g10 = g8 \cup Of("grant", Scoped)
  OBVIOUS
<1>13. Of("table", Scoped) \subseteq s
  BY <1>1 DEF Of, Scoped, Initially
<1>14. Leads(s, x6, 2, g10)
  <2>1. Role \subseteq s \cup g8
    BY <1>6, <1>8, <1>10
  <2> QED BY <1>2, <1>4, <1>11, <1>12, <1>13, <2>1, AppRoleList, LeadsGrant
<1>15. \A n \in Tables : <<"table", n>> \in Canonical(2) <=> n \in Initially
  <2>1. 2 \in 0 .. 5 /\ 2 > 0 /\ ~(2 > 3) /\ ~(2 > 4)
    OBVIOUS
  <2> QED BY <2>1, CanonicalFacts
<1>16. {n \in Tables : <<"table", n>> \in Canonical(2)} = Initially
  BY <1>15, TableNames DEF Initially
<1>17. PICK g15 : g15 = g10 \cup Of("sequence", Initially)
  OBVIOUS
<1>18. Leads(s, m, 2, g15)
  <2>1. Role \subseteq s \cup g10
    BY <1>6, <1>8, <1>10, <1>12
  <2>2. \A n \in Tables : <<"table", n>> \in s \cup g10 <=> <<"table", n>> \in Canonical(2)
    <3>1. \A n : <<"table", n>> \in s <=> n \in Initially
      <4>1. 1 \in 0 .. 5 /\ 1 > 0 /\ ~(1 > 3) /\ ~(1 > 4)
        OBVIOUS
      <4> QED BY <4>1, Present
    <3>2. \A n : <<"table", n>> \notin g10
      BY <1>6, <1>8, <1>10, <1>12 DEF Of, Role
    <3> QED BY <1>15, <3>1, <3>2
  <2> QED BY <1>2, <1>4, <1>14, <1>16, <1>17, <2>1, <2>2, LeadsSequences
<1>19. PICK g19 : g19 = g15 \cup ({"rls", "force"} \X Scoped)
  OBVIOUS
<1>20. Leads(s, m \o Guarded(AppRoleTables), 2, g19)
  <2>1. Of("table", Scoped) \subseteq s \cup g15
    BY <1>13
  <2>2. Leads(s \cup g15, Guarded(AppRoleTables), 2, {"rls", "force"} \X Scoped)
    BY <2>1, AppRoleList, GuardedLeads
  <2> QED BY <1>18, <1>19, <2>2, LeadsBoth
<1>21. PICK ts : ts = DirectScopeTables \o <<"customers", "order_status_history">>
  OBVIOUS
<1>22. IsList(ts) /\ Range(ts) = Scoped /\ Distinct(ts)
  BY <1>21, PolicyLists
<1>23. Leads(s \cup g19, Policies(ts), 2, Of("policy", Scoped))
  <2>1. Of("table", Scoped) \subseteq s \cup g19
    BY <1>13
  <2>2. Of("policy", Scoped) \cap (s \cup g19) = {}
    <3>1. \A n : <<"policy", n>> \notin g19
      BY <1>6, <1>8, <1>10, <1>12, <1>17, <1>19 DEF Of, Role
    <3> QED BY <1>1, <3>1 DEF Of
  <2>3. \A t \in Scoped : Of("table", PolicyReads(t)) \subseteq s \cup g19
    <3>1. \A t \in Scoped : PolicyReads(t) \subseteq Initially
      BY DEF Scoped, PolicyReads, References, Initially
    <3> QED BY <1>1, <3>1 DEF Of
  <2> QED BY <1>22, <2>1, <2>2, <2>3, PoliciesLead
<1>24. Leads(s, (m \o Guarded(AppRoleTables)) \o Policies(ts), 2, g19 \cup Of("policy", Scoped))
  BY <1>20, <1>23, LeadsBoth
<1>25. UpRls = (m \o Guarded(AppRoleTables)) \o Policies(ts)
  BY <1>2, <1>21, <1>3 DEF UpRls
<1>26. g19 \cup Of("policy", Scoped) = Added(2)
  <2>1. Added(2) = Role \cup Of("access", {"database", "schema"}) \cup Of("grant", PublicTables \cup Scoped)
                  \cup Of("sequence", Initially) \cup ({"rls", "force", "policy"} \X Scoped)
    BY TableNames, AppRoleList DEF Added, Guards, Initially
  <2>2. Of("access", {"database", "schema"}) = Of("access", {"database"}) \cup Of("access", {"schema"})
    BY DEF Of
  <2>3. Of("grant", PublicTables \cup Scoped) = Of("grant", PublicTables) \cup Of("grant", Scoped)
    BY DEF Of
  <2>4. {"rls", "force", "policy"} \X Scoped = ({"rls", "force"} \X Scoped) \cup Of("policy", Scoped)
    BY DEF Of
  <2> QED BY <1>6, <1>8, <1>10, <1>12, <1>17, <1>19, <2>1, <2>2, <2>3, <2>4
<1> QED BY <1>24, <1>25, <1>26

\* The fifth: its GRANT ON ALL SEQUENCES reaches the chunks' sequence too.
LEMMA UpFifth ==
  ASSUME NEW s, AtRevision(s, 4)
  PROVE  \E g : Leads(s, UpConversations, 5, g) /\ Added(5) \subseteq g /\ g \subseteq Canonical(5)
<1>1. /\ \A n \in Initially : <<"table", n>> \in s
      /\ \A n \in Talks : <<"table", n>> \notin s /\ <<"policy", n>> \notin s
      /\ <<"table", "policy_chunks">> \in s
  <2>1. 4 \in 0 .. 5 /\ 4 > 0 /\ 4 < 5 /\ 4 > 3
    OBVIOUS
  <2> QED BY <2>1, TablesThere
<1>2. Vector \subseteq s /\ Role \subseteq s
  <2>1. 4 \in 0 .. 5 /\ 4 > 0 /\ 4 > 1
    OBVIOUS
  <2> QED BY <2>1, Standing
<1>3. PICK ts : ts = ConversationTables
  OBVIOUS
<1>4. /\ IsList(ts) /\ Range(ts) = Talks /\ Distinct(ts) /\ DOMAIN ts = 1 .. 2
      /\ ts[1] = "conversations" /\ ts[2] = "conversation_messages"
      /\ \A i : i \in 1 .. 2 <=> i \in {1, 2}
  BY <1>3, ConversationList, Ranges
<1>5. PICK g5 : g5 = Of("table", Talks)
  OBVIOUS
<1>6. Leads(s, Created(ts), 5, g5)
  <2>1. \A t \in Range(ts) : <<"table", t>> \notin s /\ \A n \in NewTypes(t) : <<"type", n>> \notin s
    BY <1>1, <1>4 DEF NewTypes, Talks
  <2>2. ASSUME NEW i \in DOMAIN ts, NEW u \in References(ts[i])
        PROVE  <<"table", u>> \in s \/ \E j \in DOMAIN ts : j < i /\ ts[j] = u
    <3>1. (i = 1 /\ u = "customers") \/ (i = 2 /\ u = ts[1])
      BY <1>4, <2>2 DEF References
    <3> QED BY <1>1, <1>4, <3>1 DEF Initially
  <2>3. \A i \in DOMAIN ts : OldTypes(ts[i]) = {}
    BY <1>4 DEF OldTypes
  <2>4. Leads(s, Created(ts), 5, Of("table", Range(ts)) \cup Of("type", UNION {NewTypes(t) : t \in Range(ts)}))
    BY <1>2, <1>4, <2>1, <2>2, <2>3, CreatedLeads
  <2>5. Of("type", UNION {NewTypes(t) : t \in Range(ts)}) = {}
    BY <1>4 DEF NewTypes, Of, Talks
  <2> QED BY <1>4, <1>5, <2>4, <2>5
<1>7. Of("table", Talks) \subseteq s \cup g5
  BY <1>5
<1>8. Leads(s, Created(ts) \o <<Raises({"APP_DB_USER"})>>, 5, g5)
  BY <1>6, LeadsRaises
<1>9. PICK m9, g9 : m9 = Created(ts) \o <<Raises({"APP_DB_USER"})>> \o Granted(ts) /\ g9 = g5 \cup Of("grant", Talks)
  OBVIOUS
<1>10. Leads(s, m9, 5, g9)
  <2>1. Role \subseteq s \cup g5
    BY <1>2
  <2>2. Leads(s \cup g5, Granted(ts), 5, Of("grant", Talks))
    BY <1>4, <1>7, <2>1, GrantedLeads
  <2> QED BY <1>8, <1>9, <2>2, LeadsBoth
<1>11. \A n \in Tables : <<"table", n>> \in Canonical(5)
  <2>1. 5 \in 0 .. 5 /\ 5 > 0 /\ 5 > 3 /\ 5 > 4
    OBVIOUS
  <2>2. \A n \in Tables : n \in Initially \/ n = "policy_chunks" \/ n \in Talks
    BY TableNames DEF Initially, Talks
  <2> QED BY <2>1, <2>2, CanonicalFacts
<1>12. PICK m12, g12 : m12 = m9 \o <<GrantSequences>> /\ g12 = g9 \cup Of("sequence", Tables)
  OBVIOUS
<1>13. Leads(s, m12, 5, g12)
  <2>1. \A n \in Tables : <<"table", n>> \in s \cup g9
    <3>1. \A n \in Tables : n \in Initially \/ n = "policy_chunks" \/ n \in Talks
      BY TableNames DEF Initially, Talks
    <3> QED BY <1>1, <1>5, <1>9, <3>1 DEF Of
  <2>2. Role \subseteq s \cup g9
    BY <1>2
  <2>3. {n \in Tables : <<"table", n>> \in Canonical(5)} = Tables
    BY <1>11
  <2>4. Leads(s, m9 \o <<GrantSequences>>, 5, g9 \cup Of("sequence", {n \in Tables : <<"table", n>> \in Canonical(5)}))
    BY <1>10, <1>11, <2>1, <2>2, LeadsSequences
  <2> QED BY <1>12, <2>3, <2>4
<1>14. PICK m14, g14 : m14 = m12 \o Guarded(ts) /\ g14 = g12 \cup ({"rls", "force"} \X Talks)
  OBVIOUS
<1>15. Leads(s, m14, 5, g14)
  <2>1. Of("table", Talks) \subseteq s \cup g12
    BY <1>5, <1>9, <1>12
  <2>2. Leads(s \cup g12, Guarded(ts), 5, {"rls", "force"} \X Talks)
    BY <1>4, <2>1, GuardedLeads
  <2> QED BY <1>13, <1>14, <2>2, LeadsBoth
<1>16. Leads(s \cup g14, Policies(ts), 5, Of("policy", Talks))
  <2>1. Of("table", Talks) \subseteq s \cup g14
    BY <1>5, <1>9, <1>12, <1>14
  <2>2. Of("policy", Talks) \cap (s \cup g14) = {}
    <3>1. \A n : <<"policy", n>> \notin g14
      BY <1>5, <1>9, <1>12, <1>14 DEF Of
    <3> QED BY <1>1, <3>1 DEF Of
  <2>3. \A t \in Talks : Of("table", PolicyReads(t)) \subseteq s \cup g14
    <3>1. \A t \in Talks : PolicyReads(t) \subseteq Talks
      BY DEF Talks, PolicyReads, References
    <3> QED BY <2>1, <3>1 DEF Of
  <2> QED BY <1>4, <2>1, <2>2, <2>3, PoliciesLead
<1>17. PICK g : g = g14 \cup Of("policy", Talks)
  OBVIOUS
<1>18. Leads(s, UpConversations, 5, g)
  <2>1. Leads(s, m14 \o Policies(ts), 5, g)
    BY <1>15, <1>16, <1>17, LeadsBoth
  <2>2. UpConversations = m14 \o Policies(ts)
    BY <1>3, <1>9, <1>12, <1>14 DEF UpConversations
  <2> QED BY <2>1, <2>2
<1>19. /\ \A f \in Added(5) : f \in g
       /\ \A f \in g : f \in Added(5) \/ f \in Of("sequence", Initially)
  <2>1. Added(5) = ({"table", "grant", "rls", "force", "policy"} \X Talks) \cup Of("sequence", Talks \cup {"policy_chunks"})
    BY TableNames DEF Added, Guards, Talks
  <2>2. g = Of("table", Talks) \cup Of("grant", Talks) \cup Of("sequence", Tables)
            \cup ({"rls", "force"} \X Talks) \cup Of("policy", Talks)
    BY <1>5, <1>9, <1>12, <1>14, <1>17
  <2>3. Tables = Initially \cup Talks \cup {"policy_chunks"}
    BY TableNames DEF Initially, Talks
  <2> QED BY <2>1, <2>2, <2>3 DEF Of
<1>20. \A f \in g : f \in Canonical(5)
  <2>1. 5 \in 0 .. 5 /\ 5 > 1 /\ 5 \in 1 .. 5
    OBVIOUS
  <2>2. Added(5) \subseteq Canonical(5)
    BY <2>1, CanonicalStep
  <2>3. Of("sequence", Initially) \subseteq Canonical(5)
    BY <2>1, CanonicalFacts DEF Of
  <2> QED BY <1>19, <2>2, <2>3
<1> QED BY <1>18, <1>19, <1>20

\* Every upgrade, from any database at the revision before it.
LEMMA UpLeads ==
  ASSUME NEW s, NEW r \in 1 .. 5, AtRevision(s, r - 1)
  PROVE  /\ IsList(Up[r]) /\ Grows(s, Up[r], r)
         /\ AtRevision(s \cup Given(Up[r], r), r)
<1>1. r \in {1, 2, 3, 4, 5}
  OBVIOUS
<1>2. \E g : Leads(s, Up[r], r, g) /\ Added(r) \subseteq g /\ g \subseteq Canonical(r)
  <2>1. Added(r) \subseteq Canonical(r)
    BY CanonicalStep
  <2>2. CASE r = 1
    <3>1. Leads(s, UpInitial, 1, Added(1))
      BY <2>2, UpFirst
    <3> QED BY <2>1, <2>2, <3>1 DEF Up
  <2>3. CASE r = 2
    <3>1. Leads(s, UpRls, 2, Added(2))
      BY <2>3, UpSecond
    <3> QED BY <2>1, <2>3, <3>1 DEF Up
  <2>4. CASE r = 3
    <3>1. Leads(s, UpFlag, 3, Added(3))
      BY <2>4, UpThird
    <3> QED BY <2>1, <2>4, <3>1 DEF Up
  <2>5. CASE r = 4
    <3>1. Leads(s, UpChunks, 4, Added(4))
      BY <2>5, UpFourth
    <3> QED BY <2>1, <2>5, <3>1 DEF Up
  <2>6. CASE r = 5
    <3>1. \E g : Leads(s, UpConversations, 5, g) /\ Added(5) \subseteq g /\ g \subseteq Canonical(5)
      BY <2>6, UpFifth
    <3> QED BY <2>6, <3>1 DEF Up
  <2> QED BY <1>1, <2>2, <2>3, <2>4, <2>5, <2>6
<1>3. PICK g : Leads(s, Up[r], r, g) /\ Added(r) \subseteq g /\ g \subseteq Canonical(r)
  BY <1>2
<1>4. AtRevision(s \cup g, r)
  BY <1>3, Arrives
<1> QED BY <1>3, <1>4 DEF Leads

-----------------------------------------------------------------------------
\* The downgrades.

\* REVOKE, while there is the role.
LEMMA UndoesRevoke ==
  ASSUME NEW s, NEW a, NEW g, NEW ts, Undoes(s, a, g),
         Role \subseteq s \ g, Of("table", ts) \subseteq s \ g
  PROVE  Undoes(s, a \o <<Revoke(ts)>>, g \cup Of("grant", ts))
<1>1. PICK st : st = Revoke(ts)
  OBVIOUS
<1>2. /\ st.needs = Of("table", ts) \cup Role /\ st.forbids = {}
      /\ st.adds = {} /\ st.drops = Of("grant", ts)
  BY <1>1, Grants
<1>3. Runs(st, s \ g)
  BY <1>2 DEF Runs
<1>4. Undoes(s, a \o <<st>>, g \cup st.drops)
  BY <1>2, <1>3, UndoesStep
<1> QED BY <1>1, <1>2, <1>4

\* REVOKE CONNECT or USAGE, while there is the role.
LEMMA UndoesAccess ==
  ASSUME NEW s, NEW a, NEW g, NEW n, Undoes(s, a, g), Role \subseteq s \ g
  PROVE  Undoes(s, a \o <<RevokeAccess(n)>>, g \cup Of("access", {n}))
<1>1. PICK st : st = RevokeAccess(n)
  OBVIOUS
<1>2. st.needs = Role /\ st.forbids = {} /\ st.adds = {} /\ st.drops = Of("access", {n})
  BY <1>1, OtherStatements
<1>3. Runs(st, s \ g)
  BY <1>2 DEF Runs
<1>4. Undoes(s, a \o <<st>>, g \cup st.drops)
  BY <1>2, <1>3, UndoesStep
<1> QED BY <1>1, <1>2, <1>4

\* A setting asked for half-way.
LEMMA UndoesRaises ==
  ASSUME NEW s, NEW a, NEW g, NEW n \in SUBSET {"APP_DB_USER", "APP_DB_PASSWORD"}, Undoes(s, a, g)
  PROVE  Undoes(s, a \o <<Raises(n)>>, g)
<1>1. PICK st : st = Raises(n)
  OBVIOUS
<1>2. st.adds = {} /\ st.drops = {}
  BY <1>1, OtherStatements
<1>3. Runs(st, s \ g)
  BY <1>1, AsksSettings
<1>4. Undoes(s, a \o <<st>>, g \cup st.drops)
  BY <1>2, <1>3, UndoesStep
<1> QED BY <1>1, <1>2, <1>4

\* What a lower revision does not have, fact by fact.
LEMMA Elsewhere ==
  ASSUME NEW r \in 0 .. 5, NEW n
  PROVE  /\ r < 5 /\ n \in Talks => \A k \in {"table", "grant", "sequence", "rls", "force", "policy"} :
              <<k, n>> \notin Canonical(r)
         /\ r < 4 => \A k \in {"table", "grant", "sequence", "rls", "force", "policy"} :
              <<k, "policy_chunks">> \notin Canonical(r)
         /\ r < 3 => <<"column", n>> \notin Canonical(r)
         /\ r < 2 => \A k \in {"grant", "sequence", "rls", "force", "policy", "access", "role"} :
              <<k, n>> \notin Canonical(r)
         /\ r < 1 => \A k \in {"table", "type"} : <<k, n>> \notin Canonical(r)
<1>1. "policy_chunks" \notin Initially /\ "policy_chunks" \notin Talks /\ "policy_chunks" \notin Scoped
  BY DEF Initially, Talks, Scoped
<1>2. n \in Talks => n \notin Initially /\ n # "policy_chunks" /\ n \notin Scoped
  BY DEF Initially, Talks, Scoped
<1>3. ASSUME r < 5, n \in Talks
      PROVE  \A k \in {"table", "grant", "sequence", "rls", "force", "policy"} : <<k, n>> \notin Canonical(r)
  <2>1. ~(r > 4)
    BY <1>3
  <2>2. <<"table", n>> \notin Canonical(r)
    BY <1>2, <1>3, <2>1, CanonicalFacts
  <2>3. <<"grant", n>> \notin Canonical(r)
    BY <1>2, <1>3, <2>1, CanonicalFacts
  <2>4. <<"sequence", n>> \notin Canonical(r)
    BY <1>2, <1>3, <2>1, CanonicalFacts
  <2>5. <<"rls", n>> \notin Canonical(r)
    BY <1>2, <1>3, <2>1, CanonicalFacts
  <2>6. <<"force", n>> \notin Canonical(r)
    BY <1>2, <1>3, <2>1, CanonicalFacts
  <2>7. <<"policy", n>> \notin Canonical(r)
    BY <1>2, <1>3, <2>1, CanonicalFacts
  <2> QED BY <2>2, <2>3, <2>4, <2>5, <2>6, <2>7
<1>4. ASSUME r < 4
      PROVE  \A k \in {"table", "grant", "sequence", "rls", "force", "policy"} : <<k, "policy_chunks">> \notin Canonical(r)
  <2>1. ~(r > 3) /\ ~(r > 4)
    BY <1>4
  <2>2. <<"table", "policy_chunks">> \notin Canonical(r)
    BY <1>1, <2>1, CanonicalFacts
  <2>3. <<"grant", "policy_chunks">> \notin Canonical(r)
    BY <1>1, <2>1, CanonicalFacts
  <2>4. <<"sequence", "policy_chunks">> \notin Canonical(r)
    BY <1>1, <2>1, CanonicalFacts
  <2>5. <<"rls", "policy_chunks">> \notin Canonical(r)
    BY <1>1, <2>1, CanonicalFacts
  <2>6. <<"force", "policy_chunks">> \notin Canonical(r)
    BY <1>1, <2>1, CanonicalFacts
  <2>7. <<"policy", "policy_chunks">> \notin Canonical(r)
    BY <1>1, <2>1, CanonicalFacts
  <2> QED BY <2>2, <2>3, <2>4, <2>5, <2>6, <2>7
<1>5. ASSUME r < 3 PROVE <<"column", n>> \notin Canonical(r)
  <2>1. ~(r > 2)
    BY <1>5
  <2>2. <<"column", n>> \in Canonical(r) <=> r > 2 /\ n = "is_price_reliable"
    BY CanonicalFacts
  <2> QED BY <2>1, <2>2
<1>6. ASSUME r < 2
      PROVE  \A k \in {"grant", "sequence", "rls", "force", "policy", "access", "role"} : <<k, n>> \notin Canonical(r)
  <2>1. ~(r > 1) /\ ~(r > 3) /\ ~(r > 4)
    BY <1>6
  <2>2. <<"grant", n>> \notin Canonical(r)
    BY <2>1, CanonicalFacts
  <2>3. <<"sequence", n>> \notin Canonical(r)
    BY <2>1, CanonicalFacts
  <2>4. <<"rls", n>> \notin Canonical(r)
    BY <2>1, CanonicalFacts
  <2>5. <<"force", n>> \notin Canonical(r)
    BY <2>1, CanonicalFacts
  <2>6. <<"policy", n>> \notin Canonical(r)
    BY <2>1, CanonicalFacts
  <2>7. <<"access", n>> \notin Canonical(r)
    BY <2>1, CanonicalFacts
  <2>8. <<"role", n>> \notin Canonical(r)
    BY <2>1, CanonicalFacts
  <2> QED BY <2>2, <2>3, <2>4, <2>5, <2>6, <2>7, <2>8
<1>7. r < 1 => Canonical(r) = {}
  BY CanonicalStep
<1> QED BY <1>3, <1>4, <1>5, <1>6, <1>7

\* The fifth downgrade leaves the grant on the chunks' sequence behind.
LEMMA DownFifth ==
  ASSUME NEW s, AtRevision(s, 5)
  PROVE  \E g : Undoes(s, DownConversations, g) /\ AtRevision(s \ g, 4)
<1>1. \A n \in Talks : <<"table", n>> \in s
  <2>1. 5 \in 0 .. 5 /\ 5 > 4
    OBVIOUS
  <2> QED BY <2>1, TablesThere
<1>2. Role \subseteq s
  <2>1. 5 \in 0 .. 5 /\ 5 > 1
    OBVIOUS
  <2> QED BY <2>1, Standing
<1>3. PICK ts, vs : vs = ConversationTables /\ ts = Reverse(ConversationTables)
  OBVIOUS
<1>4. /\ IsList(ts) /\ Range(ts) = Talks /\ Distinct(ts) /\ DOMAIN ts = 1 .. 2
      /\ ts[1] = "conversation_messages" /\ ts[2] = "conversations"
      /\ IsList(vs) /\ Range(vs) = Talks
  BY <1>3, ConversationList, ReverseConversationList, Ranges
<1>5. PICK g1 : g1 = Of("policy", Talks)
  OBVIOUS
<1>6. Of("table", Talks) \subseteq s
  BY <1>1 DEF Of
<1>7. Undoes(s, NoPolicies(ts), g1)
  BY <1>4, <1>5, <1>6, NoPoliciesUndo
<1>8. PICK m2, g2 : m2 = NoPolicies(ts) \o Unguarded(vs) /\ g2 = g1 \cup ({"rls", "force"} \X Talks)
  OBVIOUS
<1>9. Undoes(s, m2, g2)
  <2>1. Of("table", Talks) \subseteq s \ g1
    BY <1>5, <1>6 DEF Of
  <2>2. Undoes(s \ g1, Unguarded(vs), {"rls", "force"} \X Talks)
    BY <1>4, <2>1, UnguardedUndoes
  <2> QED BY <1>7, <1>8, <2>2, UndoesBoth
<1>10. PICK m3, g3 : m3 = m2 \o <<Raises({"APP_DB_USER"})>> \o Revoked(ts) /\ g3 = g2 \cup Of("grant", Talks)
  OBVIOUS
<1>11. Undoes(s, m3, g3)
  <2>1. Undoes(s, m2 \o <<Raises({"APP_DB_USER"})>>, g2)
    BY <1>9, UndoesRaises
  <2>2. Of("table", Talks) \subseteq s \ g2 /\ Role \subseteq s \ g2
    BY <1>2, <1>5, <1>6, <1>8 DEF Of, Role
  <2>3. Undoes(s \ g2, Revoked(ts), Of("grant", Talks))
    BY <1>4, <2>2, RevokedUndoes
  <2> QED BY <1>10, <2>1, <2>3, UndoesBoth
<1>12. PICK h : h = {"table", "grant", "sequence", "rls", "force", "policy"} \X Talks
  OBVIOUS
<1>13. Undoes(s \ g3, Dropped(ts), h)
  <2>1. Of("table", Talks) \subseteq s \ g3
    BY <1>5, <1>6, <1>8, <1>10 DEF Of
  <2>2. ASSUME NEW i \in DOMAIN ts, NEW u \in Tables, ts[i] \in References(u)
        PROVE  <<"table", u>> \notin s \ g3 \/ \E j \in DOMAIN ts : j < i /\ ts[j] = u
    <3>1. i = 1 \/ i = 2
      BY <1>4
    <3>2. ts[i] \in Talks
      BY <1>4, <3>1 DEF Talks
    <3>3. ts[i] = "conversations" /\ u = "conversation_messages"
      BY <2>2, <3>2 DEF References, Talks
    <3>4. i = 2
      BY <1>4, <3>1, <3>3
    <3> QED BY <1>4, <3>3, <3>4
  <2>3. ASSUME NEW t \in Range(ts), NEW u \in Tables, t \in PolicyReads(u) PROVE <<"policy", u>> \notin s \ g3
    <3>1. u = "conversation_messages"
      BY <1>4, <2>3 DEF PolicyReads, References, Talks
    <3>2. <<"policy", u>> \in g3
      BY <1>5, <1>8, <1>10, <3>1 DEF Of, Talks
    <3> QED BY <3>2
  <2> QED BY <1>4, <1>12, <2>1, <2>2, <2>3, DroppedUndoes
<1>14. PICK g : g = g3 \cup h
  OBVIOUS
<1>15. Undoes(s, DownConversations, g)
  <2>1. Undoes(s, m3 \o Dropped(ts), g)
    BY <1>11, <1>13, <1>14, UndoesBoth
  <2>2. DownConversations = m3 \o Dropped(ts)
    BY <1>3, <1>8, <1>10 DEF DownConversations
  <2> QED BY <2>1, <2>2
<1>16. g = {"table", "grant", "sequence", "rls", "force", "policy"} \X Talks
  BY <1>5, <1>8, <1>10, <1>12, <1>14 DEF Of
<1>17. AtRevision(s \ g, 4)
  <2>1. 4 \in 0 .. 5 /\ 4 < 5 /\ 5 \in 1 .. 5 /\ 5 - 1 = 4
    OBVIOUS
  <2>2. g \cap Canonical(4) = {}
    <3>1. \A n \in Talks : \A k \in {"table", "grant", "sequence", "rls", "force", "policy"} : <<k, n>> \notin Canonical(4)
      BY <2>1, Elsewhere
    <3>2. ASSUME NEW f \in g PROVE f \notin Canonical(4)
      <4>1. PICK k \in {"table", "grant", "sequence", "rls", "force", "policy"}, n \in Talks : f = <<k, n>>
        BY <1>16, <3>2
      <4> QED BY <3>1, <4>1
    <3> QED BY <3>2
  <2>3. Added(5) \cup Leftovers(5) \subseteq g \cup Leftovers(4)
    <3>1. Leftovers(5) = {} /\ Leftovers(4) = {<<"sequence", "policy_chunks">>}
      BY DEF Leftovers, Of
    <3>2. Added(5) = ({"table", "grant", "rls", "force", "policy"} \X Talks) \cup Of("sequence", Talks \cup {"policy_chunks"})
      BY TableNames DEF Added, Guards, Talks
    <3> QED BY <1>16, <3>1, <3>2 DEF Of
  <2>4. (Added(5) \cup Leftovers(5)) \ g \subseteq Canonical(4) \cup Leftovers(4)
    BY <2>3
  <2>5. AtRevision(s \ g, 5 - 1)
    BY <2>1, <2>2, <2>4, Returns
  <2> QED BY <2>1, <2>5
<1> QED BY <1>15, <1>17

\* The fourth drops it with the table.
LEMMA DownFourth ==
  ASSUME NEW s, AtRevision(s, 4)
  PROVE  \E g : Undoes(s, DownChunks, g) /\ AtRevision(s \ g, 3)
<1>1. <<"table", "policy_chunks">> \in s /\ Role \subseteq s
  <2>1. 4 \in 0 .. 5 /\ 4 > 3 /\ 4 > 1
    OBVIOUS
  <2> QED BY <2>1, TablesThere, Standing
<1>2. PICK a, b, c : a = Raises({"APP_DB_USER"}) /\ b = Revoke({"policy_chunks"}) /\ c = DropTable("policy_chunks")
  OBVIOUS
<1>3. PICK x, y, z : x = <<a>> /\ y = <<a, b>> /\ z = <<a, b, c>>
  OBVIOUS
<1>4. y = x \o <<b>> /\ z = y \o <<c>>
  <2>1. y = x \o <<b>>
    BY <1>3, TwoStatements
  <2>2. z = y \o <<c>>
    BY <1>3
  <2> QED BY <2>1, <2>2
<1>5. Undoes(s, x, {})
  BY <1>2, <1>3, RaisesFirst
<1>6. PICK h : h = Of("grant", {"policy_chunks"})
  OBVIOUS
<1>7. Undoes(s, y, h)
  <2>1. Role \subseteq s \ {} /\ Of("table", {"policy_chunks"}) \subseteq s \ {}
    BY <1>1 DEF Of
  <2>2. Undoes(s, x \o <<b>>, {} \cup h)
    BY <1>2, <1>5, <1>6, <2>1, UndoesRevoke
  <2>3. {} \cup h = h
    OBVIOUS
  <2> QED BY <1>4, <2>2, <2>3
<1>8. /\ c.needs = {<<"table", "policy_chunks">>} /\ c.forbids = {} /\ c.adds = {}
      /\ c.drops = {"table", "grant", "sequence", "rls", "force", "policy"} \X {"policy_chunks"}
  <2>1. \A u : "policy_chunks" \notin References(u) /\ "policy_chunks" \notin PolicyReads(u)
    BY DEF References, PolicyReads
  <2> QED BY <1>2, <2>1, TableStatements
<1>9. Undoes(s, z, h \cup c.drops)
  <2>1. Runs(c, s \ h)
    BY <1>1, <1>6, <1>8 DEF Runs, Of
  <2>2. Undoes(s, y \o <<c>>, h \cup c.drops)
    BY <1>7, <1>8, <2>1, UndoesStep
  <2> QED BY <1>4, <2>2
<1>10. PICK g : g = {"table", "grant", "sequence", "rls", "force", "policy"} \X {"policy_chunks"}
  OBVIOUS
<1>11. h \cup c.drops = g
  BY <1>6, <1>8, <1>10 DEF Of
<1>12. Undoes(s, DownChunks, g)
  BY <1>2, <1>3, <1>9, <1>11 DEF DownChunks
<1>13. AtRevision(s \ g, 3)
  <2>1. 3 \in 0 .. 5 /\ 3 < 4 /\ 4 \in 1 .. 5 /\ 4 - 1 = 3
    OBVIOUS
  <2>2. g \cap Canonical(3) = {}
    <3>1. \A k \in {"table", "grant", "sequence", "rls", "force", "policy"} : <<k, "policy_chunks">> \notin Canonical(3)
      BY <2>1, Elsewhere
    <3>2. ASSUME NEW f \in g PROVE f \notin Canonical(3)
      <4>1. PICK k \in {"table", "grant", "sequence", "rls", "force", "policy"} : f = <<k, "policy_chunks">>
        BY <1>10, <3>2
      <4> QED BY <3>1, <4>1
    <3> QED BY <3>2
  <2>3. Added(4) \cup Leftovers(4) \subseteq g
    <3>1. Leftovers(4) = {<<"sequence", "policy_chunks">>}
      BY DEF Leftovers, Of
    <3>2. Added(4) = {"table", "grant"} \X {"policy_chunks"}
      BY DEF Added
    <3> QED BY <1>10, <3>1, <3>2
  <2>4. (Added(4) \cup Leftovers(4)) \ g \subseteq Canonical(3) \cup Leftovers(3)
    BY <2>3
  <2>5. AtRevision(s \ g, 4 - 1)
    BY <2>1, <2>2, <2>4, Returns
  <2> QED BY <2>1, <2>5
<1> QED BY <1>12, <1>13

\* The third drops the column.
LEMMA DownThird ==
  ASSUME NEW s, AtRevision(s, 3)
  PROVE  \E g : Undoes(s, DownFlag, g) /\ AtRevision(s \ g, 2)
<1>1. <<"table", "vehicles">> \in s /\ <<"column", "is_price_reliable">> \in s
  <2>1. 3 \in 0 .. 5 /\ 3 > 0 /\ 3 > 2 /\ "vehicles" \in Initially
    BY DEF Initially
  <2> QED BY <2>1, TablesThere
<1>2. PICK st : st = [Existing({"vehicles"}) EXCEPT !.needs = @ \cup Flag, !.drops = Flag]
  OBVIOUS
<1>3. st.needs = Of("table", {"vehicles"}) \cup Flag /\ st.forbids = {} /\ st.adds = {} /\ st.drops = Flag
  BY <1>2 DEF Existing, Statement
<1>4. Runs(st, s)
  <2>1. Of("table", {"vehicles"}) \cup Flag \subseteq s
    BY <1>1 DEF Of, Flag
  <2> QED BY <1>3, <2>1 DEF Runs
<1>5. Undoes(s, <<st>>, Flag)
  BY <1>3, <1>4, UndoesOne
<1>6. AtRevision(s \ Flag, 2)
  <2>1. 2 \in 0 .. 5 /\ 2 < 3 /\ 3 \in 1 .. 5 /\ 3 - 1 = 2
    OBVIOUS
  <2>2. Flag \cap Canonical(2) = {}
    <3>1. <<"column", "is_price_reliable">> \notin Canonical(2)
      BY <2>1, Elsewhere
    <3> QED BY <3>1 DEF Flag, Of
  <2>3. Added(3) = Flag /\ Leftovers(3) = {}
    BY DEF Added, Leftovers
  <2>4. (Added(3) \cup Leftovers(3)) \ Flag \subseteq Canonical(2) \cup Leftovers(2)
    BY <2>3
  <2>5. AtRevision(s \ Flag, 3 - 1)
    BY <2>1, <2>2, <2>4, Returns
  <2> QED BY <2>1, <2>5
<1> QED BY <1>2, <1>5, <1>6 DEF DownFlag

\* The second: by DROP ROLE the role holds no grant, no sequence and no access, and
\* the tables of the later revisions, which it could still hold one on, are gone.
LEMMA DownSecond ==
  ASSUME NEW s, AtRevision(s, 2)
  PROVE  \E g : Undoes(s, DownRls, g) /\ AtRevision(s \ g, 1)
<1>1. \A n \in Initially : <<"table", n>> \in s
  <2>1. 2 \in 0 .. 5 /\ 2 > 0
    OBVIOUS
  <2> QED BY <2>1, TablesThere
<1>2. Role \subseteq s
  <2>1. 2 \in 0 .. 5 /\ 2 > 1
    OBVIOUS
  <2> QED BY <2>1, Standing
<1>3. Of("table", Scoped) \subseteq s /\ Of("table", PublicTables) \subseteq s
  BY <1>1 DEF Of, Scoped, PublicTables, Initially
<1>4. PICK ts : ts = <<"order_status_history", "customers">> \o DirectScopeTables
  OBVIOUS
<1>5. IsList(ts) /\ Range(ts) = Scoped
  BY <1>4, PolicyLists
<1>6. PICK m1, g1 : /\ m1 = <<Raises({"APP_DB_USER", "APP_DB_PASSWORD"})>> \o NoPolicies(ts)
                    /\ g1 = Of("policy", Scoped)
  OBVIOUS
<1>7. Undoes(s, m1, g1)
  <2>1. Undoes(s, <<Raises({"APP_DB_USER", "APP_DB_PASSWORD"})>>, {})
    BY RaisesFirst
  <2>2. Undoes(s \ {}, NoPolicies(ts), g1)
    <3>1. Undoes(s, NoPolicies(ts), g1)
      BY <1>3, <1>5, <1>6, NoPoliciesUndo
    <3>2. s \ {} = s
      OBVIOUS
    <3> QED BY <3>1, <3>2
  <2>3. Undoes(s, m1, {} \cup g1)
    BY <1>6, <2>1, <2>2, UndoesBoth
  <2>4. {} \cup g1 = g1
    OBVIOUS
  <2> QED BY <2>3, <2>4
<1>8. PICK m2, g2 : m2 = m1 \o Unguarded(AppRoleTables) /\ g2 = g1 \cup ({"rls", "force"} \X Scoped)
  OBVIOUS
<1>9. Undoes(s, m2, g2)
  <2>1. Of("table", Scoped) \subseteq s \ g1
    BY <1>3, <1>6 DEF Of
  <2>2. Undoes(s \ g1, Unguarded(AppRoleTables), {"rls", "force"} \X Scoped)
    BY <2>1, AppRoleList, UnguardedUndoes
  <2> QED BY <1>7, <1>8, <2>2, UndoesBoth
<1>10. PICK a, b, c, d, e, f :
         /\ a = RevokeSequences /\ b = Revoke(Range(AppRoleTables)) /\ c = Revoke(PublicTables)
         /\ d = RevokeAccess("schema") /\ e = RevokeAccess("database") /\ f = DropRole
  OBVIOUS
<1>11. PICK x1, x2, x3, x4, x5, x6 :
         /\ x1 = <<a>> /\ x2 = <<a, b>> /\ x3 = <<a, b, c>> /\ x4 = <<a, b, c, d>>
         /\ x5 = <<a, b, c, d, e>> /\ x6 = <<a, b, c, d, e, f>>
  OBVIOUS
<1>12. /\ x2 = x1 \o <<b>> /\ x3 = x2 \o <<c>> /\ x4 = x3 \o <<d>>
       /\ x5 = x4 \o <<e>> /\ x6 = x5 \o <<f>>
  <2>1. x2 = x1 \o <<b>>
    BY <1>11, TwoStatements
  <2>2. x3 = x2 \o <<c>>
    BY <1>11
  <2>3. x4 = x3 \o <<d>>
    BY <1>11
  <2>4. x5 = x4 \o <<e>>
    BY <1>11
  <2>5. x6 = x5 \o <<f>>
    BY <1>11
  <2> QED BY <2>1, <2>2, <2>3, <2>4, <2>5
<1>13. PICK t : t = s \ g2
  OBVIOUS
<1>14. Role \subseteq t /\ Of("table", Scoped) \subseteq t /\ Of("table", PublicTables) \subseteq t
  BY <1>2, <1>3, <1>6, <1>8, <1>13 DEF Of, Role
<1>15. PICK h1, h2, h3, h4, h5, h6 :
         /\ h1 = Of("sequence", Tables) /\ h2 = h1 \cup Of("grant", Scoped) /\ h3 = h2 \cup Of("grant", PublicTables)
         /\ h4 = h3 \cup Of("access", {"schema"}) /\ h5 = h4 \cup Of("access", {"database"}) /\ h6 = h5 \cup Role
  OBVIOUS
<1>16. \A k \in {h1, h2, h3, h4, h5} :
         Role \subseteq t \ k /\ Of("table", Scoped) \subseteq t \ k /\ Of("table", PublicTables) \subseteq t \ k
  <2>1. h5 = Of("sequence", Tables) \cup Of("grant", Scoped) \cup Of("grant", PublicTables)
             \cup Of("access", {"schema"}) \cup Of("access", {"database"})
    BY <1>15
  <2>2. Role \cap h5 = {} /\ Of("table", Scoped) \cap h5 = {} /\ Of("table", PublicTables) \cap h5 = {}
    BY <2>1 DEF Of, Role
  <2>3. h1 \subseteq h5 /\ h2 \subseteq h5 /\ h3 \subseteq h5 /\ h4 \subseteq h5
    BY <1>15
  <2> QED BY <1>14, <2>2, <2>3
<1>17. Undoes(t, x1, h1)
  <2>1. a.needs = Role /\ a.forbids = {} /\ a.adds = {} /\ a.drops = h1
    BY <1>10, <1>15, RoleStatements
  <2>2. Runs(a, t)
    BY <1>14, <2>1 DEF Runs
  <2> QED BY <1>11, <2>1, <2>2, UndoesOne
<1>18. Undoes(t, x2, h2)
  BY <1>10, <1>12, <1>15, <1>16, <1>17, AppRoleList, UndoesRevoke
<1>19. Undoes(t, x3, h3)
  BY <1>10, <1>12, <1>15, <1>16, <1>18, UndoesRevoke
<1>20. Undoes(t, x4, h4)
  BY <1>10, <1>12, <1>15, <1>16, <1>19, UndoesAccess
<1>21. Undoes(t, x5, h5)
  BY <1>10, <1>12, <1>15, <1>16, <1>20, UndoesAccess
<1>22. s \subseteq Canonical(2)
  <2>1. Leftovers(2) = {}
    BY DEF Leftovers
  <2> QED BY <2>1 DEF AtRevision
<1>23. Undoes(t, x6, h6)
  <2>1. /\ f.needs = {} /\ f.adds = {} /\ f.drops = Role
        /\ f.forbids = ({"grant", "sequence"} \X Tables) \cup Of("access", {"database", "schema"})
    BY <1>10, RoleStatements
  <2>2. ASSUME NEW n \in Tables PROVE <<"grant", n>> \notin t \ h5 /\ <<"sequence", n>> \notin t \ h5
    <3>1. <<"sequence", n>> \in h5
      BY <1>15 DEF Of
    <3>2. <<"grant", n>> \in Canonical(2) => n \in Initially
      <4>1. 2 \in 0 .. 5 /\ ~(2 > 3) /\ ~(2 > 4)
        OBVIOUS
      <4> QED BY <4>1, CanonicalFacts
    <3>3. n \in Initially => n \in Scoped \cup PublicTables
      BY DEF Initially, Scoped, PublicTables
    <3>4. n \in Scoped \cup PublicTables => <<"grant", n>> \in h5
      BY <1>15 DEF Of
    <3> QED BY <1>13, <1>22, <3>1, <3>2, <3>3, <3>4
  <2>3. Of("access", {"database", "schema"}) \subseteq h5
    BY <1>15 DEF Of
  <2>4. f.forbids \cap Settings = {}
    BY <2>1 DEF Settings, Of
  <2>5. f.forbids \cap ((t \ h5) \cup Settings) = {}
    <3>1. ASSUME NEW z \in {"grant", "sequence"} \X Tables PROVE z \notin t \ h5
      <4>1. PICK n \in Tables : z = <<"grant", n>> \/ z = <<"sequence", n>>
        OBVIOUS
      <4> QED BY <2>2, <4>1
    <3> QED BY <2>1, <2>3, <2>4, <3>1
  <2>6. Runs(f, t \ h5)
    BY <2>1, <2>5 DEF Runs
  <2>7. Undoes(t, x5 \o <<f>>, h5 \cup f.drops)
    BY <1>21, <2>1, <2>6, UndoesStep
  <2> QED BY <1>12, <1>15, <2>1, <2>7
<1>24. PICK g : g = g2 \cup h6
  OBVIOUS
<1>25. Undoes(s, DownRls, g)
  <2>1. Undoes(s, m2 \o x6, g)
    BY <1>9, <1>13, <1>23, <1>24, UndoesBoth
  <2>2. DownRls = m2 \o x6
    BY <1>4, <1>6, <1>8, <1>10, <1>11 DEF DownRls
  <2> QED BY <2>1, <2>2
<1>26. AtRevision(s \ g, 1)
  <2>1. 1 \in 0 .. 5 /\ 1 < 2 /\ 2 \in 1 .. 5 /\ 2 - 1 = 1
    OBVIOUS
  <2>2. g = Of("policy", Scoped) \cup ({"rls", "force"} \X Scoped) \cup Of("sequence", Tables)
            \cup Of("grant", Scoped) \cup Of("grant", PublicTables)
            \cup Of("access", {"schema"}) \cup Of("access", {"database"}) \cup Role
    BY <1>6, <1>8, <1>15, <1>24
  <2>3. g \cap Canonical(1) = {}
    <3>1. \A n : \A k \in {"grant", "sequence", "rls", "force", "policy", "access", "role"} : <<k, n>> \notin Canonical(1)
      BY <2>1, Elsewhere
    <3>2. ASSUME NEW z \in g
          PROVE  \E k \in {"grant", "sequence", "rls", "force", "policy", "access", "role"} : \E n : z = <<k, n>>
      BY <2>2 DEF Of, Role
    <3>3. ASSUME NEW z \in g PROVE z \notin Canonical(1)
      <4>1. PICK k \in {"grant", "sequence", "rls", "force", "policy", "access", "role"} : \E n : z = <<k, n>>
        BY <3>2
      <4>2. PICK n : z = <<k, n>>
        BY <4>1
      <4> QED BY <3>1, <4>2
    <3> QED BY <3>3
  <2>4. Added(2) \subseteq g
    <3>1. Added(2) = Role \cup Of("access", {"database", "schema"}) \cup Of("grant", PublicTables \cup Scoped)
                    \cup Of("sequence", Initially) \cup ({"rls", "force", "policy"} \X Scoped)
      BY TableNames, AppRoleList DEF Added, Guards, Initially
    <3>2. Initially \subseteq Tables
      BY TableNames DEF Initially
    <3> QED BY <2>2, <3>1, <3>2 DEF Of
  <2>5. Leftovers(2) = {}
    BY DEF Leftovers
  <2>6. (Added(2) \cup Leftovers(2)) \ g \subseteq Canonical(1) \cup Leftovers(1)
    BY <2>4, <2>5
  <2>7. AtRevision(s \ g, 2 - 1)
    BY <2>1, <2>3, <2>6, Returns
  <2> QED BY <2>1, <2>7
<1> QED BY <1>25, <1>26

\* The first drops children before parents and the types last; the extension stays.
LEMMA DownFirst ==
  ASSUME NEW s, AtRevision(s, 1)
  PROVE  \E g : Undoes(s, DownInitial, g) /\ AtRevision(s \ g, 0)
<1>1. /\ \A n \in Initially : <<"table", n>> \in s
      /\ \A n : <<"policy", n>> \notin s
      /\ \A n \in Talks : <<"table", n>> \notin s
  <2>1. 1 \in 0 .. 5 /\ 1 > 0 /\ 1 < 2 /\ 1 < 5
    OBVIOUS
  <2> QED BY <2>1, TablesThere
<1>2. PICK ts : ts = Reverse(InitialTables)
  OBVIOUS
<1>3. /\ IsList(ts) /\ Range(ts) = Initially /\ Distinct(ts) /\ DOMAIN ts = 1 .. 7
      /\ ts[7] = "customers" /\ ts[6] = "vehicles" /\ ts[5] = "escalations" /\ ts[4] = "orders"
      /\ ts[3] = "test_drive_bookings" /\ ts[2] = "vehicle_embeddings" /\ ts[1] = "order_status_history"
      /\ \A i : i \in 1 .. 7 <=> i \in {1, 2, 3, 4, 5, 6, 7}
  BY <1>2, ReverseInitialList, Ranges
<1>4. PICK h : h = {"table", "grant", "sequence", "rls", "force", "policy"} \X Initially
  OBVIOUS
<1>5. Undoes(s, Dropped(ts), h)
  <2>1. Of("table", Range(ts)) \subseteq s
    BY <1>1, <1>3 DEF Of
  <2>2. ASSUME NEW i \in DOMAIN ts, NEW u \in Tables, ts[i] \in References(u)
        PROVE  <<"table", u>> \notin s \/ \E j \in DOMAIN ts : j < i /\ ts[j] = u
    <3>1. CASE u \in Talks
      BY <1>1, <3>1
    <3>2. CASE u \notin Talks
      <4>1. \/ ts[i] = "customers" /\ u \in {"escalations", "orders", "test_drive_bookings"}
            \/ ts[i] = "vehicles" /\ u \in {"orders", "test_drive_bookings", "vehicle_embeddings"}
            \/ ts[i] = "orders" /\ u = "order_status_history"
        BY <2>2, <3>2 DEF References, Talks
      <4>2. \/ i = 7 /\ u \in {ts[5], ts[4], ts[3]}
            \/ i = 6 /\ u \in {ts[4], ts[3], ts[2]}
            \/ i = 4 /\ u = ts[1]
        BY <1>3, <4>1
      <4> QED BY <1>3, <4>2
    <3> QED BY <3>1, <3>2
  <2>3. \A t \in Range(ts) : \A u \in Tables : t \in PolicyReads(u) => <<"policy", u>> \notin s
    BY <1>1
  <2> QED BY <1>3, <1>4, <2>1, <2>2, <2>3, DroppedUndoes
<1>6. PICK a, b : /\ a = DropType("order_status", {"orders", "order_status_history"})
                  /\ b = DropType("test_drive_status", {"test_drive_bookings"})
  OBVIOUS
<1>7. Undoes(s \ h, <<a>>, Of("type", {"order_status"}))
  <2>1. a.needs = {} /\ a.forbids = Of("table", {"orders", "order_status_history"}) /\ a.adds = {}
        /\ a.drops = Of("type", {"order_status"})
    BY <1>6, TypeStatements
  <2>2. a.forbids \cap ((s \ h) \cup Settings) = {}
    BY <1>4, <2>1 DEF Of, Settings, Initially
  <2>3. Runs(a, s \ h)
    BY <2>1, <2>2 DEF Runs
  <2> QED BY <2>1, <2>3, UndoesOne
<1>8. Undoes(s \ h, <<a>> \o <<b>>, Of("type", {"order_status"}) \cup Of("type", {"test_drive_status"}))
  <2>1. b.needs = {} /\ b.forbids = Of("table", {"test_drive_bookings"}) /\ b.adds = {}
        /\ b.drops = Of("type", {"test_drive_status"})
    BY <1>6, TypeStatements
  <2>2. b.forbids \cap (((s \ h) \ Of("type", {"order_status"})) \cup Settings) = {}
    BY <1>4, <2>1 DEF Of, Settings, Initially
  <2>3. Runs(b, (s \ h) \ Of("type", {"order_status"}))
    BY <2>1, <2>2 DEF Runs
  <2>4. Undoes(s \ h, <<a>> \o <<b>>, Of("type", {"order_status"}) \cup b.drops)
    BY <1>7, <2>1, <2>3, UndoesStep
  <2> QED BY <2>1, <2>4
<1>9. PICK g : g = h \cup Of("type", {"order_status", "test_drive_status"})
  OBVIOUS
<1>10. Undoes(s, DownInitial, g)
  <2>1. PICK x : x = <<a, b>>
    OBVIOUS
  <2>2. Undoes(s \ h, x, Of("type", {"order_status", "test_drive_status"}))
    <3>1. x = <<a>> \o <<b>>
      BY <2>1, TwoStatements
    <3>2. Of("type", {"order_status"}) \cup Of("type", {"test_drive_status"}) = Of("type", {"order_status", "test_drive_status"})
      BY DEF Of
    <3> QED BY <1>8, <3>1, <3>2
  <2>3. Undoes(s, Dropped(ts) \o x, g)
    BY <1>5, <1>9, <2>2, UndoesBoth
  <2>4. DownInitial = Dropped(ts) \o x
    BY <1>2, <1>6, <2>1 DEF DownInitial
  <2> QED BY <2>3, <2>4
<1>11. AtRevision(s \ g, 0)
  <2>1. 1 \in 1 .. 5 /\ 1 - 1 = 0 /\ Canonical(0) = {}
    BY CanonicalStep
  <2>2. Added(1) \cup Leftovers(1) \subseteq g \cup Vector \cup Role
    <3>1. Added(1) = Vector \cup Of("table", Initially) \cup Of("type", {"order_status", "test_drive_status"})
      BY TableNames DEF Added, Initially
    <3>2. Of("table", Initially) \subseteq h
      BY <1>4 DEF Of
    <3>3. Leftovers(1) = Role
      BY DEF Leftovers
    <3> QED BY <1>9, <3>1, <3>2, <3>3
  <2>3. Leftovers(0) = Vector \cup Role
    BY DEF Leftovers
  <2>4. g \cap Canonical(0) = {} /\ (Added(1) \cup Leftovers(1)) \ g \subseteq Canonical(0) \cup Leftovers(0)
    BY <2>1, <2>2, <2>3
  <2>5. AtRevision(s \ g, 1 - 1)
    BY <2>1, <2>4, Returns
  <2> QED BY <2>1, <2>5
<1> QED BY <1>10, <1>11

\* Every downgrade, from any database at its revision.
LEMMA DownLeads ==
  ASSUME NEW s, NEW r \in 1 .. 5, AtRevision(s, r)
  PROVE  /\ IsList(Down[r]) /\ Shrinks(s, Down[r])
         /\ AtRevision(s \ Taken(Down[r]), r - 1)
<1>1. r \in {1, 2, 3, 4, 5}
  OBVIOUS
<1>2. \E g : Undoes(s, Down[r], g) /\ AtRevision(s \ g, r - 1)
  <2>1. CASE r = 1
    <3>1. \E g : Undoes(s, DownInitial, g) /\ AtRevision(s \ g, 0)
      BY <2>1, DownFirst
    <3> QED BY <2>1, <3>1 DEF Down
  <2>2. CASE r = 2
    <3>1. \E g : Undoes(s, DownRls, g) /\ AtRevision(s \ g, 1)
      BY <2>2, DownSecond
    <3> QED BY <2>2, <3>1 DEF Down
  <2>3. CASE r = 3
    <3>1. \E g : Undoes(s, DownFlag, g) /\ AtRevision(s \ g, 2)
      BY <2>3, DownThird
    <3> QED BY <2>3, <3>1 DEF Down
  <2>4. CASE r = 4
    <3>1. \E g : Undoes(s, DownChunks, g) /\ AtRevision(s \ g, 3)
      BY <2>4, DownFourth
    <3>2. Down[r] = DownChunks /\ r - 1 = 3
      BY <2>4 DEF Down
    <3> QED BY <3>1, <3>2
  <2>5. CASE r = 5
    <3>1. \E g : Undoes(s, DownConversations, g) /\ AtRevision(s \ g, 4)
      BY <2>5, DownFifth
    <3> QED BY <2>5, <3>1 DEF Down
  <2> QED BY <1>1, <2>1, <2>2, <2>3, <2>4, <2>5
<1> QED BY <1>2 DEF Undoes

-----------------------------------------------------------------------------
\* The chain.

\* A database without a revision, its cluster with or without the role.
LEMMA ChainInit == MigrationsInit => ChainInv
<1> SUFFICES ASSUME MigrationsInit PROVE ChainInv
  OBVIOUS
<1>1. AtRevision(schema, 0)
  BY CanonicalStep DEF MigrationsInit, AtRevision, Leftovers
<1>2. Underway
  <2>1. Grows(tx, << >>, 0) /\ tx \cup Given(<< >>, 0) = tx
    BY NothingLeft
  <2> QED BY <1>1, <2>1 DEF MigrationsInit, Underway
<1>3. IsList(todo)
  BY NothingLeft DEF MigrationsInit
<1>4. AtRevision(schema, version) /\ NoStatementFails
  BY <1>1 DEF MigrationsInit, NoStatementFails
<1>5. version \in Revision /\ at \in Revision /\ goal \in Revision
  BY DEF MigrationsInit, Revision
<1>6. env \subseteq Settings /\ tx = schema /\ at = version /\ todo = << >>
  BY DEF MigrationsInit
<1>7. running \in BOOLEAN
  BY DEF MigrationsInit
<1> QED BY <1>2, <1>3, <1>4, <1>5, <1>6, <1>7 DEF ChainInv

\* Every step keeps the invariant.
LEMMA ChainStep == ChainInv /\ [MigrationsNext]_migrationVars => ChainInv'
<1> SUFFICES ASSUME ChainInv, [MigrationsNext]_migrationVars PROVE ChainInv'
  OBVIOUS
<1> USE DEF ChainInv
<1>1. todo = << >> => AtRevision(tx, at)
  <2> SUFFICES ASSUME todo = << >> PROVE AtRevision(tx, at)
    OBVIOUS
  <2>1. tx \cup Given(todo, at) = tx /\ tx \ Taken(todo) = tx
    BY NothingLeft
  <2> QED BY <2>1 DEF Underway
\* A step that leaves nothing open.
<1>2. ASSUME NEW how \in {"no", "setting"}, Stop(how), AtRevision(schema, version)', version' \in Revision
      PROVE  ChainInv'
  <2>1. Grows(tx', << >>, at') /\ tx' \cup Given(<< >>, at') = tx' /\ IsList(<< >>)
    BY NothingLeft
  <2>2. Underway'
    BY <1>2, <2>1 DEF Stop, Underway
  <2>3. NoStatementFails'
    BY <1>2 DEF Stop, NoStatementFails
  <2> QED BY <1>2, <2>1, <2>2, <2>3 DEF Stop
<1>3. ASSUME NEW to \in Revision, NEW given \in SUBSET Settings, Invoke(to, given)
      PROVE  ChainInv'
  <2>1. Underway'
    BY <1>3 DEF Invoke, Underway
  <2>2. NoStatementFails'
    BY <1>3 DEF Invoke, NoStatementFails
  <2>3. AtRevision(schema, version)'
    BY <1>3 DEF Invoke, database
  <2> QED BY <1>3, <2>1, <2>2, <2>3 DEF Invoke, database
<1>4. CASE Upgrade
  <2>1. PICK r \in 1 .. 5 : r = at + 1 /\ r - 1 = at
    <3>1. at + 1 \in 1 .. 5 /\ (at + 1) - 1 = at
      BY <1>4 DEF Upgrade, Revision
    <3> QED BY <3>1
  <2>2. AtRevision(tx, r - 1)
    BY <1>1, <1>4, <2>1 DEF Upgrade
  <2>3. IsList(Up[r]) /\ Grows(tx, Up[r], r) /\ AtRevision(tx \cup Given(Up[r], r), r)
    BY <2>2, UpLeads
  <2>4. todo' = Up[r] /\ at' = r /\ tx' = tx
    BY <1>4, <2>1 DEF Upgrade
  <2>5. Underway' /\ IsList(todo')
    BY <2>3, <2>4 DEF Underway
  <2>6. NoStatementFails' /\ AtRevision(schema, version)'
    BY <1>4 DEF Upgrade, database, NoStatementFails
  <2>7. at' \in Revision
    BY <2>4 DEF Revision
  <2> QED BY <1>4, <2>5, <2>6, <2>7 DEF Upgrade, database
<1>5. CASE Downgrade
  <2>1. PICK r \in 1 .. 5 : r = at
    BY <1>5 DEF Downgrade, Revision
  <2>2. AtRevision(tx, r)
    BY <1>1, <1>5, <2>1 DEF Downgrade
  <2>3. IsList(Down[r]) /\ Shrinks(tx, Down[r]) /\ AtRevision(tx \ Taken(Down[r]), r - 1)
    BY <2>2, DownLeads
  <2>4. todo' = Down[r] /\ at' = r - 1 /\ tx' = tx
    BY <1>5, <2>1 DEF Downgrade
  <2>5. Underway' /\ IsList(todo')
    BY <2>3, <2>4 DEF Underway
  <2>6. NoStatementFails' /\ AtRevision(schema, version)'
    BY <1>5 DEF Downgrade, database, NoStatementFails
  <2>7. at' \in Revision
    BY <2>4 DEF Revision
  <2> QED BY <1>5, <2>5, <2>6, <2>7 DEF Downgrade, database
<1>6. CASE Execute
  <2>1. todo # << >> /\ tx' = Effect(Head(todo), tx) /\ todo' = Tail(todo) /\ at' = at
    BY <1>6 DEF Execute
  <2>2. IsList(todo')
    BY <2>1, HeadTail
  <2>3. Underway'
    <3>1. CASE Grows(tx, todo, at) /\ AtRevision(tx \cup Given(todo, at), at)
      <4>1. Grows(tx', todo', at) /\ tx' \cup Given(todo', at) = tx \cup Given(todo, at)
        BY <2>1, <3>1, GrowsOn
      <4> QED BY <2>1, <3>1, <4>1 DEF Underway
    <3>2. CASE Shrinks(tx, todo) /\ AtRevision(tx \ Taken(todo), at)
      <4>1. Shrinks(tx', todo') /\ tx' \ Taken(todo') = tx \ Taken(todo)
        BY <2>1, <3>2, ShrinksOn
      <4> QED BY <2>1, <3>2, <4>1 DEF Underway
    <3> QED BY <3>1, <3>2 DEF Underway
  <2>4. NoStatementFails' /\ AtRevision(schema, version)'
    BY <1>6 DEF Execute, database, NoStatementFails
  <2> QED BY <1>6, <2>2, <2>3, <2>4 DEF Execute, database
<1>7. CASE Fail
  <2>1. Runs(Head(todo), tx)
    BY <1>7, FirstRuns DEF Fail, Underway
  <2>2. Head(todo).needs \subseteq Settings /\ Head(todo).needs # {}
    BY <1>7, <2>1 DEF Fail, Possible, Runs
  <2>3. Stop("setting") /\ AtRevision(schema, version)' /\ version' \in Revision
    BY <1>7, <2>2 DEF Fail, database
  <2> QED BY <1>2, <2>3
<1>8. CASE Die
  BY <1>8, <1>2 DEF Die, database
<1>9. CASE CommitChain
  <2>1. AtRevision(schema, version)' /\ version' \in Revision /\ Stop("no")
    BY <1>1, <1>9 DEF CommitChain
  <2> QED BY <1>2, <2>1
<1>10. CASE UNCHANGED migrationVars
  <2>1. Underway'
    BY <1>10 DEF migrationVars, database, Underway
  <2>2. NoStatementFails'
    BY <1>10 DEF migrationVars, NoStatementFails
  <2>3. AtRevision(schema, version)'
    BY <1>10 DEF migrationVars, database
  <2> QED BY <1>10, <2>1, <2>2, <2>3 DEF migrationVars, database
<1> QED BY <1>3, <1>4, <1>5, <1>6, <1>7, <1>8, <1>9, <1>10 DEF MigrationsNext

\* In every state of every sequence of invocations, started with or without the
\* settings, failed, killed or committed: the committed schema is that of the committed
\* revision, and what is left of the open transaction's migration can run, statement by
\* statement, and ends at the revision it makes.
THEOREM ChainInvariant == MigrationsSpec => []ChainInv
<1> QED BY ChainInit, ChainStep, PTL DEF MigrationsSpec

\* A revision names one schema, whichever way the database came to it: every downgrade
\* under migrations/versions undoes its upgrade, up to the leftovers listed, and an
\* attempt broken off leaves nothing.
THEOREM SchemasPathIndependent == MigrationsSpec => []PathIndependent
<1>1. ChainInv => PathIndependent
  BY DEF ChainInv, PathIndependent
<1> QED BY ChainInvariant, <1>1, PTL

\* No statement of a migration ever fails, however often and how far the database was
\* migrated up and down: what stops an invocation is only a setting _app_role or
\* _app_password did not find.
THEOREM ChainsRun == MigrationsSpec => []NoStatementFails
<1>1. ChainInv => NoStatementFails
  BY DEF ChainInv
<1> QED BY ChainInvariant, <1>1, PTL

\* The tables a customer's rows are in.
LEMMA CustomersOwn == CustomerTables = Scoped \cup Talks
<1>1. \A t \in Initially \cup {"policy_chunks"} \cup Talks :
        (t = "customers" \/ "customers" \in References(t)
                  \/ \E p \in References(t) : "customers" \in References(p)) <=> t \in Scoped \cup Talks
  BY DEF References, Initially, Talks, Scoped
<1> QED BY <1>1, TableNames DEF CustomerTables, Initially, Talks, Scoped

\* The application's role never holds a grant on a customer's table whose rows are
\* not guarded, at any committed schema: what upgrades grant first and guard later, and
\* downgrades unguard first and revoke later, is committed together.
THEOREM GrantsGuarded == MigrationsSpec => []GrantedMeansGuarded
<1>1. ASSUME ChainInv, NEW t \in CustomerTables, <<"grant", t>> \in schema PROVE Guards \X {t} \subseteq schema
  <2>1. <<"grant", t>> \in Canonical(version)
    BY <1>1 DEF ChainInv, AtRevision, Leftovers, Vector, Role, Of
  <2>2. \A k \in {"rls", "force", "policy"} : <<k, t>> \in Canonical(version)
    <3>1. version \in 0 .. 5 /\ t \in Scoped \cup Talks
      BY <1>1, CustomersOwn DEF ChainInv, Revision
    <3>2. t \in Initially => t \in Scoped
      BY <3>1 DEF Initially, Talks, Scoped
    <3>3. t # "policy_chunks"
      BY <3>1 DEF Talks, Scoped
    <3>4. (version > 1 /\ t \in Initially) \/ (version > 4 /\ t \in Talks)
      BY <2>1, <3>1, <3>3, CanonicalFacts
    <3> QED BY <3>1, <3>2, <3>4, CanonicalFacts
  <2> QED BY <1>1, <2>2 DEF ChainInv, AtRevision, Guards
<1>2. ChainInv => GrantedMeansGuarded
  BY <1>1 DEF GrantedMeansGuarded
<1> QED BY ChainInvariant, <1>2, PTL
=============================================================================
