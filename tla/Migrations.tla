------------------------------ MODULE Migrations ------------------------------
(* The chain of schema migrations, run up and down between any two revisions. *)
(* env.py runs everything one invocation has to do in one transaction, so a   *)
(* statement that fails, a setting that is missing half-way or a task that is *)
(* killed takes all of it back; the application, which connects as the role   *)
(* the second migration creates, only ever sees what was committed.           *)
(*                                                                            *)
(* A schema is a set of facts <<kind, name>>. A statement says which facts it *)
(* needs, which it fails on, and which it adds and drops. Columns, keys and   *)
(* indexes come and go with their table and are left out. A revision is its   *)
(* place in the chain, 0 for a database without one.                          *)
EXTENDS Integers, Sequences, SequencesExt

VARIABLES
  schema, version,  \* what is committed, and its revision
  tx, at,           \* what the open transaction sees; the revision it makes or has made
  goal,             \* the revision the running invocation goes to
  todo,             \* statements left of the migration it is in
  env,              \* settings it was started with
  running,          \* an invocation is running
  failed            \* how the last one failed: "no", "setting" or "statement"

database == <<schema, version>>
migrationVars == <<database, tx, at, goal, todo, env, running, failed>>

\* Facts of one kind.
Of(kind, names) == {<<kind, n>> : n \in names}
Settings == Of("setting", {"APP_DB_USER", "APP_DB_PASSWORD"})
Role == Of("role", {"app"})
Vector == Of("extension", {"vector"})
Flag == Of("column", {"is_price_reliable"})

-----------------------------------------------------------------------------
InitialTables == <<"customers", "vehicles", "escalations", "orders", "test_drive_bookings",
                   "vehicle_embeddings", "order_status_history">>
AppRoleTables == <<"customers", "orders", "order_status_history", "test_drive_bookings", "escalations">>
ConversationTables == <<"conversations", "conversation_messages">>
PublicTables == {"vehicles", "vehicle_embeddings"}
Tables == Range(InitialTables) \cup {"policy_chunks"} \cup Range(ConversationTables)

\* Foreign keys.
References(t) ==
  CASE t \in {"escalations", "conversations"} -> {"customers"}
    [] t \in {"orders", "test_drive_bookings"} -> {"customers", "vehicles"}
    [] t = "vehicle_embeddings" -> {"vehicles"}
    [] t = "order_status_history" -> {"orders"}
    [] t = "conversation_messages" -> {"conversations"}
    [] OTHER -> {}

\* The parent table a child's policy reads.
PolicyReads(t) ==
  IF t \in {"order_status_history", "conversation_messages"} THEN References(t) ELSE {}

\* Enum types: created with the first table that has one, used by the second.
NewTypes(t) ==
  CASE t = "orders" -> {"order_status"} [] t = "test_drive_bookings" -> {"test_drive_status"} [] OTHER -> {}
OldTypes(t) == IF t = "order_status_history" THEN {"order_status"} ELSE {}

Statement == [needs |-> {}, forbids |-> {}, adds |-> {}, drops |-> {}]
Raises(names) == [Statement EXCEPT !.needs = Of("setting", names)]
Existing(ts) == [Statement EXCEPT !.needs = Of("table", ts)]

CreateTable(t) ==
  [needs |-> Of("table", References(t)) \cup Of("type", OldTypes(t))
             \cup (IF t \in {"vehicle_embeddings", "policy_chunks"} THEN Vector ELSE {}),
   forbids |-> Of("table", {t}) \cup Of("type", NewTypes(t)),
   adds |-> Of("table", {t}) \cup Of("type", NewTypes(t)),
   drops |-> {}]
\* What hangs on a table goes with it; a key or a policy that points at it does not.
DropTable(t) ==
  [Existing({t}) EXCEPT
     !.forbids = Of("table", {u \in Tables : t \in References(u)})
                 \cup Of("policy", {u \in Tables : t \in PolicyReads(u)}),
     !.drops = {"table", "grant", "sequence", "rls", "force", "policy"} \X {t}]
DropType(n, users) ==
  [Statement EXCEPT !.forbids = Of("table", users), !.drops = Of("type", {n})]

\* GRANT and REVOKE name a role that has to exist and tables that have to exist.
Grant(ts) == [Existing(ts) EXCEPT !.needs = @ \cup Role, !.adds = Of("grant", ts)]
Revoke(ts) == [Existing(ts) EXCEPT !.needs = @ \cup Role, !.drops = Of("grant", ts)]
GrantSequences == [Statement EXCEPT !.needs = Role, !.adds = Of("sequence", Tables)]
RevokeSequences == [Statement EXCEPT !.needs = Role, !.drops = Of("sequence", Tables)]
GrantAccess(n) == [Statement EXCEPT !.needs = Role, !.adds = Of("access", {n})]
RevokeAccess(n) == [Statement EXCEPT !.needs = Role, !.drops = Of("access", {n})]

Enable(t) == [Existing({t}) EXCEPT !.adds = Of("rls", {t})]
Disable(t) == [Existing({t}) EXCEPT !.drops = Of("rls", {t})]
ForceRls(t) == [Existing({t}) EXCEPT !.adds = Of("force", {t})]
NoForceRls(t) == [Existing({t}) EXCEPT !.drops = Of("force", {t})]
CreatePolicy(t) ==
  [Existing({t} \cup PolicyReads(t)) EXCEPT !.forbids = Of("policy", {t}), !.adds = Of("policy", {t})]
DropPolicy(t) == [Existing({t}) EXCEPT !.drops = Of("policy", {t})]

\* A loop over tables, with one statement for each or with two.
Created(ts) == [i \in DOMAIN ts |-> CreateTable(ts[i])]
Dropped(ts) == [i \in DOMAIN ts |-> DropTable(ts[i])]
Granted(ts) == [i \in DOMAIN ts |-> Grant({ts[i]})]
Revoked(ts) == [i \in DOMAIN ts |-> Revoke({ts[i]})]
Guarded(ts) ==
  [i \in 1 .. 2 * Len(ts) |-> IF i % 2 = 1 THEN Enable(ts[(i + 1) \div 2]) ELSE ForceRls(ts[i \div 2])]
Unguarded(ts) ==
  [i \in 1 .. 2 * Len(ts) |-> IF i % 2 = 1 THEN NoForceRls(ts[(i + 1) \div 2]) ELSE Disable(ts[i \div 2])]
Policies(ts) == [i \in DOMAIN ts |-> CreatePolicy(ts[i])]
NoPolicies(ts) == [i \in DOMAIN ts |-> DropPolicy(ts[i])]

-----------------------------------------------------------------------------
UpInitial == <<[Statement EXCEPT !.adds = Vector]>> \o Created(InitialTables)
DownInitial_KeepsTypes == Dropped(Reverse(InitialTables))
DownInitial ==
  Dropped(Reverse(InitialTables))
  \o <<DropType("order_status", {"orders", "order_status_history"}),
       DropType("test_drive_status", {"test_drive_bookings"})>>

\* CREATE ROLE is skipped when the role exists; DROP ROLE when it does not, and
\* it fails while the role holds a privilege.
CreateRole == [Statement EXCEPT !.adds = Role]
DropRole ==
  [Statement EXCEPT
     !.forbids = ({"grant", "sequence"} \X Tables) \cup Of("access", {"database", "schema"}),
     !.drops = Role]

DirectScopeTables == <<"orders", "test_drive_bookings", "escalations">>
UpRls ==
  <<Raises({"APP_DB_USER", "APP_DB_PASSWORD"}), CreateRole, GrantAccess("database"), GrantAccess("schema"),
    Grant(PublicTables), Grant(Range(AppRoleTables)), GrantSequences>>
  \o Guarded(AppRoleTables)
  \o Policies(DirectScopeTables \o <<"customers", "order_status_history">>)
DownRls_StaysForced ==
  <<Raises({"APP_DB_USER", "APP_DB_PASSWORD"})>>
  \o NoPolicies(<<"order_status_history", "customers">> \o DirectScopeTables)
  \o <<RevokeSequences, Revoke(Range(AppRoleTables)), Revoke(PublicTables),
       RevokeAccess("schema"), RevokeAccess("database"), DropRole>>
DownRls ==
  <<Raises({"APP_DB_USER", "APP_DB_PASSWORD"})>>
  \o NoPolicies(<<"order_status_history", "customers">> \o DirectScopeTables)
  \o Unguarded(AppRoleTables)
  \o <<RevokeSequences, Revoke(Range(AppRoleTables)), Revoke(PublicTables),
       RevokeAccess("schema"), RevokeAccess("database"), DropRole>>

UpFlag == <<[Existing({"vehicles"}) EXCEPT !.forbids = Flag, !.adds = Flag]>>
DownFlag == <<[Existing({"vehicles"}) EXCEPT !.needs = @ \cup Flag, !.drops = Flag]>>

UpChunks == <<CreateTable("policy_chunks"), Raises({"APP_DB_USER"}), Grant({"policy_chunks"})>>
DownChunks == <<Raises({"APP_DB_USER"}), Revoke({"policy_chunks"}), DropTable("policy_chunks")>>

UpConversations ==
  Created(ConversationTables)
  \o <<Raises({"APP_DB_USER"})>> \o Granted(ConversationTables) \o <<GrantSequences>>
  \o Guarded(ConversationTables)
  \o Policies(ConversationTables)
DownConversations ==
  NoPolicies(Reverse(ConversationTables))
  \o Unguarded(ConversationTables)
  \o <<Raises({"APP_DB_USER"})>> \o Revoked(Reverse(ConversationTables))
  \o Dropped(Reverse(ConversationTables))

\* The revisions in order: Up[r] makes revision r of the one before it and
\* Down[r] takes it back.
Up == <<UpInitial, UpRls, UpFlag, UpChunks, UpConversations>>
Down == <<DownInitial, DownRls, DownFlag, DownChunks, DownConversations>>
Revision == 0 .. 5

-----------------------------------------------------------------------------
Possible(st, s) == st.needs \subseteq s /\ st.forbids \cap s = {}

\* ALL SEQUENCES are those of the tables there are.
Effect(st, s) ==
  (s \ st.drops) \cup {f \in st.adds : f[1] = "sequence" => <<"table", f[2]>> \in s}

\* The role is the cluster's: somebody may have created it before.
MigrationsInit ==
  /\ schema \in SUBSET Role /\ version = 0
  /\ tx = schema /\ at = 0 /\ goal = 0 /\ todo = << >>
  /\ env = {} /\ running = FALSE /\ failed = "no"

\* alembic upgrade or downgrade to a revision, with some of the settings given.
Invoke(to, given) ==
  /\ ~running
  /\ to # version
  /\ running' = TRUE
  /\ goal' = to
  /\ env' = given
  /\ failed' = "no"
  /\ UNCHANGED <<database, tx, at, todo>>

\* The next migration of the path. Alembic notes its revision in the same
\* transaction, so nobody sees the note before the migration's last statement.
Upgrade ==
  /\ running /\ todo = << >> /\ at < goal
  /\ at' = at + 1
  /\ todo' = Up[at']
  /\ UNCHANGED <<database, tx, goal, env, running, failed>>

Downgrade ==
  /\ running /\ todo = << >> /\ at > goal
  /\ at' = at - 1
  /\ todo' = Down[at]
  /\ UNCHANGED <<database, tx, goal, env, running, failed>>

Execute_Autocommits ==
  /\ running /\ todo # << >>
  /\ Possible(Head(todo), tx \cup env)
  /\ tx' = Effect(Head(todo), tx)
  /\ schema' = tx'
  /\ todo' = Tail(todo)
  /\ UNCHANGED <<version, at, goal, env, running, failed>>
Execute ==
  /\ running /\ todo # << >>
  /\ Possible(Head(todo), tx \cup env)
  /\ tx' = Effect(Head(todo), tx)
  /\ todo' = Tail(todo)
  /\ UNCHANGED <<database, at, goal, env, running, failed>>

Stop(how) ==
  /\ running' = FALSE
  /\ failed' = how
  /\ tx' = schema' /\ at' = version' /\ goal' = version' /\ todo' = << >> /\ env' = {}

\* The transaction is rolled back.
Fail ==
  /\ running /\ todo # << >>
  /\ ~Possible(Head(todo), tx \cup env)
  /\ UNCHANGED database
  /\ Stop(IF Head(todo).needs \subseteq Settings /\ Head(todo).needs # {} THEN "setting" ELSE "statement")

Die ==
  /\ running
  /\ UNCHANGED database
  /\ Stop("no")

CommitChain ==
  /\ running /\ todo = << >> /\ at = goal
  /\ schema' = tx /\ version' = at
  /\ Stop("no")

MigrationsNext ==
  \/ \E to \in Revision : \E given \in SUBSET Settings : Invoke(to, given)
  \/ Upgrade \/ Downgrade \/ Execute \/ Fail \/ Die \/ CommitChain

MigrationsSpec == MigrationsInit /\ [][MigrationsNext]_migrationVars

-----------------------------------------------------------------------------
Guards == {"rls", "force", "policy"}

\* Everything a customer owns, directly or through a parent row.
CustomerTables ==
  {t \in Tables : t = "customers" \/ "customers" \in References(t)
                  \/ \E p \in References(t) : "customers" \in References(p)}

\* At no moment can the application's role reach a customer's table whose rows
\* are not guarded: neither while an upgrade grants first and guards later, nor
\* while a downgrade takes the guards away first and the grants later.
GrantedMeansGuarded ==
  \A t \in CustomerTables :
    <<"grant", t>> \in schema => Guards \X {t} \subseteq schema

\* However often and how far the database was migrated up and down, or an
\* attempt broken off, no statement of the chain ever fails: what fails is only
\* a setting that was not given.
NoStatementFails == failed # "statement"

\* What each revision adds to the one before it.
Added(r) ==
  CASE r = 1 -> Vector \cup Of("table", Range(InitialTables))
                \cup Of("type", {"order_status", "test_drive_status"})
    [] r = 2 -> Role \cup Of("access", {"database", "schema"})
                \cup Of("grant", PublicTables \cup Range(AppRoleTables))
                \cup Of("sequence", Range(InitialTables))
                \cup (Guards \X Range(AppRoleTables))
    [] r = 3 -> Flag
    [] r = 4 -> {"table", "grant"} \X {"policy_chunks"}
    [] r = 5 -> ({"table", "grant"} \cup Guards) \X Range(ConversationTables)
                \cup Of("sequence", Range(ConversationTables) \cup {"policy_chunks"})
Canonical(r) == UNION {Added(q) : q \in 1 .. r}

\* What may be there besides: the extension and a role of one's own stay below
\* the revisions that make them, and ALL SEQUENCES of the last one outlives it.
Leftovers(r) ==
  CASE r = 0 -> Vector \cup Role
    [] r = 1 -> Role
    [] r = 4 -> Of("sequence", {"policy_chunks"})
    [] OTHER -> {}

AtRevision(s, r) == Canonical(r) \subseteq s /\ s \subseteq Canonical(r) \cup Leftovers(r)

\* A revision names one schema, whichever way the database came to it.
PathIndependent == AtRevision(schema, version)
=============================================================================
