# A verification project for dealership-agent

TLA+ models of the dealership assistant, checked with TLC on small instances,
with proofs for TLAPS of the properties that matter most. The code under
`src/src/dealership_agent` is the reference; `PROJECT.json` maps every
definition to the lines it stands for.

## The system

One FastAPI worker process serves `POST /chat`. A request is authenticated by a
JWT, rate-limited, given its conversation from Postgres, and handed to
`run_turn`, which spawns an MCP tool server for this one turn and runs a
LangGraph graph: intake, router, one or two sub-agents in parallel, merge,
possibly escalate, synthesis, verification. The tool server opens database
connections scoped to the customer it was spawned for; row-level security
enforces the scope. The turn's messages are stored and the reply returned.

| Component | State it keeps | Operations | What is hard about it |
|---|---|---|---|
| Tool loop (`agents/tool_loop.py`, `tool_binding.py`) | message history, recorded calls, result cache, no-answer flags | one LLM reply at a time: call a tool, answer, give up | calls that run but whose reply is lost; retries; three bounds that end a loop |
| Supervisor graph (`graph.py`, `nodes.py`, `degradation.py`) | routes, results of the agents, escalation, reply, reasons | the nodes | two agents interleave; any model reply; exceptions nobody catches; tickets committed before a failure |
| Action-claim verifier (`action_claims.py`) | none | gate, detection, substantiation | must fail closed; bounded to one regeneration |
| MCP session and server (`mcp_session.py`, `tools/server.py`) | identity for the life of the process | five tools | dies or loses replies at any point |
| Scope and RLS (`tools/scope.py`, `db/rls.py`, two migrations) | a setting per transaction, rows | begin a scope, any statement, commit, roll back | pooled connections change hands; child tables without an owner column |
| Conversation store (`api/conversations.py`) | conversations and messages | load, create, append | overlapping turns, crashes, foreign ids |
| Chat endpoint (`api/app.py`, `api/auth.py`) | none of its own | refuse, load or create, turn, store, respond | steps interleave around `await run_turn`; failures after a commit |
| Event loop (`api/app.py`, `agents/runner.py`, `llm/groq_provider.py`) | ready and waiting tasks | model and database calls on the loop, tool calls and probes off it | everything between two awaits of a turn holds up all other turns and `/readyz` |
| Rate limiter (`api/rate_limit.py`) | a window per customer and one for all | check | rollback of a charge, window boundaries |
| LLM providers (`llm/`) | none | complete with retries, normalise the reply | bounded backoff; span extraction |
| Schema migrations (`db/migrations/`) | the schema, its revision | five upgrades and downgrades, several in one transaction | settings missing half-way; privileges, enum types and roles that outlive their tables |
| Vehicle data (`data/scripts/`, `retrieval/search.py`) | files, data set, vehicles, vectors | download, clean, load, embed, seed, search | a flag that comes later than its data; near-duplicates in chains; loads that die |
| Policy documents (`data/scripts/embed_policies.py`, `retrieval/policy_search.py`, `agents/compaction.py`) | documents, chunks | ingest, rank, compact | former sections, superseded chunks crowding out current ones, tags cut off |
| Embedding runs (`data/scripts/`) | embeddings, chunks | select and insert in batches, delete and insert | restarts, concurrent runs, row locks |

Components interact by calls (endpoint, graph, loop), by messages over stdio
(loop and tool server), and through the database (tool servers and endpoint).
`PROJECT.json` lists the hazards of each at its line, and which property
covers it.

## Modules

**`ToolLoopContract`** is the loop as its callers may rely on it: at most one
execution per recorded call, none for a key whose result is already held, a
result only for a call that ran, and one outcome at the end.

**`ToolLoop`** is `run_tool_loop` itself. `pc = "prompt"` is the top of the for
loop; the code from there to the next `await` is one action (`HitCap`,
`BudgetGuard`, the four ways a reply ends the loop, `CachedCall`,
`ForbiddenCall`, `SendCall`). `ServerRuns`, `CallReturns` and `CallFails` split
the awaited call, so that the server can run a call whose reply never arrives.
`iteration` is `Len(calls)`, because every pass that does not return records
one call. A cache key is a value of `Keys`; a prompt's size is a number that
grows by a member of `StepTokens`.

**`SupervisorTurn`** is `run_turn` with all nodes of the graph. `node` is the
node about to run. The sub-agents are two instances of `ToolLoopContract`, so
their superstep has all interleavings and all outcomes `ToolLoop` can have and
no more. A node that makes several model calls is split where it can stop
half-way: `verify`, `regenerate`, `recheck`. A reply is abstracted to what the
verifier can tell apart: whether it claims a handoff, another state change, or
nothing, and whether it uses the gate's vocabulary. What raises ends in
`"raised"`; a call that is then still at the tool server may yet run
(`LateExecution`).

**`RateLimiter`** is `check` in three outcomes over discrete time. What was
admitted is kept as a set of requests, each with its customer, its time and a
number, so that "how many, of whom, when" is a cardinality.

**`RowScope`** is the database side of isolation. A connection is taken from
the pool by anybody, may begin a scope if its user is authenticated, and then
runs any selects and inserts at all, of any owner and below any parent: the
policies are what is checked, not the queries the code happens to contain.
After a transaction, an `is_local` setting reads as the empty string, which
`NULLIF` turns into NULL: the model's `Nobody`.

**`ConversationStore`** is an append-only log of whole turns per conversation,
and **`ChatService`** is `POST /chat` on top of it. Everything before `await
run_turn` and everything after it runs without suspending in one process, so
each is one action; the turn between them is where requests interleave, fail
or die with the process. What `run_turn` does is `SupervisorTurn`'s matter;
whether a request is over the limit is `RateLimiter`'s; both are free choices
here.

**`EventLoop`** is the one asyncio loop of the one worker. A task is waiting,
due, in the batch of the current iteration, or on the loop; what becomes due
during a batch is for the next one. A turn is the sequence of calls of its
nodes, with an await where the code has one and none where it has none:
`Again` is the next model call of a loop whose last call was cached or refused,
and of a verification that checks, regenerates and checks again. Inside one
call is `GroqProvider.complete`: attempts, which errors are retried, the capped
backoff, the last raise. A probe is `/readyz`, whose checks run in a thread and
in a subprocess. What a turn decides is free here. A turn routed to both agents
is two asyncio tasks for one superstep: `AfterRouter` makes the turn's second
strand due together with its lead, each holds the loop for stretches of its own,
and merge waits for both (`LoopEnds`, place "join"). An agent that raises makes
the turn cancel the other one and end, at the next iteration (`Aborts`).

**`EmbedPipeline`** is the two embedding scripts and the upsert they depend on.
Each process runs one script at a time and may die between any two steps. For
`embed_listings` a step is the select and then each batch's transaction; for
`embed_policies` it is the start and the end of each document's `DELETE` (which
may have to wait for another transaction's) and the commit. How PostgreSQL runs
the statements at READ COMMITTED is modelled from its documented behaviour:
`StartDelete` fixes the rows a statement is after, `EndDelete` takes those that
are left. What a run has still to do is a set, taken in order: vehicles and
documents are numbered. All rows of a document are one row here; they are
deleted together and in one order.

**`PolicySearch`** follows a policy document from its file to what the model
reads: sections parsed into numbered chunks, a document's rows replaced by
`store_chunks`, the candidate pool (every set the index may return when
similarities tie at the cut), the down-ranking (chunks that tie in any order, as
the database may return them), the slice with any limit, the line per chunk and
the cut at the observation's ceiling. A text is known by its similarity to the
query and its length; a line by the places where its tag and its text begin and
by its size, so that what the cut leaves of a piece is a number.

**`Catalog`** follows a listing through `download_listings`, `clean_listings`,
`load_listings`, `embed_listings`, the CI seed and `search_listings`, with the
migration that adds the price flag before, between and after them. The scripts
run one at a time and may die at any step. A row is known by its index among
the rows of all files, as in the data frame: the data set is a function of the
indices kept, and a load has a set of them left, of which a chunk is the first
few. `Kept` is the loop of `find_near_duplicates` as a recursive function. Prices
are counted in halves, so that a midpoint is exact.

**`Migrations`** is the chain of five revisions. A schema is a set of facts (a
table, a policy, a grant, a role, a type); a statement says which facts it
needs, which it fails on, and what it adds and drops. One invocation goes from
any revision to any other in one transaction: `Upgrade` and `Downgrade` take up
the next migration of the path, `Execute` runs its statements one by one, and each
may find a setting missing or the task be killed before it. `version` is what alembic
notes with the schema; `at` is the revision the open transaction makes or has
made. `Canonical` says what a revision adds to those before it, written out from
what the upgrades create, and `Leftovers` what may be there besides.

**`NormalizeResponse`** is `normalize_llm_response`: stripping, then
`_find_balanced_json_span` one character per step, then what becomes of the
piece it found. A character is one of the five classes the scanner
distinguishes. The scanner counts `{` and `[` together, so the classes do too.
Whether `json.loads` accepts a piece is a free choice. The grammar the scanner is
compared with is one of places: `Inside(t)[n]` has the places of `t` from which `n`
characters may stand between an opener and its closer.

Which module stands beside which: `SupervisorTurn` instantiates
`ToolLoopContract` twice, and `ToolLoop` implements it; `ChatService`
implements `ConversationStore`; `Catalog`, `PolicySearch`, `EmbedPipeline` and
`Migrations` look at one database from four sides, and each says in its comment
what it leaves to the others.

The modules named `...Proofs` hold the theorems of the module they extend; three
extend a pair, `RetrievalProofs` (`PolicySearch` and `Catalog`), `AgentLoopProofs`
(`ToolLoop` and `NormalizeResponse`) and `RowScopeProofs` (`RowScope` and the
`Migrations` that make its policies), which is why `CatalogSpec`, `NormalizeSpec`
and `MigrationsSpec` and their parts carry the name of their module. The `MC*`
modules hold the values of constants for TLC. An operator whose name is that of
the one after it with a suffix, such as `Capped_OneLate` before `Capped`, is a
mutation: the named bug put in place of the original, which the property listed
with it must catch. Nothing else uses these operators.

## Runs

| Run | Instance | What it shows |
|---|---|---|
| `tool_loop` | 3 keys (one not bound), 4 iterations, budget 9, prompts that start below and at the budget | memoization, accounting, flags, the spending bound, termination, and that `ToolLoop` implements `ToolLoopContract` |
| `supervisor_turn` | one key of each kind, 2 calls per loop, all drafts | the turn's safety properties and that it ends |
| `rate_limiter` | 2 customers, limits 2 and 3, window 3, 7 time units | refusals charge nothing; at most twice the limit in any window's length; honest Retry-After |
| `database` | 2 customers, 2 connections, 4 rows; the whole chain of migrations between any two revisions, settings present or not | isolation of reads and writes, fail-closed, completeness; no customer table is reachable unguarded, no statement of a migration fails, a revision is one schema |
| `chat_service` | 4 requests of 2 customers over 2 conversations | whole turns or none, the customer's own and complete context, refinement of the store |
| `embed_pipeline` | 2 processes, 3 scripts started, 2 models, 2 vehicles in batches of 1, 2 documents | no gaps after a finished run, duplicates only from overlapping runs, no cycle of lock waits, no document missing while it is replaced |
| `event_loop` | 1 turn of up to two strands, 1 probe with 2 suspensions, 2 calls per loop and verification, 1 retry, every duration 0 or 1 but a database call's, up to 4 | how long a task holds the loop, that everybody is served |
| `event_loop_lag` | 2 turns of up to two strands, 1 probe with 1 suspension, 2 calls per loop, 1 retry, calls of no time, sleeps and database calls of up to 1 | how late a ready probe runs |
| `retrieval` | 3 documents of up to 3 sections, limits -1 to 2, pool 2 x limit and at least 3, ceiling 24; two snapshots of four listings each, chunks of 2, two loads, two seed runs, two upgrades of the flag | edited documents lose their former sections, superseded chunks crowd out no current one, none is read without its label; the price sentinel stays hidden once a row was reloaded, one of each near-duplicate is kept, a load is whole or absent |
| `normalize_response` | every text of up to 6 characters, 5 wrappings | the scanner returns the balanced span of a grammar, and finds it if the first opener begins one |

The bounds are small but each lets its case happen. Four iterations allow a
result, its cached repetition, a failure and its retry in one loop, and the cap.
Two calls per agent allow an error followed by success, a ticket and a cap, in
both agents at once. Two windows and a bit allow a burst on both sides of a
boundary and a return after a refusal; the global limit is below what two
customers may use together and above what one may. Two customers and two
connections allow a connection to be handed from one to the other while the
second holds an open transaction; four rows are two parents of different
customers and a child of each. Three script runs in two processes allow one
that overlaps two others, which follow each other. Six characters hold a brace
in a string, an escaped quote and a nested span. Four requests allow two that
overlap on one conversation, one that follows both, and one of somebody else.
In both event loop runs the base delay exceeds its cap, so the cap matters, and one
retry is enough for an attempt that is not the last. In `event_loop` a database
call may take 4 units, longer than a whole `complete` (3), and both strands of a
turn run to their end, into each other's way and past an abort. In
`event_loop_lag` the second turn stands for whatever else is on the loop when a
probe is due. With calls of no time a `complete` takes as long as its one sleep
(1), a stay of two calls and the next one 3, a second loop 2: the bound is
`2 * (3 + 2) = 10`, and TLC reaches 10 and no more. In `retrieval` the first
snapshot holds a chain `a ~ b ~ c` whose ends are not alike, a row without a
valuation and one with the sentinel, and the second gives a car another
valuation and names one twice: in two chunks if it is loaded alone, in one, which
the `INSERT` refuses, if both are. Two loads let a later one overwrite an earlier,
and the flag can be dropped and added again between them. The former texts of the policies are nearer
to the query than the current ones and together fill the pool; sizes are chosen
so that the ceiling falls before, inside and after a tag.

Two runs put two specifications side by side that share no variable:
`MCDatabase` the database in service and the database being migrated,
`MCRetrieval` the policies and the vehicles. A behaviour follows one of them and
leaves the other as it began, so its states are those of the two specifications
run apart. Every property speaks of one of them, and no property could tell an
interleaving of the two from the steps of the one it speaks of.

A `TypeOK` is proved where its module has proofs, and no run repeats it.

### Where the code and what is said of it disagree

Two sentences are checked by a run each and are false of the code.

- `turn_provider_hiccup`: `tests/integration/test_agent_edge_cases.py:293` says a
  provider hiccup never propagates an exception out of `run_turn`. One in the
  router, the synthesis or the verifier does; only the loops contain it.
- `null_answer`: `tool_loop.py:107` says a loop returns either an answer or exactly
  one of three flags. A `final` action with a null answer (`tool_loop.py:170`)
  returns neither, and as escalation goes by the flags, nothing escalates it.
  `FlaggedEscalated` therefore speaks of flagged loops.

Four more are contradicted and have no run of their own: a property or an action
says what the code does instead.

- `llm/base.py:96` extracts a balanced span that "exists anywhere", and line 45 the
  first there is. An opener that is never closed hides every span behind it: the
  scanner starts at the first opener and nowhere else. What then is extracted, the
  span at the first opener or none, `SpanIsBalanced` and `NoSpanMissed` say for every
  text, and they are proved.
- `graph.py:27` calls the clarify question hardcoded and never generated. It is the
  router model's `clarify_question` if there is one (`nodes.py:263`), and goes out
  unverified. `Router` has it so, and `HonestReply` leaves turns that end with the
  question out (`Synthesized`).
- `compaction.py:75` calls `max_chars` a hard ceiling on the returned string. The
  truncation marker comes on top, and `tests/unit/test_compaction.py:123` and `:134`
  accept it; so does the bound in `SupersededIsLabelled`.
- `tool_loop.py:13` calls the loop's budget cumulative. It bounds one prompt, and as
  prompts carry the whole history a loop may spend one budget per iteration.
  `SpentBounded` states that and is proved.

### Seen while modelling

No sentence rules these out. They are listed for whoever changes the code next.

- The regenerated reply of a degraded turn is written without the degradation
  note the first draft was given (`nodes.py:354`).
- A prose reply with a bracketed remark is cut down to the remark: the span is
  extracted before anything is parsed (`llm/base.py`).
- Model calls block the only event loop. `docs/DEPLOYMENT.md:253` calls blocking
  fixed, which is true of `/readyz` itself; but a probe waits for whatever stretch
  of turns is before it, twice over where both agents of one run at once
  (`LagBounded`). With the default three retries one
  `complete` sleeps seven seconds besides its four requests, and a few such calls
  in one stretch can outlast the load balancer's 30 seconds.
- Calls answered from the cache or refused, and verification's up to five model
  calls, never await: the stretch is as long as one node's calls (`HoldBounded`).
- Chunks of a document that is removed or renamed stay searchable, and lose
  nothing of their rank.
- Only the midpoint decides whether a price is reliable. A listing with one zero
  bound, or a zero and a missing one, would be shown with its zero; the audit
  says there is none, and `Valuations` makes that assumption visible.
- A negative limit slices all but the last results of the pool
  (`policy_search.py:80`).
- A second run of the CI seed gives each of its cars a second vector.
- A vehicle whose text a later load changed keeps the vector of the old text.
- One agent raising ends the turn while the other's call is at the server, which
  still runs it: a ticket opened so late is in no reply.
- The vector index may return fewer candidates than match a rare filter.

## Fairness

`ToolLoop` is fair for the loop's own steps: the model call returns or raises
because the provider's client has timeouts and its retries are counted, and an
awaited tool call gets its reply or its failure. `call_tool` has no timeout of
its own, so the latter is an assumption on the transport: a server that dies
closes the pipe, which fails the call. No fairness is assumed of the server.
`SupervisorTurn` is fair for the graph and for each agent's loop, which the
event loop schedules in turn. `EventLoop` is weakly fair for `LoopStep` as a
whole, with no fairness for any task: the process goes on running its loop and
time goes on, and that each task gets its turn follows from asyncio's batches.
That what runs elsewhere comes back within `MaxWait` is the assumption on the
transport again; a tool server that hangs holds up only its own turn. Safety-only
modules state none.

Two more assumptions are about libraries and are stated where they are used.
`PolicySearch!Nearest` takes the nearest chunks exactly. `policy_chunks` has an HNSW
index (`cb4ac97d0b71:49-57`), whose scan is approximate and may return others, or
fewer. The corpus is nine documents, for which PostgreSQL may well sort the whole
table, but nothing in the repository makes it. `CurrentNotCrowdedOut` is about the ranking given exact candidates. `ToolLoop!CallReturns`
takes compaction and `json.dumps` not to raise: in `tool_loop.py:207-216` they follow
the call in the same `try`, after it was recorded, and would have it recorded a second
time as an error, and for a cached call (line 193) they are outside any `try`. What
the five tools return are parsed JSON values, for which neither raises.

`VerifierSound` in `SupervisorTurn` is the one assumption about a model: the
verifier detects every claim in a draft that reaches it and accepts a handoff
only with the escalation result as evidence. It is needed for `HonestReply`
alone, which then says that the code around the verifier (gate, stages, fail
closed, one regeneration, fallback) keeps an honest verifier's verdict. That
every claim uses the gate's vocabulary is the code's own assumption, and the
instance's.

## Proofs

`AgentLoopProofs` proves all of the loop's safety properties and its refinement
for any keys, iterations, budget and prompt sizes. The inductive invariant
`IInv` adds to the checked properties what makes them inductive: the cache is
exactly the set of keys with a recorded result (`CacheIsResults`); a call that
is out is for an allowed key, not cached, and below the cap (`RequestOut`); the
result is set only by returning (`ResultOnce`); and what was spent is bounded by
the number of prompts sent so far (`SpentPerPrompt`), which between two prompts
says more than `SpentBounded` does.

Its second part proves both properties of `NormalizeResponse` for a completion of
any length. The grammar is unfolded once into rules about places (`QuotedRule`,
`InsideRule`). For `SpanIsBalanced` the scanner's depth is given a meaning:
`HasRead` says that from the first opener it has read as many unclosed openers as
it is deep, each followed by what may stand inside, and perhaps the beginning of
a string. A closer takes the last of them off. For `NoSpanMissed` the argument goes the
other way: its registers at each place are a third recursive function, and over
whatever the grammar lets stand inside they come out as they went in
(`InsideIsRead`), so a balanced span would have brought the depth to 0.

`RowScopeProofs` proves all of `RowScope`'s properties for any number of
customers, connections and rows. A scope is in force exactly inside the
transaction that set it, so what a policy lets pass is the current user's. That
alone does not cover child rows: `UniqueParents` (a key names one parent, across
committed rows and all open transactions) rules out that a child is reached
through somebody else's parent, and `ChildrenOwned` (a committed child's parent
is itself committed) that a rollback leaves a child without its owner. The
theorems assume only that `Nobody` is not a customer.

Its second part proves the three properties of `Migrations`. The module has no
parameter and its run covers every state, so what the proof adds is the reason.
None of the three is inductive: a schema in the middle of a migration is at no
revision. `ChainInv` speaks of what is left of it instead. An upgrade's statements
only add and a downgrade's only drop, so if each can run where its turn comes, or
lacks a setting (`Grows`, `Shrinks`), the schema it will end with is known from the
beginning, whatever else is there: `Underway` says it is the one the migration's
revision names. A step takes one statement off and changes neither (`GrowsOn`,
`ShrinksOn`). There remains a lemma for each of the ten migrations (`UpFirst` to
`UpFifth`, `DownFifth` to `DownFirst`): from any schema its revision names, leftovers
present or not, every statement of it finds what it needs and ends at the other
revision. Each is put together from the loops and statements it consists of
(`LeadsBoth`, `UndoesBoth`), and the loops are proved for any list of tables in an
order that suits the foreign keys and the policies. `GrantedMeansGuarded` follows
from `PathIndependent`: at no revision is there a grant on a customer's table
without its three guards, and only whole migrations are committed.

`SupervisorTurnProofs` proves all safety properties of a turn for any keys and
any cap. The phase of the graph says what may still change: `RoutesByNode`
(before the agents nothing has happened; from the synthesis on both loops are
over; the escalate node is reached by its route or a flagged loop), `Noted`
(the reasons recomputed from the loops are those noted when each mishap
happened, until they are stored, and the stored ones from then on), `Escalated`
(a ticket of the node has its cause, and is the escalation's result unless the
turn failed), `Recorded` (once the account agent's loop is over its record has
every execution, at its own place and under its own key, and the recorded errors
are among the reasons from the verification on) and `NoExecution` (nothing
customer-scoped for an anonymous caller). `TicketsDisclosed` needs `Escalated`
and `Recorded`: a ticket the server opened and whose reply was lost is an error of the
record, and so a reason of the reply. Both loops keep the contract's own invariant, which
bounds them by the cap (`CapAssumption`). `RepliesAreHonest` assumes what
`HonestReply` needs and the code cannot give: that the verifier follows its
prompts (`VerifierSound`) and that a draft with a claim uses the vocabulary.

`ChatServiceProofs` proves the properties of `ChatService` for any customers,
requests and conversations, and that it implements `ConversationStore`.
`NoHalfTurn` and `OwnContext` are not inductive alone: `LogsOwned` adds that a log
holds messages only of its owner's requests whose turn in it is over, so that
a turn being stored cannot be there already and what is loaded is the caller's.

`EmbedPipelineProofs` proves all properties of `EmbedPipeline` for any number of
processes, vehicles, documents, models and runs. The argument follows two runs
that were not alive at the same time: what the earlier one committed was there
when the later one read, so it left those vehicles out (`Listing`), and has those
chunks among the rows its `DELETE` is after (`Policy`); `Apart` says that no two
open transactions delete one row. A cycle of lock waits would have a process at
the latest document, which waits for one that deleted that document already and
so waits at a later one; well-foundedness of `<` makes this an argument for any
number of processes. `Numbered` assumes vehicles and documents are numbers, and
`DeletesNeverDeadlock` that there is a largest one.

`EventLoopProofs` proves `HoldBounded` and `LagBounded` for any settings,
durations, turns and probes. `HeldCharged` is an account: what the task on the
loop has held it for, with what is left of its current call, fits into the calls
it completed, the attempts it has behind it with their sleeps, and the attempt
it is making. For a probe's lag the account is a potential: what it has waited,
plus what every task ahead of it may still take (the rest of the stay on the
loop, one stay of each strand in the batch, and the batch the probe missed), never
exceeds `LagBound`. A strand ahead of the probe may be there twice, once in the
batch before and once in its own. Where it is a turn's lead the two stays are of
any two nodes, and as one may be a database call, a database slower than a model
call sets the bound: `TwoStretches` takes the larger of the two. A second strand
only runs its loop, all of whose stays come out of the one cap (`SecondLoop`). A
lead of the batch that the probe missed may route to both agents and so put the
second strand into the batch with the probe: the account of a probe that is due has
that loop in it from the start, whether it is ever run or not. `Paired` says that it
can only be put there once, and that a second strand runs nothing but a loop. The sum over the turns
is the size of a set of pairs (`Total`), with one cap per strand.
`Kinds` assumes finitely many turns, and that no strand of one is a probe.

`RateLimiterProofs` proves all of `RateLimiter` for any customers, limits and
window. `Keeps` says of one counter what each property needs: its count is what was
admitted since its window opened, the window's length before that holds at most
the limit, nothing was admitted after the window's end, and any interval of a
window's length holds at most twice the limit. `Numbered` makes two requests of
one customer different, so that one more admission is one more in the set;
`Promises` says that what a refused client was told is the end of the window
that refused it, or that a window has been opened at or after that time.

`RetrievalProofs` is about what the two search tools find. For `PolicySearch` it
proves `NoFormerSection` for any documents and edits, and `CurrentNotCrowdedOut`
for any similarities, pool sizes and limits: a current chunk that the pool
lacks finds it full of chunks at least as similar, of which so few can be
superseded that the current ones fill the limit. `SupersededIsLabelled` holds for any
sizes, ceiling and limit, one that counts from the end included (`CutIsOrdered`):
where a line starts is a recursive function, and the least line at which it
would not be behind the whole of those before shows that there is none
(`SumsGrow`); a superseded text that the cut leaves a character of therefore has
its tag and every current line before the cut. `Documents` assumes finitely many file
names, documents that are sequences, similarities that are numbers, and sizes
that are naturals.
For `Catalog` it proves all three properties. `OneOfEachKept` is the correctness
of the deduplication loop, by the least row at which it would fail
(`LoopDedups`); it assumes nothing of similarity. `LoadedWhole` needs what an open
transaction sees (`LoadOpen`): the committed rows with those it has sent written
over them. `SentinelHidden` adds that every row of the data set, of an open load,
and of the table but for those the migration marked, is flagged if its price is
the sentinel (`Honest`). It rests on `Valuations`, what
`docs/DATA_PRICE_AUDIT.md:102` says of the data: a zero in one bound comes with a
zero in the other.

Only model-checked, because the provers do not reach them: `Termination`,
`TurnEnds` and `EveryoneServed` (liveness under fairness). Every other property of
a passing run is a theorem. What a recursive function does for every argument is proved without the induction theorems of the library, which
take an operator: by the least argument at which it would fail (`LeastOne`).

## Not modelled

- Prompt texts, wording, logging, price keywords: no state, and nothing the
  properties tell apart.
- Signature checks, the embedding model, the MCP transport: libraries.
- `bedrock_provider.py` and the provider factory: one request shape; a failure
  is a raised exception like any other.
- `audit_cleaning.py`, `audit_prices.py`, `profile_listings.py` and the report of
  `clean_listings.py`: statistics printed from a data frame.
- `demo.py`, `smoke_test.py`, `mint_dev_token.py`, `aws_demo.sh` and the evaluation
  scripts: they drive the system from outside.
- `/healthz` keeps no state and `/listings` is the search in a thread.
- Updates and deletes of protected rows: no application code issues them.
- Provisioning, apart from the one fact that a single worker serves requests.

## Plan

1. Concurrent ingestion in `PolicySearch` itself, so that what a search may find
   between two transactions of `EmbedPipeline` is part of its theorems.
