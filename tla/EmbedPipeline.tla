---------------------------- MODULE EmbedPipeline ----------------------------
(* The offline scripts that fill what search reads: load_listings upserts     *)
(* vehicles, embed_listings adds their vectors batch by batch, embed_policies *)
(* replaces the chunks of the policy documents in one transaction. A script   *)
(* may die between any two steps and be started again, and two may be running *)
(* at once. PostgreSQL runs them at READ COMMITTED: a DELETE works on the     *)
(* rows committed when the statement starts, waits for the transactions that  *)
(* already deleted some of them, and skips the ones that are gone by then.    *)
EXTENDS Integers, FiniteSets

CONSTANTS
  Jobs,        \* processes a script may run in
  Vehicles,    \* vehicle ids: the select is ORDER BY v.id
  Docs,        \* document slugs, numbered in the order of sorted()
  Models,      \* values EMBEDDING_MODEL_NAME may take
  BatchSize,   \* --batch-size
  MaxRuns      \* bound: scripts started in a behaviour

ASSUME Bounds == BatchSize \in Nat \ {0} /\ MaxRuns \in Nat
ASSUME Numbered == Vehicles \subseteq Nat /\ Docs \subseteq Nat

VARIABLES
  loaded,      \* vehicles
  embeddings,  \* vehicle_embeddings rows: the run that wrote each is recorded
  chunks,      \* policy_chunks: one row stands for all chunks of a document
  corpus,      \* data/policies: documents with at least one section of text
  job,         \* what runs in each process
  runs,        \* scripts started so far
  overlaps,    \* history: pairs of runs that were alive together
  promised     \* history: what embed runs that ended left embedded

vars == <<loaded, embeddings, chunks, corpus, job, runs, overlaps, promised>>

Embedding == [vehicle : Vehicles, model : Models, run : 1 .. MaxRuns]
ChunkRow == [doc : Docs, model : Models, run : 1 .. MaxRuns]

\* plan: what the script read when it started. todo: what is left of it, taken in
\* order. snap: the rows the DELETE that is running is after. deleted: the rows
\* the open transaction has deleted, locked until it ends.
Job == [script : {"embed_listings", "embed_policies"}, run : 1 .. MaxRuns, model : Models,
        plan : SUBSET (Vehicles \cup Docs), todo : SUBSET (Vehicles \cup Docs),
        stage : {"next", "deleting"}, snap : SUBSET ChunkRow, deleted : SUBSET ChunkRow]
Idle == [script |-> "none"]

Running(j, script) == job[j].script = script

Init ==
  /\ loaded = {} /\ embeddings = {} /\ chunks = {} /\ promised = {} /\ overlaps = {}
  /\ corpus \in SUBSET Docs
  /\ job = [j \in Jobs |-> Idle]
  /\ runs = 0

Start(j, script, m, plan, todo) ==
  /\ Running(j, "none")
  /\ runs < MaxRuns
  /\ runs' = runs + 1
  /\ job' = [job EXCEPT ![j] =
       [script |-> script, run |-> runs', model |-> m, plan |-> plan, todo |-> todo,
        stage |-> "next", snap |-> {}, deleted |-> {}]]
  /\ overlaps' = overlaps \cup
       {{runs', job[k].run} : k \in {k \in Jobs : ~Running(k, "none")}}

Stop(j) == job' = [job EXCEPT ![j] = Idle]

\* Whatever the script dies of: its open transaction is rolled back.
Die(j) ==
  /\ ~Running(j, "none")
  /\ Stop(j)
  /\ UNCHANGED <<loaded, embeddings, chunks, corpus, runs, overlaps, promised>>

-----------------------------------------------------------------------------
\* load_vehicles: every chunk of rows in one transaction. An update leaves the
\* key alone, so it neither waits for an embedding's insert nor delays it.
LoadVehicles(vs) ==
  /\ vs # {}
  /\ loaded' = loaded \cup vs
  /\ UNCHANGED <<embeddings, chunks, corpus, job, runs, overlaps, promised>>

\* SELECT_UNEMBEDDED, an anti-join on the vehicle and the model.
Pending_AnyModel(m) == {v \in loaded : \A e \in embeddings : e.vehicle # v}
Pending_AllVehicles(m) == loaded
Pending(m) == {v \in loaded : ~\E e \in embeddings : e.vehicle = v /\ e.model = m}

SelectPending(j, m) ==
  /\ Start(j, "embed_listings", m, loaded, Pending(m))
  /\ UNCHANGED <<loaded, embeddings, chunks, corpus, promised>>

\* The next BatchSize ids, or what is left: ids are distinct.
Batches(todo) == {b \in SUBSET todo :
  /\ b # {}
  /\ \A v \in b : \A w \in todo \ b : v < w
  /\ Cardinality(b) = BatchSize \/ (b = todo /\ Cardinality(b) < BatchSize)}

\* One transaction per batch, after its vectors are computed.
StoreBatch(j) ==
  /\ Running(j, "embed_listings")
  /\ \E b \in Batches(job[j].todo) :
       /\ embeddings' = embeddings \cup
            {[vehicle |-> v, model |-> job[j].model, run |-> job[j].run] : v \in b}
       /\ job' = [job EXCEPT ![j].todo = @ \ b]
  /\ UNCHANGED <<loaded, chunks, corpus, runs, overlaps, promised>>

FinishListings(j) ==
  /\ Running(j, "embed_listings")
  /\ job[j].todo = {}
  /\ Stop(j)
  /\ promised' = promised \cup (job[j].plan \X {job[j].model})
  /\ UNCHANGED <<loaded, embeddings, chunks, corpus, runs, overlaps>>

-----------------------------------------------------------------------------
EditCorpus(d) ==
  /\ corpus' = IF d \in corpus THEN corpus \ {d} ELSE corpus \cup {d}
  /\ UNCHANGED <<loaded, embeddings, chunks, job, runs, overlaps, promised>>

\* The documents whose chunks may be deleted next: in sorted order, one.
NextDocs_SetOrder(docs) == docs
NextDocs(docs) == {d \in docs : \A e \in docs : d <= e}

\* load_chunks. With no chunk store_chunks returns at once, which here is a
\* transaction that neither deletes nor inserts.
ReadCorpus(j, m) ==
  /\ Start(j, "embed_policies", m, corpus, corpus)
  /\ UNCHANGED <<loaded, embeddings, chunks, corpus, promised>>

RowsOf(d, m) == {r \in chunks : r.doc = d /\ r.model = m}

\* What job j waits for: a row its DELETE is after, deleted by k's transaction.
Waits(j, k) ==
  /\ j # k
  /\ Running(j, "embed_policies") /\ Running(k, "embed_policies")
  /\ job[j].snap \cap job[k].deleted # {}

StartDelete(j) ==
  /\ Running(j, "embed_policies")
  /\ job[j].stage = "next"
  /\ \E d \in NextDocs(job[j].todo) :
       job' = [job EXCEPT ![j].stage = "deleting", ![j].todo = @ \ {d},
                          ![j].snap = RowsOf(d, job[j].model)]
  /\ UNCHANGED <<loaded, embeddings, chunks, corpus, runs, overlaps, promised>>

EndDelete_Autocommits(j) ==
  /\ Running(j, "embed_policies")
  /\ job[j].stage = "deleting"
  /\ chunks' = chunks \ job[j].snap
  /\ job' = [job EXCEPT ![j].stage = "next", ![j].snap = {}]
  /\ UNCHANGED <<loaded, embeddings, corpus, runs, overlaps, promised>>
\* The rows of the statement's snapshot that are still there, once nobody holds them.
EndDelete(j) ==
  /\ Running(j, "embed_policies")
  /\ job[j].stage = "deleting"
  /\ \A k \in Jobs : ~Waits(j, k)
  /\ job' = [job EXCEPT ![j].stage = "next", ![j].snap = {},
                        ![j].deleted = @ \cup (job[j].snap \cap chunks)]
  /\ UNCHANGED <<loaded, embeddings, chunks, corpus, runs, overlaps, promised>>

Inserted(j) == {[doc |-> d, model |-> job[j].model, run |-> job[j].run] : d \in job[j].plan}

AfterCommit_KeepsOld(j) == chunks \cup Inserted(j)
AfterCommit(j) == (chunks \ job[j].deleted) \cup Inserted(j)

\* The inserts, seen by nobody before the commit, and the commit.
FinishPolicies(j) ==
  /\ Running(j, "embed_policies")
  /\ job[j].stage = "next"
  /\ job[j].todo = {}
  /\ chunks' = AfterCommit(j)
  /\ Stop(j)
  /\ UNCHANGED <<loaded, embeddings, corpus, runs, overlaps, promised>>

-----------------------------------------------------------------------------
Next ==
  \/ \E vs \in SUBSET Vehicles : LoadVehicles(vs)
  \/ \E d \in Docs : EditCorpus(d)
  \/ \E j \in Jobs : \E m \in Models : SelectPending(j, m) \/ ReadCorpus(j, m)
  \/ \E j \in Jobs : \/ StoreBatch(j) \/ FinishListings(j)
                     \/ StartDelete(j) \/ EndDelete(j) \/ FinishPolicies(j)
                     \/ Die(j)

Spec == Init /\ [][Next]_vars

-----------------------------------------------------------------------------
Overlapped(r, q) == {r, q} \in overlaps

\* Every variable keeps its type, and an open transaction has deleted only rows
\* that are still committed: no other one deleted them too.
TypeOK ==
  /\ loaded \subseteq Vehicles /\ corpus \subseteq Docs
  /\ embeddings \subseteq Embedding /\ chunks \subseteq ChunkRow
  /\ runs \in 0 .. MaxRuns
  /\ promised \subseteq Vehicles \X Models
  /\ overlaps \subseteq SUBSET (1 .. MaxRuns)
  /\ job \in [Jobs -> Job \cup {Idle}]
  /\ \A j \in Jobs : ~Running(j, "none") => job[j].deleted \subseteq chunks

\* embed_listings is idempotent: however often it is run, and wherever runs die,
\* a vehicle has two vectors of one model only if the runs that wrote them were
\* alive at the same time. (search_listings joins on the vector, so a second one
\* would list the vehicle twice.)
EmbeddedOnce ==
  \A e \in embeddings : \A f \in embeddings :
    (e # f /\ e.vehicle = f.vehicle /\ e.model = f.model) => Overlapped(e.run, f.run)

\* An embed run that ended left no gap: each vehicle there was when it started
\* has a vector of its model, whatever runs with other models or dead ones did.
NoGaps ==
  \A p \in promised : \E e \in embeddings : e.vehicle = p[1] /\ e.model = p[2]

\* A document's chunks come from one ingestion, unless the ingestions they come
\* from were alive at the same time: replacing them whole is "just as safe" as an
\* upsert for one script after another, however many died.
OneIngestion ==
  \A r \in chunks : \A q \in chunks :
    (r # q /\ r.doc = q.doc /\ r.model = q.model) => Overlapped(r.run, q.run)

\* Ingestions never wait for each other in a cycle: they delete in one order.
NoLockCycle ==
  \A S \in (SUBSET Jobs) \ {{}} : \E j \in S : \A k \in S : ~Waits(j, k)

\* A search never finds a document gone while it is replaced.
NeverEmptied ==
  [][\A d \in Docs : \A m \in Models : RowsOf(d, m) # {} => RowsOf(d, m)' # {}]_vars
=============================================================================
