------------------------- MODULE EmbedPipelineProofs -------------------------
(* The scripts' safety for any number of processes, vehicles, documents,      *)
(* models and runs. The argument follows the runs that were not alive at the  *)
(* same time: what such a run committed is there before the later one reads,  *)
(* so the later one leaves its vehicles out, and has its chunks in the        *)
(* snapshot of a DELETE.                                                      *)
EXTENDS EmbedPipeline, WellFoundedInduction, TLAPS

Live(j) == ~Running(j, "none")

\* Runs are numbered in the order they start, and two that are alive overlap.
RunsKnown ==
  /\ \A j \in Jobs : Live(j) => job[j].run \in 1 .. runs
  /\ \A r \in embeddings \cup chunks : r.run \in 1 .. runs
  /\ \A j \in Jobs : \A k \in Jobs \ {j} : Live(j) /\ Live(k) => Overlapped(job[j].run, job[k].run)

\* What is left to embed has a vector only from an overlapping run; what is not
\* left has one.
Listing(j) == Running(j, "embed_listings") =>
  /\ job[j].deleted = {} /\ job[j].snap = {}
  /\ job[j].plan \subseteq Vehicles /\ job[j].todo \subseteq job[j].plan
  /\ \A e \in embeddings :
       e.vehicle \in job[j].todo /\ e.model = job[j].model => Overlapped(e.run, job[j].run)
  /\ \A v \in job[j].plan \ job[j].todo :
       \E e \in embeddings : e.vehicle = v /\ e.model = job[j].model

\* Rows of a document that was begun are deleted, or about to be, or come from an
\* overlapping run; and the deletes go through the documents in order.
Policy(j) == Running(j, "embed_policies") =>
  /\ job[j].plan \subseteq Docs /\ job[j].todo \subseteq job[j].plan
  /\ \A r \in job[j].deleted \cup job[j].snap :
       r.model = job[j].model /\ r.doc \in job[j].plan \ job[j].todo
  /\ job[j].stage = "next" => job[j].snap = {}
  /\ \A r \in chunks :
       r.model = job[j].model /\ r.doc \in job[j].plan \ job[j].todo =>
         r \in job[j].snap \cup job[j].deleted \/ Overlapped(r.run, job[j].run)
  /\ \A r \in job[j].deleted \cup job[j].snap : \A d \in job[j].todo : r.doc < d
  /\ \A r \in job[j].deleted : \A q \in job[j].snap : r.doc < q.doc
  /\ \A r \in job[j].snap : \A q \in job[j].snap : r.doc = q.doc

Apart == \A j \in Jobs : \A k \in Jobs \ {j} :
  Live(j) /\ Live(k) => job[j].deleted \cap job[k].deleted = {}

Plans == \A j \in Jobs : Listing(j) /\ Policy(j)

IInv == TypeOK /\ RunsKnown /\ Plans /\ Apart /\ EmbeddedOnce /\ OneIngestion /\ NoGaps

-----------------------------------------------------------------------------
\* A live process runs one of the scripts, any other is idle.
LEMMA LiveJob ==
  ASSUME TypeOK, NEW j \in Jobs
  PROVE  /\ Live(j) <=> job[j] \in Job
         /\ Live(j) <=> Running(j, "embed_listings") \/ Running(j, "embed_policies")
         /\ Running(j, "embed_listings") => ~Running(j, "embed_policies")
         /\ ~Live(j) <=> job[j] = Idle
<1>1. Idle \notin Job
  BY DEF Idle, Job
<1>2. Idle.script = "none"
  BY DEF Idle
<1>3. \A x \in Job : x.script \in {"embed_listings", "embed_policies"}
  BY DEF Job
<1>4. job[j] \in Job \/ job[j] = Idle
  BY DEF TypeOK
<1> QED BY <1>1, <1>2, <1>3, <1>4 DEF Live, Running

\* A step of one process leaves the others alone, and the script it runs.
Changed(j) ==
  /\ job' \in [Jobs -> Job \cup {Idle}]
  /\ \A k \in Jobs \ {j} : job'[k] = job[k]

Same(j) ==
  /\ Changed(j) /\ job'[j] \in Job
  /\ job'[j].script = job[j].script /\ job'[j].run = job[j].run
  /\ job'[j].model = job[j].model /\ job'[j].plan = job[j].plan

\* A script that starts, and the ones beside it.
LEMMA Started ==
  ASSUME TypeOK, NEW j \in Jobs, NEW m \in Models, SelectPending(j, m) \/ ReadCorpus(j, m)
  PROVE  /\ runs' = runs + 1 /\ runs' \in 1 .. MaxRuns
         /\ ~Live(j) /\ Changed(j) /\ job'[j] \in Job
         /\ job'[j].run = runs' /\ job'[j].model = m
         /\ job'[j].stage = "next" /\ job'[j].snap = {} /\ job'[j].deleted = {}
         /\ \/ job'[j].script = "embed_listings" /\ job'[j].plan = loaded /\ job'[j].todo = Pending(m)
            \/ job'[j].script = "embed_policies" /\ job'[j].plan = corpus /\ job'[j].todo = corpus
         /\ overlaps \subseteq overlaps'
         /\ \A k \in Jobs : Live(k) => {runs', job[k].run} \in overlaps'
         /\ \A x \in overlaps' : x \in overlaps \/ \E k \in Jobs : Live(k) /\ x = {runs', job[k].run}
         /\ UNCHANGED <<loaded, embeddings, chunks, corpus, promised>>
<1>1. PICK script, plan, todo :
        /\ Start(j, script, m, plan, todo)
        /\ \/ script = "embed_listings" /\ plan = loaded /\ todo = Pending(m)
           \/ script = "embed_policies" /\ plan = corpus /\ todo = corpus
  BY DEF SelectPending, ReadCorpus
<1>2. /\ script \in {"embed_listings", "embed_policies"}
      /\ plan \in SUBSET (Vehicles \cup Docs) /\ todo \in SUBSET (Vehicles \cup Docs)
  <2>1. loaded \subseteq Vehicles /\ corpus \subseteq Docs
    BY DEF TypeOK
  <2> QED BY <1>1, <2>1 DEF Pending
<1> DEFINE new == [script |-> script, run |-> runs', model |-> m, plan |-> plan, todo |-> todo,
                   stage |-> "next", snap |-> {}, deleted |-> {}]
<1>3. runs' = runs + 1 /\ runs' \in 1 .. MaxRuns
  BY <1>1, Bounds DEF Start, TypeOK
<1>4. new \in Job
  BY <1>2, <1>3 DEF Job
<1>5. job' = [job EXCEPT ![j] = new]
  BY <1>1 DEF Start
<1>6. /\ overlaps \subseteq overlaps' /\ ~Live(j)
      /\ \A k \in Jobs : Live(k) => {runs', job[k].run} \in overlaps'
      /\ \A x \in overlaps' : x \in overlaps \/ \E k \in Jobs : Live(k) /\ x = {runs', job[k].run}
  BY <1>1 DEF Start, Live
<1>7. job'[j] = new /\ Changed(j)
  BY <1>4, <1>5 DEF TypeOK, Changed
<1>8. /\ new.script = script /\ new.run = runs' /\ new.model = m /\ new.plan = plan
      /\ new.todo = todo /\ new.stage = "next" /\ new.snap = {} /\ new.deleted = {}
  OBVIOUS
<1>9. UNCHANGED <<loaded, embeddings, chunks, corpus, promised>>
  BY DEF SelectPending, ReadCorpus
<1> HIDE DEF new
<1> QED BY <1>1, <1>3, <1>4, <1>6, <1>7, <1>8, <1>9

LEMMA Stopped ==
  ASSUME TypeOK, NEW j \in Jobs, Stop(j)
  PROVE  Changed(j) /\ job'[j] = Idle /\ ~Live(j)'
BY DEF Stop, TypeOK, Changed, Live, Running, Idle

\* The three steps that change the record of a script in place.
LEMMA Batched ==
  ASSUME TypeOK, NEW j \in Jobs, StoreBatch(j)
  PROVE  \E b \in Batches(job[j].todo) :
           /\ embeddings' = embeddings \cup
                {[vehicle |-> v, model |-> job[j].model, run |-> job[j].run] : v \in b}
           /\ Same(j) /\ Live(j)
           /\ job'[j].todo = job[j].todo \ b
           /\ job'[j].snap = job[j].snap /\ job'[j].deleted = job[j].deleted
<1>1. PICK b \in Batches(job[j].todo) :
        /\ embeddings' = embeddings \cup
             {[vehicle |-> v, model |-> job[j].model, run |-> job[j].run] : v \in b}
        /\ job' = [job EXCEPT ![j].todo = @ \ b]
  BY DEF StoreBatch
<1>2. Live(j) /\ job[j] \in Job
  BY LiveJob DEF StoreBatch
<1>3. [job[j] EXCEPT !.todo = @ \ b] \in Job
  BY <1>2 DEF Job
<1>4. job'[j] = [job[j] EXCEPT !.todo = @ \ b] /\ Changed(j)
  BY <1>1, <1>3 DEF TypeOK, Changed
<1>5. /\ Same(j) /\ job'[j].todo = job[j].todo \ b
      /\ job'[j].snap = job[j].snap /\ job'[j].deleted = job[j].deleted
  BY <1>2, <1>3, <1>4 DEF Same, Job
<1> QED BY <1>1, <1>2, <1>5

LEMMA DeleteStarted ==
  ASSUME TypeOK, NEW j \in Jobs, StartDelete(j)
  PROVE  \E d \in NextDocs(job[j].todo) :
           /\ Same(j) /\ Live(j)
           /\ job'[j].todo = job[j].todo \ {d} /\ job'[j].stage = "deleting"
           /\ job'[j].snap = RowsOf(d, job[j].model) /\ job'[j].deleted = job[j].deleted
<1>1. PICK d \in NextDocs(job[j].todo) :
        job' = [job EXCEPT ![j].stage = "deleting", ![j].todo = @ \ {d},
                           ![j].snap = RowsOf(d, job[j].model)]
  BY DEF StartDelete
<1>2. Live(j) /\ job[j] \in Job
  BY LiveJob DEF StartDelete
<1> DEFINE new == [job[j] EXCEPT !.stage = "deleting", !.todo = @ \ {d}, !.snap = RowsOf(d, job[j].model)]
<1>3. RowsOf(d, job[j].model) \in SUBSET ChunkRow
  BY DEF RowsOf, TypeOK
<1>4. new \in Job
  BY <1>2, <1>3 DEF Job
<1>5. job' = [job EXCEPT ![j] = new]
  BY <1>1 DEF TypeOK
<1>6. /\ new.script = job[j].script /\ new.run = job[j].run /\ new.model = job[j].model
      /\ new.plan = job[j].plan /\ new.todo = job[j].todo \ {d} /\ new.stage = "deleting"
      /\ new.snap = RowsOf(d, job[j].model) /\ new.deleted = job[j].deleted
  BY <1>2 DEF Job
<1> HIDE DEF new
<1>7. job'[j] = new /\ Changed(j)
  BY <1>4, <1>5 DEF TypeOK, Changed
<1> QED BY <1>2, <1>4, <1>6, <1>7 DEF Same

LEMMA DeleteEnded ==
  ASSUME TypeOK, NEW j \in Jobs, EndDelete(j)
  PROVE  /\ Same(j) /\ Live(j)
         /\ job'[j].todo = job[j].todo /\ job'[j].stage = "next" /\ job'[j].snap = {}
         /\ job'[j].deleted = job[j].deleted \cup (job[j].snap \cap chunks)
<1> DEFINE gone == job[j].snap \cap chunks
<1> DEFINE new == [job[j] EXCEPT !.stage = "next", !.snap = {}, !.deleted = @ \cup gone]
<1>1. job' = [job EXCEPT ![j].stage = "next", ![j].snap = {}, ![j].deleted = @ \cup gone]
  BY DEF EndDelete
<1>2. Live(j) /\ job[j] \in Job
  BY LiveJob DEF EndDelete
<1>3. gone \in SUBSET ChunkRow
  BY DEF TypeOK
<1> HIDE DEF gone
<1>4. new \in Job
  BY <1>2, <1>3 DEF Job
<1>5. job' = [job EXCEPT ![j] = new]
  BY <1>1 DEF TypeOK
<1>6. /\ new.script = job[j].script /\ new.run = job[j].run /\ new.model = job[j].model
      /\ new.plan = job[j].plan /\ new.todo = job[j].todo /\ new.stage = "next"
      /\ new.snap = {} /\ new.deleted = job[j].deleted \cup gone
  BY <1>2 DEF Job
<1> HIDE DEF new
<1>7. job'[j] = new /\ Changed(j)
  BY <1>4, <1>5 DEF TypeOK, Changed
<1> QED BY <1>2, <1>4, <1>6, <1>7 DEF Same, gone

-----------------------------------------------------------------------------
LEMMA TypeInit == Init => TypeOK
BY Bounds DEF Init, TypeOK, Running, Idle

\* What an ingestion adds is typed.
LEMMA InsertedTyped ==
  ASSUME TypeOK, NEW j \in Jobs, Live(j), Policy(j), Running(j, "embed_policies")
  PROVE  Inserted(j) \subseteq ChunkRow /\ \A r \in Inserted(j) : r.run = job[j].run
<1>1. job[j] \in Job /\ job[j].plan \subseteq Docs
  BY LiveJob DEF Policy
<1>2. job[j].model \in Models /\ job[j].run \in 1 .. MaxRuns
  BY <1>1 DEF Job
<1>3. \A d \in job[j].plan :
        [doc |-> d, model |-> job[j].model, run |-> job[j].run] \in ChunkRow
  BY <1>1, <1>2 DEF ChunkRow
<1> QED BY <1>3 DEF Inserted

\* What the transactions have deleted stays there while they are open.
LEMMA DeletedStand ==
  ASSUME TypeOK, NEW j \in Jobs, Changed(j), chunks \subseteq chunks',
         Live(j)' => job'[j].deleted \subseteq chunks'
  PROVE  \A k \in Jobs : ~Running(k, "none")' => job'[k].deleted \subseteq chunks'
BY DEF TypeOK, Changed, Live, Running

LEMMA TypeStep ==
  ASSUME TypeOK, Plans, Apart, [Next]_vars
  PROVE  TypeOK'
<1>1. ASSUME NEW j \in Jobs, Die(j)
      PROVE  TypeOK'
  <2>1. Changed(j) /\ ~Live(j)'
    BY <1>1, Stopped DEF Die
  <2>2. \A k \in Jobs : ~Running(k, "none")' => job'[k].deleted \subseteq chunks'
    BY <1>1, <2>1, DeletedStand DEF Die
  <2> QED BY <1>1, <2>1, <2>2 DEF Die, TypeOK, Changed
<1>2. CASE \E vs \in SUBSET Vehicles : LoadVehicles(vs)
  BY <1>2 DEF LoadVehicles, TypeOK, Running
<1>3. CASE \E d \in Docs : EditCorpus(d)
  BY <1>3 DEF EditCorpus, TypeOK, Running
<1>4. ASSUME NEW j \in Jobs, NEW m \in Models, SelectPending(j, m) \/ ReadCorpus(j, m)
      PROVE  TypeOK'
  <2>3. /\ Changed(j) /\ runs' \in 1 .. MaxRuns /\ job'[j].deleted = {}
        /\ \A x \in overlaps' : x \in overlaps \/ \E k \in Jobs : Live(k) /\ x = {runs', job[k].run}
        /\ UNCHANGED <<loaded, embeddings, chunks, corpus, promised>>
    BY <1>4, Started
  <2>5. \A k \in Jobs : ~Running(k, "none")' => job'[k].deleted \subseteq chunks'
    BY <2>3, DeletedStand
  <2>6. overlaps' \subseteq SUBSET (1 .. MaxRuns)
    <3>1. ASSUME NEW k \in Jobs, Live(k) PROVE job[k].run \in 1 .. MaxRuns
      <4>1. job[k] \in Job
        BY <3>1, LiveJob
      <4> QED BY <4>1 DEF Job
    <3>2. ASSUME NEW x \in overlaps', NEW n \in x PROVE n \in 1 .. MaxRuns
      <4>1. CASE x \in overlaps
        BY <4>1, <3>2 DEF TypeOK
      <4>2. CASE \E k \in Jobs : Live(k) /\ x = {runs', job[k].run}
        BY <4>2, <3>2, <3>1, <2>3
      <4> QED BY <4>1, <4>2, <2>3
    <3> QED BY <3>2
  <2> QED BY <2>3, <2>5, <2>6 DEF TypeOK, Changed
<1>5. ASSUME NEW j \in Jobs, StoreBatch(j)
      PROVE  TypeOK'
  <2>1. PICK b \in Batches(job[j].todo) :
          /\ embeddings' = embeddings \cup
               {[vehicle |-> v, model |-> job[j].model, run |-> job[j].run] : v \in b}
          /\ Same(j) /\ Live(j) /\ job'[j].deleted = job[j].deleted
    BY <1>5, Batched
  <2>2. job[j] \in Job /\ job[j].todo \subseteq Vehicles
    BY <1>5, LiveJob DEF StoreBatch, Plans, Listing
  <2>3. b \subseteq Vehicles /\ job[j].model \in Models /\ job[j].run \in 1 .. MaxRuns
    BY <2>2 DEF Batches, Job
  <2>4. \A v \in b : [vehicle |-> v, model |-> job[j].model, run |-> job[j].run] \in Embedding
    BY <2>3 DEF Embedding
  <2>5. embeddings' \subseteq Embedding
    BY <2>1, <2>4 DEF TypeOK
  <2>6. UNCHANGED <<loaded, chunks, corpus, runs, overlaps, promised>>
    BY <1>5 DEF StoreBatch
  <2>7. job[j].deleted \subseteq chunks
    BY <2>1 DEF TypeOK, Live
  <2>8. \A k \in Jobs : ~Running(k, "none")' => job'[k].deleted \subseteq chunks'
    BY <2>1, <2>6, <2>7, DeletedStand DEF Same
  <2> QED BY <2>1, <2>5, <2>6, <2>8 DEF TypeOK, Same, Changed
<1>6. ASSUME NEW j \in Jobs, FinishListings(j)
      PROVE  TypeOK'
  <2>1. job[j] \in Job /\ job[j].plan \subseteq Vehicles
    BY <1>6, LiveJob DEF FinishListings, Plans, Listing
  <2>2. promised' \subseteq Vehicles \X Models
    BY <1>6, <2>1 DEF FinishListings, Job, TypeOK
  <2>3. Changed(j) /\ ~Live(j)'
    BY <1>6, Stopped DEF FinishListings
  <2>4. UNCHANGED <<loaded, embeddings, chunks, corpus, runs, overlaps>>
    BY <1>6 DEF FinishListings
  <2>5. \A k \in Jobs : ~Running(k, "none")' => job'[k].deleted \subseteq chunks'
    BY <2>3, <2>4, DeletedStand
  <2> QED BY <2>2, <2>3, <2>4, <2>5 DEF TypeOK, Changed
<1>7. ASSUME NEW j \in Jobs, StartDelete(j) \/ EndDelete(j)
      PROVE  TypeOK'
  <2>1. Same(j) /\ Live(j) /\ job'[j].deleted \subseteq job[j].deleted \cup chunks
    BY <1>7, DeleteStarted, DeleteEnded
  <2>2. UNCHANGED <<loaded, embeddings, chunks, corpus, runs, overlaps, promised>>
    BY <1>7 DEF StartDelete, EndDelete
  <2>3. job[j].deleted \subseteq chunks
    BY <2>1 DEF TypeOK, Live
  <2>4. \A k \in Jobs : ~Running(k, "none")' => job'[k].deleted \subseteq chunks'
    BY <2>1, <2>2, <2>3, DeletedStand DEF Same
  <2> QED BY <2>1, <2>2, <2>4 DEF TypeOK, Same, Changed
<1>8. ASSUME NEW j \in Jobs, FinishPolicies(j)
      PROVE  TypeOK'
  <2>1. Live(j) /\ Inserted(j) \subseteq ChunkRow
    BY <1>8, InsertedTyped, LiveJob DEF FinishPolicies, Plans
  <2>2. chunks' \subseteq ChunkRow
    BY <1>8, <2>1 DEF FinishPolicies, AfterCommit, TypeOK
  <2>3. Changed(j) /\ ~Live(j)'
    BY <1>8, Stopped DEF FinishPolicies
  <2>4. ASSUME NEW k \in Jobs, ~Running(k, "none")' PROVE job'[k].deleted \subseteq chunks'
    <3>1. k # j /\ job'[k] = job[k] /\ Live(k)
      BY <2>3, <2>4 DEF Running, Live, Changed
    <3>2. job[k].deleted \subseteq chunks /\ job[k].deleted \cap job[j].deleted = {}
      BY <2>1, <3>1 DEF TypeOK, Apart, Live
    <3> QED BY <1>8, <3>1, <3>2 DEF FinishPolicies, AfterCommit
  <2> QED BY <1>8, <2>2, <2>3, <2>4 DEF FinishPolicies, TypeOK, Changed
<1>9. CASE UNCHANGED vars
  BY <1>9 DEF vars, TypeOK, Running
<1> QED BY <1>1, <1>2, <1>3, <1>4, <1>5, <1>6, <1>7, <1>8, <1>9 DEF Next

-----------------------------------------------------------------------------
\* A step of a live script that adds only rows of its own run keeps the runs known.
LEMMA RunsSame ==
  ASSUME TypeOK, RunsKnown, NEW j \in Jobs, Changed(j), UNCHANGED <<runs, overlaps>>,
         Live(j)' => Live(j) /\ job'[j].run = job[j].run,
         \A r \in embeddings' \cup chunks' :
           r \in embeddings \cup chunks \/ (Live(j) /\ r.run = job[j].run)
  PROVE  RunsKnown'
<1>1. \A k \in Jobs : Live(k)' => Live(k) /\ job'[k].run = job[k].run
  BY DEF Changed, Live, Running
<1>2. \A k \in Jobs : Live(k)' => job'[k].run \in 1 .. runs
  BY <1>1 DEF RunsKnown
<1>3. \A r \in embeddings' \cup chunks' : r.run \in 1 .. runs
  BY DEF RunsKnown
<1>4. \A i \in Jobs : \A k \in Jobs \ {i} :
        Live(i)' /\ Live(k)' => {job'[i].run, job'[k].run} \in overlaps
  BY <1>1 DEF RunsKnown, Overlapped
<1> QED BY <1>2, <1>3, <1>4 DEF RunsKnown, Overlapped

LEMMA RunsStep ==
  ASSUME TypeOK, Plans, RunsKnown, [Next]_vars
  PROVE  RunsKnown'
<1>1. ASSUME NEW j \in Jobs, Die(j) \/ FinishListings(j)
      PROVE  RunsKnown'
  BY <1>1, Stopped, RunsSame DEF Die, FinishListings
<1>2. CASE (\E vs \in SUBSET Vehicles : LoadVehicles(vs)) \/ (\E d \in Docs : EditCorpus(d))
  BY <1>2 DEF LoadVehicles, EditCorpus, RunsKnown, Live, Running, Overlapped
<1>3. ASSUME NEW j \in Jobs, NEW m \in Models, SelectPending(j, m) \/ ReadCorpus(j, m)
      PROVE  RunsKnown'
  <2>1. /\ runs' = runs + 1 /\ Changed(j) /\ job'[j].run = runs'
        /\ overlaps \subseteq overlaps' /\ UNCHANGED <<embeddings, chunks>>
        /\ \A k \in Jobs : Live(k) => {runs', job[k].run} \in overlaps'
    BY <1>3, Started
  <2>2. runs \in Nat
    BY Bounds DEF TypeOK
  <2>3. \A k \in Jobs \ {j} : Live(k)' => Live(k) /\ job'[k].run = job[k].run
    BY <2>1 DEF Changed, Live, Running
  <2>4. \A k \in Jobs : Live(k)' => job'[k].run \in 1 .. runs'
    BY <2>1, <2>2, <2>3 DEF RunsKnown
  <2>5. \A r \in embeddings' \cup chunks' : r.run \in 1 .. runs'
    BY <2>1, <2>2 DEF RunsKnown
  <2>6. ASSUME NEW i \in Jobs, NEW k \in Jobs \ {i}, Live(i)', Live(k)'
        PROVE  {job'[i].run, job'[k].run} \in overlaps'
    <3>1. CASE i = j
      BY <3>1, <2>1, <2>3, <2>6
    <3>2. CASE k = j
      <4>1. {job'[k].run, job'[i].run} \in overlaps'
        BY <3>2, <2>1, <2>3, <2>6
      <4>2. {job'[k].run, job'[i].run} = {job'[i].run, job'[k].run}
        OBVIOUS
      <4> QED BY <4>1, <4>2
    <3>3. CASE i # j /\ k # j
      BY <3>3, <2>1, <2>3, <2>6 DEF RunsKnown, Overlapped
    <3> QED BY <3>1, <3>2, <3>3
  <2> QED BY <2>4, <2>5, <2>6 DEF RunsKnown, Overlapped
<1>4. ASSUME NEW j \in Jobs, StoreBatch(j)
      PROVE  RunsKnown'
  <2>1. PICK b \in Batches(job[j].todo) :
          /\ embeddings' = embeddings \cup
               {[vehicle |-> v, model |-> job[j].model, run |-> job[j].run] : v \in b}
          /\ Same(j) /\ Live(j)
    BY <1>4, Batched
  <2>2. \A e \in embeddings' : e \in embeddings \/ e.run = job[j].run
    BY <2>1
  <2> QED BY <1>4, <2>1, <2>2, RunsSame DEF StoreBatch, Same
<1>5. ASSUME NEW j \in Jobs, StartDelete(j) \/ EndDelete(j)
      PROVE  RunsKnown'
  <2>1. Same(j) /\ Live(j)
    BY <1>5, DeleteStarted, DeleteEnded
  <2> QED BY <1>5, <2>1, RunsSame DEF StartDelete, EndDelete, Same
<1>6. ASSUME NEW j \in Jobs, FinishPolicies(j)
      PROVE  RunsKnown'
  <2>1. Live(j) /\ \A r \in Inserted(j) : r.run = job[j].run
    BY <1>6, InsertedTyped, LiveJob DEF FinishPolicies, Plans
  <2>2. Changed(j) /\ ~Live(j)'
    BY <1>6, Stopped DEF FinishPolicies
  <2>3. \A r \in chunks' : r \in chunks \/ r.run = job[j].run
    BY <1>6, <2>1 DEF FinishPolicies, AfterCommit
  <2> QED BY <1>6, <2>1, <2>2, <2>3, RunsSame DEF FinishPolicies
<1>7. CASE UNCHANGED vars
  BY <1>7 DEF vars, RunsKnown, Live, Running, Overlapped
<1> QED BY <1>1, <1>2, <1>3, <1>4, <1>5, <1>6, <1>7 DEF Next

-----------------------------------------------------------------------------
\* A script is not disturbed by another one that adds rows: they overlap.
LEMMA Undisturbed ==
  ASSUME TypeOK, NEW k \in Jobs, Listing(k), Policy(k), job'[k] = job[k],
         overlaps \subseteq overlaps', embeddings \subseteq embeddings',
         Live(k) => \A r \in (embeddings' \ embeddings) \cup (chunks' \ chunks) :
                      {r.run, job[k].run} \in overlaps'
  PROVE  Listing(k)' /\ Policy(k)'
<1>1. \A s : Running(k, s)' <=> Running(k, s)
  BY DEF Running
<1>2. Running(k, "embed_listings") \/ Running(k, "embed_policies") => Live(k)
  BY LiveJob
<1>3. ASSUME Running(k, "embed_listings") PROVE Listing(k)'
  <2>1. \A e \in embeddings' :
          e.vehicle \in job[k].todo /\ e.model = job[k].model => {e.run, job[k].run} \in overlaps'
    BY <1>2, <1>3 DEF Listing, Overlapped
  <2> QED BY <1>3, <2>1 DEF Listing, Overlapped
<1>4. ASSUME Running(k, "embed_policies") PROVE Policy(k)'
  <2>1. \A r \in chunks' :
          r.model = job[k].model /\ r.doc \in job[k].plan \ job[k].todo =>
            r \in job[k].snap \cup job[k].deleted \/ {r.run, job[k].run} \in overlaps'
    BY <1>2, <1>4 DEF Policy, Overlapped
  <2> QED BY <1>4, <2>1 DEF Policy, Overlapped
<1> QED BY <1>1, <1>3, <1>4 DEF Listing, Policy

\* Then a step of one process keeps all plans if it keeps its own.
LEMMA OthersKept ==
  ASSUME TypeOK, RunsKnown, Plans, NEW j \in Jobs, Changed(j), UNCHANGED overlaps,
         embeddings \subseteq embeddings',
         \A r \in (embeddings' \ embeddings) \cup (chunks' \ chunks) : Live(j) /\ r.run = job[j].run,
         Listing(j)', Policy(j)'
  PROVE  Plans'
<1>1. ASSUME NEW k \in Jobs \ {j} PROVE Listing(k)' /\ Policy(k)'
  <2>1. job'[k] = job[k] /\ Listing(k) /\ Policy(k)
    BY DEF Changed, Plans
  <2>2. Live(k) => \A r \in (embeddings' \ embeddings) \cup (chunks' \ chunks) :
                     {r.run, job[k].run} \in overlaps'
    BY DEF RunsKnown, Overlapped
  <2> QED BY <2>1, <2>2, Undisturbed
<1> QED BY <1>1 DEF Plans

\* A script that has stopped has no plan left.
LEMMA StoppedKept ==
  ASSUME TypeOK, RunsKnown, Plans, NEW j \in Jobs, Stop(j), UNCHANGED <<overlaps, embeddings>>,
         \A r \in chunks' \ chunks : Live(j) /\ r.run = job[j].run
  PROVE  Plans'
<1>1. Changed(j) /\ job'[j] = Idle
  BY Stopped
<1>2. Listing(j)' /\ Policy(j)'
  BY <1>1 DEF Listing, Policy, Running, Idle
<1> QED BY <1>1, <1>2, OthersKept

LEMMA PlansStep ==
  ASSUME TypeOK, RunsKnown, Plans, [Next]_vars
  PROVE  Plans'
<1>1. ASSUME NEW j \in Jobs, Die(j) \/ FinishListings(j)
      PROVE  Plans'
  BY <1>1, StoppedKept DEF Die, FinishListings
<1>2. CASE (\E vs \in SUBSET Vehicles : LoadVehicles(vs)) \/ (\E d \in Docs : EditCorpus(d))
  BY <1>2 DEF LoadVehicles, EditCorpus, Plans, Listing, Policy, Running, Overlapped
<1>3. ASSUME NEW j \in Jobs, NEW m \in Models, SelectPending(j, m) \/ ReadCorpus(j, m)
      PROVE  Plans'
  <2>1. /\ Changed(j) /\ overlaps \subseteq overlaps' /\ UNCHANGED <<embeddings, chunks>>
        /\ job'[j].model = m /\ job'[j].snap = {} /\ job'[j].deleted = {}
        /\ \/ job'[j].script = "embed_listings" /\ job'[j].plan = loaded /\ job'[j].todo = Pending(m)
           \/ job'[j].script = "embed_policies" /\ job'[j].plan = corpus /\ job'[j].todo = corpus
    BY <1>3, Started
  <2>2. loaded \subseteq Vehicles /\ corpus \subseteq Docs
    BY DEF TypeOK
  <2>3. ASSUME NEW k \in Jobs \ {j} PROVE Listing(k)' /\ Policy(k)'
    <3>1. job'[k] = job[k] /\ Listing(k) /\ Policy(k)
      BY <2>1 DEF Changed, Plans
    <3> QED BY <2>1, <3>1, Undisturbed
  <2>4. Listing(j)'
    BY <2>1, <2>2 DEF Listing, Running, Pending
  <2>5. Policy(j)'
    BY <2>1, <2>2 DEF Policy, Running
  <2> QED BY <2>3, <2>4, <2>5 DEF Plans
<1>4. ASSUME NEW j \in Jobs, StoreBatch(j)
      PROVE  Plans'
  <2>1. PICK b \in Batches(job[j].todo) :
          /\ embeddings' = embeddings \cup
               {[vehicle |-> v, model |-> job[j].model, run |-> job[j].run] : v \in b}
          /\ Same(j) /\ Live(j)
          /\ job'[j].todo = job[j].todo \ b
          /\ job'[j].snap = job[j].snap /\ job'[j].deleted = job[j].deleted
    BY <1>4, Batched
  <2>2. Running(j, "embed_listings") /\ UNCHANGED <<chunks, overlaps>>
    BY <1>4 DEF StoreBatch
  <2> DEFINE row(v) == [vehicle |-> v, model |-> job[j].model, run |-> job[j].run]
  <2>9. \A v : row(v).vehicle = v /\ row(v).model = job[j].model /\ row(v).run = job[j].run
    OBVIOUS
  <2>10. embeddings' = embeddings \cup {row(v) : v \in b}
    BY <2>1
  <2> HIDE DEF row
  <2>3. \A e \in embeddings' : e \in embeddings \/ (e.vehicle \in b /\ e.run = job[j].run)
    BY <2>9, <2>10
  <2>4. \A v \in b : \E e \in embeddings' : e.vehicle = v /\ e.model = job[j].model
    BY <2>9, <2>10
  <2>5. Listing(j)'
    <3>1. Listing(j)
      BY DEF Plans
    <3> QED BY <3>1, <2>1, <2>2, <2>3, <2>4 DEF Listing, Running, Same, Overlapped
  <2>6. Policy(j)'
    BY <2>1, <2>2 DEF Policy, Running, Same
  <2> QED BY <2>1, <2>2, <2>3, <2>5, <2>6, OthersKept DEF Same
<1>5. ASSUME NEW j \in Jobs, StartDelete(j)
      PROVE  Plans'
  <2>1. PICK d \in NextDocs(job[j].todo) :
          /\ Same(j) /\ Live(j)
          /\ job'[j].todo = job[j].todo \ {d} /\ job'[j].stage = "deleting"
          /\ job'[j].snap = RowsOf(d, job[j].model) /\ job'[j].deleted = job[j].deleted
    BY <1>5, DeleteStarted
  <2>2. /\ Running(j, "embed_policies") /\ job[j].stage = "next"
        /\ UNCHANGED <<embeddings, chunks, overlaps>>
    BY <1>5 DEF StartDelete
  <2>3. d \in job[j].todo /\ \A e \in job[j].todo \ {d} : d < e
    <3>1. job[j].todo \subseteq Nat
      BY <2>2, Numbered DEF Plans, Policy
    <3> QED BY <3>1 DEF NextDocs
  <2>4. \A r \in job'[j].snap : r \in chunks /\ r.doc = d /\ r.model = job[j].model
    BY <2>1 DEF RowsOf
  <2>5. \A r \in chunks : r.doc = d /\ r.model = job[j].model => r \in job'[j].snap
    BY <2>1 DEF RowsOf
  <2>6. Policy(j) /\ job[j].snap = {}
    BY <2>2 DEF Plans, Policy
  <2>7. Policy(j)'
    <3>1. job'[j].plan \subseteq Docs /\ job'[j].todo \subseteq job'[j].plan
      BY <2>1, <2>2, <2>6 DEF Policy, Same
    <3>2. \A r \in job'[j].deleted \cup job'[j].snap :
            r.model = job'[j].model /\ r.doc \in job'[j].plan \ job'[j].todo
      BY <2>1, <2>2, <2>3, <2>4, <2>6 DEF Policy, Same
    <3>3. \A r \in chunks :
            r.model = job'[j].model /\ r.doc \in job'[j].plan \ job'[j].todo =>
              r \in job'[j].snap \cup job'[j].deleted \/ Overlapped(r.run, job'[j].run)
      BY <2>1, <2>2, <2>5, <2>6 DEF Policy, Same
    <3>4. \A r \in job'[j].deleted \cup job'[j].snap : \A e \in job'[j].todo : r.doc < e
      BY <2>1, <2>2, <2>3, <2>4, <2>6 DEF Policy
    <3>5. \A r \in job'[j].deleted : \A q \in job'[j].snap : r.doc < q.doc
      BY <2>1, <2>2, <2>3, <2>4, <2>6 DEF Policy
    <3>6. \A r \in job'[j].snap : \A q \in job'[j].snap : r.doc = q.doc
      BY <2>4
    <3> QED BY <2>1, <2>2, <3>1, <3>2, <3>3, <3>4, <3>5, <3>6 DEF Policy, Overlapped
  <2>8. Listing(j)'
    BY <2>1, <2>2 DEF Listing, Running, Same
  <2> QED BY <2>1, <2>2, <2>7, <2>8, OthersKept DEF Same
<1>6. ASSUME NEW j \in Jobs, EndDelete(j)
      PROVE  Plans'
  <2>1. /\ Same(j) /\ Live(j)
        /\ job'[j].todo = job[j].todo /\ job'[j].stage = "next" /\ job'[j].snap = {}
        /\ job'[j].deleted = job[j].deleted \cup (job[j].snap \cap chunks)
    BY <1>6, DeleteEnded
  <2>2. Running(j, "embed_policies") /\ UNCHANGED <<embeddings, chunks, overlaps>>
    BY <1>6 DEF EndDelete
  <2>3. Policy(j)
    BY DEF Plans
  <2>4. Policy(j)'
    BY <2>1, <2>2, <2>3 DEF Policy, Same, Running, Overlapped
  <2>5. Listing(j)'
    BY <2>1, <2>2 DEF Listing, Running, Same
  <2> QED BY <2>1, <2>2, <2>4, <2>5, OthersKept DEF Same
<1>7. ASSUME NEW j \in Jobs, FinishPolicies(j)
      PROVE  Plans'
  <2>1. Live(j) /\ \A r \in Inserted(j) : r.run = job[j].run
    BY <1>7, InsertedTyped, LiveJob DEF FinishPolicies, Plans
  <2>2. \A r \in chunks' : r \in chunks \/ r.run = job[j].run
    BY <1>7, <2>1 DEF FinishPolicies, AfterCommit
  <2> QED BY <1>7, <2>1, <2>2, StoppedKept DEF FinishPolicies
<1>8. CASE UNCHANGED vars
  BY <1>8 DEF vars, Plans, Listing, Policy, Running, Overlapped
<1> QED BY <1>1, <1>2, <1>3, <1>4, <1>5, <1>6, <1>7, <1>8 DEF Next

-----------------------------------------------------------------------------
\* A step that deletes nothing keeps the transactions apart.
LEMMA ApartSame ==
  ASSUME TypeOK, Apart, NEW j \in Jobs, Changed(j),
         Live(j)' => (Live(j) /\ job'[j].deleted \subseteq job[j].deleted) \/ job'[j].deleted = {}
  PROVE  Apart'
<1>1. \A k \in Jobs \ {j} : job'[k] = job[k] /\ (Live(k)' <=> Live(k))
  BY DEF Changed, Live, Running
<1>2. ASSUME NEW k \in Jobs \ {j}, Live(j)', Live(k)'
      PROVE  job'[j].deleted \cap job'[k].deleted = {}
  BY <1>1, <1>2 DEF Apart
<1>3. ASSUME NEW i \in Jobs \ {j}, NEW k \in Jobs \ {j, i}, Live(i)', Live(k)'
      PROVE  job'[i].deleted \cap job'[k].deleted = {}
  BY <1>1, <1>3 DEF Apart
<1> QED BY <1>2, <1>3 DEF Apart

LEMMA ApartStep ==
  ASSUME TypeOK, Plans, Apart, [Next]_vars
  PROVE  Apart'
<1>1. ASSUME NEW j \in Jobs, Die(j) \/ FinishListings(j) \/ FinishPolicies(j)
      PROVE  Apart'
  BY <1>1, Stopped, ApartSame DEF Die, FinishListings, FinishPolicies
<1>2. CASE (\E vs \in SUBSET Vehicles : LoadVehicles(vs)) \/ (\E d \in Docs : EditCorpus(d))
  BY <1>2 DEF LoadVehicles, EditCorpus, Apart, Live, Running
<1>3. ASSUME NEW j \in Jobs, NEW m \in Models, SelectPending(j, m) \/ ReadCorpus(j, m)
      PROVE  Apart'
  BY <1>3, Started, ApartSame
<1>4. ASSUME NEW j \in Jobs, StoreBatch(j)
      PROVE  Apart'
  BY <1>4, Batched, ApartSame DEF Same
<1>5. ASSUME NEW j \in Jobs, StartDelete(j)
      PROVE  Apart'
  BY <1>5, DeleteStarted, ApartSame DEF Same
<1>6. ASSUME NEW j \in Jobs, EndDelete(j)
      PROVE  Apart'
  <2>1. /\ Changed(j) /\ Live(j)
        /\ job'[j].deleted = job[j].deleted \cup (job[j].snap \cap chunks)
    BY <1>6, DeleteEnded DEF Same
  <2>2. \A k \in Jobs \ {j} : job'[k] = job[k] /\ (Live(k)' <=> Live(k))
    BY <2>1 DEF Changed, Live, Running
  <2>3. ASSUME NEW k \in Jobs \ {j}, Live(k) PROVE job[j].snap \cap job[k].deleted = {}
    <3>1. CASE Running(k, "embed_listings")
      BY <3>1 DEF Plans, Listing
    <3>2. CASE Running(k, "embed_policies")
      BY <1>6, <2>3, <3>2 DEF EndDelete, Waits
    <3> QED BY <2>3, <3>1, <3>2, LiveJob
  <2>4. ASSUME NEW k \in Jobs \ {j}, Live(k)
        PROVE  job'[j].deleted \cap job'[k].deleted = {}
    BY <2>1, <2>2, <2>3, <2>4 DEF Apart
  <2>5. ASSUME NEW i \in Jobs \ {j}, NEW k \in Jobs \ {j, i}, Live(i)', Live(k)'
        PROVE  job'[i].deleted \cap job'[k].deleted = {}
    BY <2>2, <2>5 DEF Apart
  <2>6. ASSUME NEW i \in Jobs, NEW k \in Jobs \ {i}, Live(i)', Live(k)'
        PROVE  job'[i].deleted \cap job'[k].deleted = {}
    <3>1. CASE i = j
      BY <3>1, <2>2, <2>4, <2>6
    <3>2. CASE k = j
      <4>1. job'[k].deleted \cap job'[i].deleted = {}
        BY <3>2, <2>2, <2>4, <2>6
      <4> QED BY <4>1
    <3>3. CASE i # j /\ k # j
      BY <3>3, <2>5, <2>6
    <3> QED BY <3>1, <3>2, <3>3
  <2> QED BY <2>6 DEF Apart
<1>7. CASE UNCHANGED vars
  BY <1>7 DEF vars, Apart, Live, Running
<1> QED BY <1>1, <1>2, <1>3, <1>4, <1>5, <1>6, <1>7 DEF Next

-----------------------------------------------------------------------------
\* A batch meets older vectors of its vehicles only from overlapping runs.
LEMMA OnceStep ==
  ASSUME TypeOK, Plans, EmbeddedOnce, [Next]_vars
  PROVE  EmbeddedOnce'
<1>1. ASSUME NEW j \in Jobs, NEW m \in Models, SelectPending(j, m) \/ ReadCorpus(j, m)
      PROVE  EmbeddedOnce'
  <2>1. overlaps \subseteq overlaps' /\ UNCHANGED embeddings
    BY <1>1, Started
  <2> QED BY <2>1 DEF EmbeddedOnce, Overlapped
<1>2. ASSUME NEW j \in Jobs, StoreBatch(j)
      PROVE  EmbeddedOnce'
  <2>1. PICK b \in Batches(job[j].todo) :
          embeddings' = embeddings \cup
            {[vehicle |-> v, model |-> job[j].model, run |-> job[j].run] : v \in b}
    BY <1>2, Batched
  <2> DEFINE row(v) == [vehicle |-> v, model |-> job[j].model, run |-> job[j].run]
  <2>2. \A v : row(v).vehicle = v /\ row(v).model = job[j].model /\ row(v).run = job[j].run
    OBVIOUS
  <2>3. embeddings' = embeddings \cup {row(v) : v \in b}
    BY <2>1
  <2> HIDE DEF row
  <2>4. b \subseteq job[j].todo /\ UNCHANGED overlaps
    BY <1>2 DEF Batches, StoreBatch
  <2>5. \A e \in embeddings : e.vehicle \in b /\ e.model = job[j].model => Overlapped(e.run, job[j].run)
    BY <1>2, <2>4 DEF StoreBatch, Plans, Listing
  <2>6. \A x, y : Overlapped(x, y) <=> Overlapped(y, x)
    <3>1. \A x, y : {x, y} = {y, x}
      OBVIOUS
    <3> QED BY <3>1 DEF Overlapped
  <2>7. ASSUME NEW e \in embeddings', NEW f \in embeddings', e # f, e.vehicle = f.vehicle, e.model = f.model
        PROVE  Overlapped(e.run, f.run)
    <3>1. CASE e \in embeddings /\ f \in embeddings
      BY <3>1, <2>7 DEF EmbeddedOnce
    <3>2. CASE e \in embeddings /\ \E v \in b : f = row(v)
      BY <3>2, <2>2, <2>5, <2>7
    <3>3. CASE f \in embeddings /\ \E v \in b : e = row(v)
      BY <3>3, <2>2, <2>5, <2>6, <2>7
    <3>4. CASE (\E v \in b : e = row(v)) /\ (\E v \in b : f = row(v))
      BY <3>4, <2>2, <2>7
    <3> QED BY <2>3, <3>1, <3>2, <3>3, <3>4
  <2> QED BY <2>4, <2>7 DEF EmbeddedOnce, Overlapped
<1>3. ASSUME NEW j \in Jobs,
             Die(j) \/ FinishListings(j) \/ StartDelete(j) \/ EndDelete(j) \/ FinishPolicies(j)
      PROVE  EmbeddedOnce'
  BY <1>3 DEF Die, FinishListings, StartDelete, EndDelete, FinishPolicies, EmbeddedOnce, Overlapped
<1>4. CASE (\E vs \in SUBSET Vehicles : LoadVehicles(vs)) \/ (\E d \in Docs : EditCorpus(d)) \/ UNCHANGED vars
  BY <1>4 DEF LoadVehicles, EditCorpus, vars, EmbeddedOnce, Overlapped
<1> QED BY <1>1, <1>2, <1>3, <1>4 DEF Next

\* A commit leaves older rows of its documents only from overlapping runs.
LEMMA IngestionStep ==
  ASSUME TypeOK, Plans, OneIngestion, [Next]_vars
  PROVE  OneIngestion'
<1>1. ASSUME NEW j \in Jobs, NEW m \in Models, SelectPending(j, m) \/ ReadCorpus(j, m)
      PROVE  OneIngestion'
  <2>1. overlaps \subseteq overlaps' /\ UNCHANGED chunks
    BY <1>1, Started
  <2> QED BY <2>1 DEF OneIngestion, Overlapped
<1>2. ASSUME NEW j \in Jobs, FinishPolicies(j)
      PROVE  OneIngestion'
  <2> DEFINE row(d) == [doc |-> d, model |-> job[j].model, run |-> job[j].run]
  <2>1. \A d : row(d).doc = d /\ row(d).model = job[j].model /\ row(d).run = job[j].run
    OBVIOUS
  <2>2. chunks' = (chunks \ job[j].deleted) \cup {row(d) : d \in job[j].plan}
    BY <1>2 DEF FinishPolicies, AfterCommit, Inserted
  <2> HIDE DEF row
  <2>3. \A r \in chunks \ job[j].deleted :
          r.doc \in job[j].plan /\ r.model = job[j].model => Overlapped(r.run, job[j].run)
    BY <1>2 DEF FinishPolicies, Plans, Policy
  <2>4. \A x, y : Overlapped(x, y) <=> Overlapped(y, x)
    <3>1. \A x, y : {x, y} = {y, x}
      OBVIOUS
    <3> QED BY <3>1 DEF Overlapped
  <2>5. ASSUME NEW r \in chunks', NEW q \in chunks', r # q, r.doc = q.doc, r.model = q.model
        PROVE  Overlapped(r.run, q.run)
    <3>1. CASE r \in chunks /\ q \in chunks
      BY <3>1, <2>5 DEF OneIngestion
    <3>2. CASE r \in chunks \ job[j].deleted /\ \E d \in job[j].plan : q = row(d)
      BY <3>2, <2>1, <2>3, <2>5
    <3>3. CASE q \in chunks \ job[j].deleted /\ \E d \in job[j].plan : r = row(d)
      BY <3>3, <2>1, <2>3, <2>4, <2>5
    <3>4. CASE (\E d \in job[j].plan : r = row(d)) /\ (\E d \in job[j].plan : q = row(d))
      BY <3>4, <2>1, <2>5
    <3> QED BY <2>2, <3>1, <3>2, <3>3, <3>4
  <2>6. UNCHANGED overlaps
    BY <1>2 DEF FinishPolicies
  <2> QED BY <2>5, <2>6 DEF OneIngestion, Overlapped
<1>3. ASSUME NEW j \in Jobs,
             Die(j) \/ FinishListings(j) \/ StoreBatch(j) \/ StartDelete(j) \/ EndDelete(j)
      PROVE  OneIngestion'
  BY <1>3 DEF Die, FinishListings, StoreBatch, StartDelete, EndDelete, OneIngestion, Overlapped
<1>4. CASE (\E vs \in SUBSET Vehicles : LoadVehicles(vs)) \/ (\E d \in Docs : EditCorpus(d)) \/ UNCHANGED vars
  BY <1>4 DEF LoadVehicles, EditCorpus, vars, OneIngestion, Overlapped
<1> QED BY <1>1, <1>2, <1>3, <1>4 DEF Next

LEMMA GapsStep ==
  ASSUME TypeOK, Plans, NoGaps, [Next]_vars
  PROVE  NoGaps'
<1>1. ASSUME NEW j \in Jobs, FinishListings(j)
      PROVE  NoGaps'
  <2>1. \A v \in job[j].plan : \E e \in embeddings : e.vehicle = v /\ e.model = job[j].model
    BY <1>1 DEF FinishListings, Plans, Listing
  <2>2. promised' = promised \cup (job[j].plan \X {job[j].model}) /\ UNCHANGED embeddings
    BY <1>1 DEF FinishListings
  <2> QED BY <2>1, <2>2 DEF NoGaps
<1>2. ASSUME NEW j \in Jobs, NEW m \in Models, SelectPending(j, m) \/ ReadCorpus(j, m)
      PROVE  NoGaps'
  BY <1>2 DEF SelectPending, ReadCorpus, NoGaps
<1>3. ASSUME NEW j \in Jobs, StoreBatch(j)
      PROVE  NoGaps'
  <2>1. embeddings \subseteq embeddings' /\ UNCHANGED promised
    BY <1>3 DEF StoreBatch
  <2> QED BY <2>1 DEF NoGaps
<1>4. ASSUME NEW j \in Jobs, Die(j) \/ StartDelete(j) \/ EndDelete(j) \/ FinishPolicies(j)
      PROVE  NoGaps'
  BY <1>4 DEF Die, StartDelete, EndDelete, FinishPolicies, NoGaps
<1>5. CASE (\E vs \in SUBSET Vehicles : LoadVehicles(vs)) \/ (\E d \in Docs : EditCorpus(d)) \/ UNCHANGED vars
  BY <1>5 DEF LoadVehicles, EditCorpus, vars, NoGaps
<1> QED BY <1>1, <1>2, <1>3, <1>4, <1>5 DEF Next

-----------------------------------------------------------------------------
LEMMA Invariant == Spec => []IInv
<1>1. Init => IInv
  <2>1. Init => RunsKnown /\ Plans /\ Apart
    BY DEF Init, RunsKnown, Plans, Listing, Policy, Apart, Live, Running, Idle
  <2>2. Init => EmbeddedOnce /\ OneIngestion /\ NoGaps
    BY DEF Init, EmbeddedOnce, OneIngestion, NoGaps
  <2> QED BY <2>1, <2>2, TypeInit DEF IInv
<1>2. IInv /\ [Next]_vars => IInv'
  BY TypeStep, RunsStep, PlansStep, ApartStep, OnceStep, IngestionStep, GapsStep DEF IInv
<1> QED BY <1>1, <1>2, PTL DEF Spec

\* The pipelines' state is well typed: no two open transactions delete one row.
THEOREM PipelinesTyped == Spec => []TypeOK
<1>1. IInv => TypeOK
  BY DEF IInv
<1> QED BY <1>1, Invariant, PTL

\* Two vectors of one model are the work of runs that were alive together.
THEOREM VehiclesEmbeddedOnce == Spec => []EmbeddedOnce
<1>1. IInv => EmbeddedOnce
  BY DEF IInv
<1> QED BY <1>1, Invariant, PTL

\* A document has chunks of two ingestions only if they were alive together.
THEOREM DocumentsReplacedWhole == Spec => []OneIngestion
<1>1. IInv => OneIngestion
  BY DEF IInv
<1> QED BY <1>1, Invariant, PTL

\* A run that ended has left no gap.
THEOREM FinishedMeansEmbedded == Spec => []NoGaps
<1>1. IInv => NoGaps
  BY DEF IInv
<1> QED BY <1>1, Invariant, PTL

\* A document that can be found stays so while it is replaced: the commit that
\* takes its rows away brings new ones.
LEMMA EmptiedStep ==
  ASSUME TypeOK, Plans, [Next]_vars, NEW d \in Docs, NEW m \in Models, RowsOf(d, m) # {}
  PROVE  RowsOf(d, m)' # {}
<1>1. PICK r \in chunks : r.doc = d /\ r.model = m
  BY DEF RowsOf
<1>2. CASE chunks \subseteq chunks'
  BY <1>1, <1>2 DEF RowsOf
<1>3. ASSUME NEW j \in Jobs, FinishPolicies(j)
      PROVE  RowsOf(d, m)' # {}
  <2> DEFINE row(e) == [doc |-> e, model |-> job[j].model, run |-> job[j].run]
  <2>1. \A e : row(e).doc = e /\ row(e).model = job[j].model
    OBVIOUS
  <2>2. chunks' = (chunks \ job[j].deleted) \cup {row(e) : e \in job[j].plan}
    BY <1>3 DEF FinishPolicies, AfterCommit, Inserted
  <2> HIDE DEF row
  <2>3. CASE r \in job[j].deleted
    <3>1. r.model = job[j].model /\ r.doc \in job[j].plan
      BY <1>3, <2>3 DEF FinishPolicies, Plans, Policy
    <3>2. row(d) \in chunks' /\ row(d).doc = d /\ row(d).model = m
      BY <1>1, <2>1, <2>2, <3>1
    <3> QED BY <3>2 DEF RowsOf
  <2>4. CASE r \notin job[j].deleted
    BY <1>1, <2>2, <2>4 DEF RowsOf
  <2> QED BY <2>3, <2>4
<1>4. CASE \E j \in Jobs : Die(j) \/ FinishListings(j) \/ StoreBatch(j) \/ StartDelete(j) \/ EndDelete(j)
  BY <1>2, <1>4 DEF Die, FinishListings, StoreBatch, StartDelete, EndDelete
<1>5. CASE \E j \in Jobs : \E n \in Models : SelectPending(j, n) \/ ReadCorpus(j, n)
  BY <1>2, <1>5 DEF SelectPending, ReadCorpus
<1>6. CASE (\E vs \in SUBSET Vehicles : LoadVehicles(vs)) \/ (\E e \in Docs : EditCorpus(e)) \/ UNCHANGED vars
  BY <1>2, <1>6 DEF LoadVehicles, EditCorpus, vars
<1> QED BY <1>3, <1>4, <1>5, <1>6 DEF Next

\* No commit leaves a document without rows that had some.
THEOREM NeverGoneForSearch == Spec => NeverEmptied
<1>1. IInv /\ [Next]_vars => [\A d \in Docs : \A m \in Models : RowsOf(d, m) # {} => RowsOf(d, m)' # {}]_vars
  BY EmptiedStep DEF IInv
<1> QED BY <1>1, Invariant, PTL DEF Spec, NeverEmptied

\* In a cycle of waits, the process at the latest document would wait for one at
\* a later document still: what it waits for was deleted before that one's next.
LEMMA NoCycle ==
  ASSUME IInv, NEW n \in Nat, Docs \subseteq 0 .. n
  PROVE  NoLockCycle
<1> SUFFICES ASSUME NEW S \in SUBSET Jobs, S # {}, \A j \in S : \E k \in S : Waits(j, k)
             PROVE  FALSE
  BY DEF NoLockCycle
<1>1. \A j \in S : Policy(j) /\ Running(j, "embed_policies") /\ job[j].snap # {}
  BY DEF Waits, IInv, Plans
<1> DEFINE Behind == {i \in 0 .. n : \E j \in S : \E r \in job[j].snap : r.doc = n - i}
<1>2. \A j \in S : \A r \in job[j].snap : r.doc \in 0 .. n
  BY <1>1 DEF Policy
<1>3. \A j \in S : \A r \in job[j].snap : n - r.doc \in Behind
  BY <1>2
<1>4. Behind # {}
  BY <1>1, <1>3
<1>5. Behind \subseteq Nat
  OBVIOUS
<1>6. PICK i \in Behind : \A k \in Behind : ~(<<k, i>> \in OpToRel(<, Nat))
  BY <1>4, <1>5, NatLessThanWellFounded, WFMin
<1>7. PICK j \in S : \E r \in job[j].snap : r.doc = n - i
  BY <1>6
<1>8. PICK r \in job[j].snap : r.doc = n - i
  BY <1>7
<1>9. PICK k \in S : Waits(j, k)
  OBVIOUS
<1>10. PICK q \in job[j].snap : q \in job[k].deleted
  BY <1>9 DEF Waits
<1>11. q.doc = r.doc
  BY <1>1, <1>10 DEF Policy
<1>12. PICK p \in job[k].snap : TRUE
  BY <1>1
<1>13. q.doc < p.doc
  BY <1>1, <1>10 DEF Policy
<1>14. n - p.doc \in Behind /\ p.doc \in 0 .. n
  BY <1>2, <1>3
<1>15. n - p.doc \in Nat /\ i \in Nat /\ n - p.doc < i
  BY <1>5, <1>8, <1>11, <1>13, <1>14
<1>16. \A x \in Nat : \A y \in Nat : x < y => <<x, y>> \in OpToRel(<, Nat)
  BY DEF OpToRel
<1> HIDE DEF Behind
<1> QED BY <1>6, <1>14, <1>15, <1>16

\* Ingestions never wait for each other in a cycle, however many there are.
THEOREM DeletesNeverDeadlock ==
  ASSUME NEW n \in Nat, Docs \subseteq 0 .. n
  PROVE  Spec => []NoLockCycle
<1>1. IInv => NoLockCycle
  BY NoCycle
<1> QED BY <1>1, Invariant, PTL
=============================================================================
