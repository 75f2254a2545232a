------------------------------ MODULE PolicySearch ------------------------------
(* From the policy documents to what the model reads of them: embed_policies  *)
(* replaces the chunks of the documents it parses, search_policy_docs ranks   *)
(* a pool of candidates, compact_tool_result makes an observation of at most  *)
(* so many characters. A text is known by its similarity to the query and its *)
(* length. Concurrent ingestions are EmbedPipeline's; here one is a step.     *)
EXTENDS Integers, Sequences, FiniteSets, SequencesExt

CONSTANTS
  Slugs,
  SupersededSlugs,   \* file names that contain "superseded"
  Contents,          \* what a document may say: sequences of sections, each a text or Blank
  Blank,             \* a section with a heading and nothing under it
  Similarity, Size,  \* of each text
  Multiplier, MinPool,           \* CANDIDATE_POOL_MULTIPLIER, MIN_CANDIDATE_POOL
  Limits,            \* values of limit the model may ask for, 0 and less included
  MaxChars, MinExcerpt,          \* loop_observation_max_chars, the 100 of the chunk budget
  HeadSize, TagSize, MarkerSize  \* of a title with its heading, " [SUPERSEDED]", "...[truncated]"

ASSUME Parameters == /\ SupersededSlugs \subseteq Slugs /\ Limits \subseteq Int
                     /\ {Multiplier, MinPool, MaxChars, MinExcerpt} \subseteq Nat \ {0}
                     /\ {HeadSize, TagSize, MarkerSize} \subseteq Nat

\* What a section may say. A similarity is a number, and only its order matters.
Texts == (UNION {Range(c) : c \in Contents}) \ {Blank}
ASSUME Documents == /\ IsFiniteSet(Slugs) /\ \A c \in Contents : c \in Seq(Range(c))
                    /\ \A t \in Texts : Similarity[t] \in Int /\ Size[t] \in Nat

VARIABLES
  directory,   \* data/policies: the sections of each document, Absent without a file
  table,       \* policy_chunks of the model in use
  ingested     \* history: the directory of the last ingestion

vars == <<directory, table, ingested>>

Absent == << >>   \* or an empty file

\* parse_document: a chunk per section that is not blank, numbered with the blanks.
Parse(slug, content) ==
  {[slug |-> slug, index |-> i, text |-> content[i], superseded |-> slug \in SupersededSlugs] :
     i \in {i \in DOMAIN content : content[i] # Blank}}

Chunks(dir) == UNION {Parse(s, dir[s]) : s \in Slugs}

Init == /\ directory = [s \in Slugs |-> Absent]
        /\ table = {}
        /\ ingested = directory

\* Somebody adds, rewrites or removes a file; a rename is two such steps.
Write(s) == /\ \E c \in Contents \cup {Absent} : directory' = [directory EXCEPT ![s] = c]
            /\ UNCHANGED <<table, ingested>>

\* store_chunks deletes by the names it has chunks of, so a document that is
\* gone, or has no text left, keeps its old chunks.
Deleted_SameSections(chunks) ==
  {c \in table : \E d \in chunks : d.slug = c.slug /\ d.index = c.index}
Deleted(chunks) == {c \in table : \E d \in chunks : d.slug = c.slug}
Ingest ==
  /\ table' = (table \ Deleted(Chunks(directory))) \cup Chunks(directory)
  /\ ingested' = directory
  /\ UNCHANGED directory

Next ==
  \/ \E s \in Slugs : Write(s)
  \/ Ingest

Spec == Init /\ [][Next]_vars

-----------------------------------------------------------------------------
\* search_policy_docs.
Sim(c) == Similarity[c.text]
PoolSize(limit) == IF limit * Multiplier > MinPool THEN limit * Multiplier ELSE MinPool

\* ORDER BY similarity LIMIT n: any choice among chunks that tie at the cut. The
\* scan is taken to be exact. With the HNSW index on the embeddings it is when the
\* planner sorts the whole table; a scan of the index may miss near chunks and
\* return fewer than n.
Nearest(n) ==
  {pool \in SUBSET table :
     /\ Cardinality(pool) = IF Cardinality(table) < n THEN Cardinality(table) ELSE n
     /\ \A c \in pool : \A d \in table \ pool : Sim(c) >= Sim(d)}

\* The sort key. Chunks that tie come as the database had them: in any order.
Before(c, d) ==
  IF c.superseded # d.superseded THEN d.superseded ELSE Sim(c) > Sim(d)
Rankings(pool) ==
  {r \in SetToSeqs(pool) : \A i, k \in DOMAIN r : i < k => ~Before(r[k], r[i])}

\* Python's [:limit], which counts from the end when limit is negative.
Sliced(seq, limit) ==
  LET n == IF limit < 0 THEN Len(seq) + limit ELSE limit
  IN SubSeq(seq, 1, IF n < Len(seq) THEN n ELSE Len(seq))

Results_CutFirst(limit) == UNION {Rankings(pool) : pool \in Nearest(IF limit < 0 THEN 0 ELSE limit)}
Results(limit) ==
  {Sliced(r, limit) : r \in UNION {Rankings(pool) : pool \in Nearest(PoolSize(limit))}}

-----------------------------------------------------------------------------
\* compact_tool_result: a line per chunk, its title and heading, the tag of a
\* superseded one, and an excerpt with a marker when it was cut.
TagLen(c) == IF c.superseded THEN TagSize ELSE 0
TextLen(c, budget) == IF Size[c.text] > budget THEN budget ELSE Size[c.text]
Excerpt(c, budget) == TextLen(c, budget) + IF Size[c.text] > budget THEN MarkerSize ELSE 0

\* Where on its line a chunk has its tag and its text, and how long the line is.
Line_TagLast(c, budget) ==
  [tag |-> HeadSize + Excerpt(c, budget), text |-> HeadSize,
   size |-> HeadSize + TagLen(c) + Excerpt(c, budget) + 1]
Line(c, budget) ==
  [tag |-> HeadSize, text |-> HeadSize + TagLen(c),
   size |-> HeadSize + TagLen(c) + Excerpt(c, budget) + 1]

ChunkBudget(n) == IF MaxChars \div n > MinExcerpt THEN MaxChars \div n ELSE MinExcerpt
LineOf(result, i) == Line(result[i], ChunkBudget(Len(result)))

\* Where each line starts; the last has no newline.
Starts(result) ==
  LET start[i \in 1 .. Len(result) + 1] ==
        IF i = 1 THEN 0 ELSE start[i - 1] + LineOf(result, i - 1).size
  IN start
BodySize(result) == IF result = << >> THEN 0 ELSE Starts(result)[Len(result) + 1] - 1

\* What is left of a piece of the body when that is cut at max_chars.
Shown(at, size) ==
  IF MaxChars <= at THEN 0 ELSE IF size < MaxChars - at THEN size ELSE MaxChars - at
TagShown(result, i) == Shown(Starts(result)[i] + LineOf(result, i).tag, TagLen(result[i]))
TextShown(result, i) ==
  Shown(Starts(result)[i] + LineOf(result, i).text, TextLen(result[i], ChunkBudget(Len(result))))
Seen(result) == IF BodySize(result) > MaxChars THEN MaxChars + MarkerSize ELSE BodySize(result)

-----------------------------------------------------------------------------
\* After an ingestion the table holds the documents that have text as they are,
\* none of their former sections; only a document that was removed, or emptied,
\* may still be found as it was.
NoFormerSection ==
  \A s \in Slugs : Parse(s, ingested[s]) # {} =>
    {c \in table : c.slug = s} = Parse(s, ingested[s])

\* With no more superseded chunks than the pool has room for beyond the limit, no
\* current chunk is left out for a superseded or a less similar one.
CurrentNotCrowdedOut ==
  \A limit \in {l \in Limits : l > 0} :
    Cardinality({c \in table : c.superseded}) <= PoolSize(limit) - limit =>
      \A result \in Results(limit) : \A c \in table \ Range(result) :
        /\ Len(result) = limit
        /\ ~c.superseded => \A d \in Range(result) : ~d.superseded /\ Sim(d) >= Sim(c)

\* The model never reads a superseded text without its tag, nor before the whole
\* excerpt of a current one, and reads at most the ceiling and one marker.
SupersededIsLabelled ==
  \A limit \in Limits : \A result \in Results(limit) :
    /\ Seen(result) <= MaxChars + MarkerSize
    /\ \A i \in DOMAIN result : result[i].superseded /\ TextShown(result, i) > 0 =>
         /\ TagShown(result, i) = TagSize
         /\ \A k \in DOMAIN result : ~result[k].superseded =>
              TextShown(result, k) = TextLen(result[k], ChunkBudget(Len(result)))
=============================================================================
