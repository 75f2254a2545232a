---------------------------- MODULE RetrievalProofs ----------------------------
(* What the two search tools may rely on. Policies: an ingestion leaves no    *)
(* former section of a document that still has text, and a search with room   *)
(* in its pool leaves no current chunk out for a superseded or a less similar *)
(* one. Vehicles: deduplication leaves one of each, a load is whole or absent *)
(* and no price sentinel is shown. For any documents, listings, edits, runs   *)
(* and deaths.                                                                *)
EXTENDS PolicySearch, Catalog, FiniteSetTheorems, WellFoundedInduction, TLAPS

\* The chunks of a whole directory that have a name are the chunks of its file.
LEMMA ChunksOf ==
  ASSUME NEW dir, NEW s \in Slugs
  PROVE  {c \in Chunks(dir) : c.slug = s} = Parse(s, dir[s])
<1>1. \A t \in Slugs : \A c \in Parse(t, dir[t]) : c.slug = t
  BY DEF Parse
<1> QED BY <1>1 DEF Chunks

\* Every chunk deleted before the insertion goes by name, so of a document with
\* text nothing is kept but what was just inserted.
LEMMA IngestReplaces ==
  ASSUME Ingest, NEW s \in Slugs, Parse(s, directory[s]) # {}
  PROVE  {c \in table' : c.slug = s} = Parse(s, directory[s])
<1>1. PICK d \in Chunks(directory) : d.slug = s
  BY ChunksOf
<1>2. {c \in table \ Deleted(Chunks(directory)) : c.slug = s} = {}
  BY <1>1 DEF Deleted
<1>3. table' = (table \ Deleted(Chunks(directory))) \cup Chunks(directory)
  BY DEF Ingest
<1> QED BY <1>2, <1>3, ChunksOf

\* embed_policies leaves exactly the current sections of every document that has
\* any in the directory it read, until the next ingestion.
THEOREM FormerSectionsGone == Spec => []NoFormerSection
<1>1. Init => NoFormerSection
  BY DEF Init, NoFormerSection, Parse, Absent
<1>2. NoFormerSection /\ [Next]_vars => NoFormerSection'
  <2> SUFFICES ASSUME NoFormerSection, [Next]_vars PROVE NoFormerSection'
    OBVIOUS
  <2>1. ASSUME NEW s \in Slugs, Write(s) PROVE NoFormerSection'
    BY <2>1 DEF Write, NoFormerSection
  <2>2. CASE Ingest
    <3>1. ingested' = directory
      BY <2>2 DEF Ingest
    <3> QED BY <2>2, <3>1, IngestReplaces DEF NoFormerSection
  <2>3. CASE UNCHANGED vars
    BY <2>3 DEF vars, NoFormerSection
  <2> QED BY <2>1, <2>2, <2>3 DEF Next
<1> QED BY <1>1, <1>2, PTL DEF Spec
-----------------------------------------------------------------------------
\* The table is finite, and its chunks are of texts that have a similarity and a size.
Sound(c) == c.superseded \in BOOLEAN /\ Sim(c) \in Int /\ Size[c.text] \in Nat
TableSound ==
  /\ directory \in [Slugs -> Contents \cup {Absent}]
  /\ IsFiniteSet(table)
  /\ \A c \in table : Sound(c)

\* The values of a function on a finite set, no more than its arguments.
LEMMA FewValues ==
  ASSUME NEW S, IsFiniteSet(S), NEW f
  PROVE  IsFiniteSet({f[x] : x \in S}) /\ Cardinality({f[x] : x \in S}) <= Cardinality(S)
<1> DEFINE T == {f[x] : x \in S}
           g == [x \in S |-> f[x]]
<1>1. g \in Surjection(S, T) BY DEF Surjection
<1> QED BY <1>1, FS_Surjection

\* A document has finitely many chunks, each with a similarity.
LEMMA ParseFinite ==
  ASSUME NEW s \in Slugs, NEW content \in Contents \cup {Absent}
  PROVE  /\ IsFiniteSet(Parse(s, content))
         /\ \A c \in Parse(s, content) : Sound(c)
<1>1. PICK n \in Nat : DOMAIN content = 1 .. n
  <2>1. CASE content = Absent
    <3>1. DOMAIN content = 1 .. 0 BY <2>1 DEF Absent
    <3> QED BY <3>1
  <2>2. CASE content \in Contents
    <3>1. content \in Seq(Range(content)) BY <2>2, Documents
    <3> QED BY <3>1
  <2> QED BY <2>1, <2>2
<1> DEFINE I == {i \in DOMAIN content : content[i] # Blank}
           f == [i \in I |-> [slug |-> s, index |-> i, text |-> content[i],
                              superseded |-> s \in SupersededSlugs]]
<1>2. IsFiniteSet(I)
  <2>1. IsFiniteSet(1 .. n) BY FS_Interval
  <2>2. I \in SUBSET (1 .. n) BY <1>1
  <2> QED BY <2>1, <2>2, FS_Subset
<1>3. Parse(s, content) = {f[i] : i \in I} BY DEF Parse
<1>4. IsFiniteSet(Parse(s, content))
  <2> HIDE DEF I, f
  <2> QED BY <1>2, <1>3, FewValues
<1>5. ASSUME NEW i \in I PROVE Similarity[content[i]] \in Int /\ Size[content[i]] \in Nat
  <2>1. content \in Contents BY <1>5 DEF Absent
  <2>2. content[i] \in Range(content) BY <1>5 DEF Range
  <2>3. content[i] \in Texts BY <1>5, <2>1, <2>2 DEF Texts
  <2> QED BY <2>3, Documents
<1>6. ASSUME NEW c \in Parse(s, content)
      PROVE  Sound(c)
  <2>1. PICK i \in I : c = [slug |-> s, index |-> i, text |-> content[i],
                           superseded |-> s \in SupersededSlugs]
    BY DEF Parse
  <2>2. c.text = content[i] /\ c.superseded = (s \in SupersededSlugs) BY <2>1
  <2>3. Similarity[content[i]] \in Int /\ Size[content[i]] \in Nat BY <1>5
  <2> QED BY <2>2, <2>3 DEF Sim, Sound
<1> QED BY <1>4, <1>6

LEMMA ChunksFinite ==
  ASSUME NEW dir \in [Slugs -> Contents \cup {Absent}]
  PROVE  IsFiniteSet(Chunks(dir)) /\ \A c \in Chunks(dir) : Sound(c)
<1> DEFINE f == [s \in Slugs |-> Parse(s, dir[s])]
<1>1. {Parse(s, dir[s]) : s \in Slugs} = {f[s] : s \in Slugs} OBVIOUS
<1>2. IsFiniteSet({f[s] : s \in Slugs})
  <2> HIDE DEF f
  <2> QED BY Documents, FewValues
<1>3. \A s \in Slugs : /\ IsFiniteSet(Parse(s, dir[s]))
                       /\ \A c \in Parse(s, dir[s]) : Sound(c)
  BY ParseFinite
<1>4. IsFiniteSet(Chunks(dir))
  <2>1. \A P \in {Parse(s, dir[s]) : s \in Slugs} : IsFiniteSet(P) BY <1>3
  <2> QED BY <1>1, <1>2, <2>1, FS_UNION DEF Chunks
<1> QED BY <1>3, <1>4 DEF Chunks

LEMMA SoundThroughout == Spec => []TableSound
<1>1. Init => TableSound BY FS_EmptySet DEF Init, TableSound
<1>2. ASSUME TableSound, [Next]_vars PROVE TableSound'
  <2>1. CASE \E s \in Slugs : Write(s)
    <3>1. PICK s \in Slugs, c \in Contents \cup {Absent} : directory' = [directory EXCEPT ![s] = c]
      BY <2>1 DEF Write
    <3>2. UNCHANGED table BY <2>1 DEF Write
    <3> QED BY <1>2, <3>1, <3>2 DEF TableSound, Sound, Sim
  <2>2. CASE Ingest
    <3>1. IsFiniteSet(Chunks(directory)) /\ \A c \in Chunks(directory) : Sound(c)
      BY <1>2, ChunksFinite DEF TableSound
    <3>2. IsFiniteSet(table \ Deleted(Chunks(directory))) BY <1>2, FS_Difference DEF TableSound
    <3>3. table' = (table \ Deleted(Chunks(directory))) \cup Chunks(directory) /\ directory' = directory
      BY <2>2 DEF Ingest
    <3>4. IsFiniteSet(table') BY <3>1, <3>2, <3>3, FS_Union
    <3> QED BY <1>2, <3>1, <3>3, <3>4 DEF TableSound, Sound, Sim
  <2>3. CASE UNCHANGED vars BY <1>2, <2>3 DEF vars, TableSound, Sound, Sim
  <2> QED BY <1>2, <2>1, <2>2, <2>3 DEF Next
<1> QED BY <1>1, <1>2, PTL DEF Spec
-----------------------------------------------------------------------------
\* A ranking is the whole pool, each chunk once, none before one it must follow.
LEMMA RankingIs ==
  ASSUME NEW pool, IsFiniteSet(pool), NEW r \in Rankings(pool)
  PROVE  /\ Cardinality(pool) \in Nat
         /\ r \in [1 .. Cardinality(pool) -> pool]
         /\ \A c \in pool : \E i \in 1 .. Cardinality(pool) : r[i] = c
         /\ \A i, k \in 1 .. Cardinality(pool) : r[i] = r[k] => i = k
         /\ \A i, k \in 1 .. Cardinality(pool) : i < k => ~Before(r[k], r[i])
<1>1. Cardinality(pool) \in Nat BY FS_CardinalityType
<1>2. /\ r \in [1 .. Cardinality(pool) -> pool]
      /\ \A i, k \in 1 .. Cardinality(pool) : i # k => r[i] # r[k]
  BY DEF Rankings, SetToSeqs
<1>3. r \in Injection(1 .. Cardinality(pool), pool) BY <1>2 DEF Injection, IsInjective
<1>4. Cardinality(1 .. Cardinality(pool)) = Cardinality(pool) BY <1>1, FS_Interval
<1>5. r \in Surjection(1 .. Cardinality(pool), pool) BY <1>3, <1>4, FS_Injection
<1>6. \A c \in pool : \E i \in 1 .. Cardinality(pool) : r[i] = c BY <1>5 DEF Surjection
<1>7. \A i, k \in DOMAIN r : i < k => ~Before(r[k], r[i]) BY DEF Rankings
<1> QED BY <1>1, <1>2, <1>6, <1>7

\* The first m of a ranking.
FirstOf(s, r, m) == Len(s) = m /\ \A x : x \in Range(s) <=> \E i \in 1 .. m : r[i] = x

\* A search that asks for something gets the head of the ranking.
LEMMA Cut ==
  ASSUME NEW pool, NEW N \in Nat, NEW r \in [1 .. N -> pool], NEW limit \in Int, limit > 0,
         NEW m, m = IF limit < N THEN limit ELSE N
  PROVE  FirstOf(Sliced(r, limit), r, m)
<1>1. r \in Seq(pool) /\ Len(r) = N OBVIOUS
<1>2. m \in Nat /\ m <= N OBVIOUS
<1>3. Sliced(r, limit) = SubSeq(r, 1, m) BY <1>1 DEF Sliced
<1>4. SubSeq(r, 1, m) = [i \in 1 .. m |-> r[i]] BY <1>1, <1>2
<1>5. PICK s : s = [i \in 1 .. m |-> r[i]] OBVIOUS
<1>6. s \in Seq(pool) /\ Len(s) = m /\ DOMAIN s = 1 .. m BY <1>2, <1>5
<1>7. \A x : x \in Range(s) <=> \E i \in 1 .. m : r[i] = x BY <1>5, <1>6 DEF Range
<1> QED BY <1>3, <1>4, <1>5, <1>6, <1>7 DEF FirstOf

\* The pool is no smaller than what was asked for.
LEMMA PoolHolds ==
  ASSUME NEW limit \in Int, limit > 0
  PROVE  PoolSize(limit) \in Nat /\ PoolSize(limit) >= limit
<1>1. Multiplier \in Nat /\ Multiplier >= 1 /\ MinPool \in Nat BY Parameters
<1>2. limit * Multiplier \in Int /\ limit * Multiplier >= limit BY <1>1
<1> QED BY <1>1, <1>2 DEF PoolSize
\* A chunk left out when the superseded ones fit in the pool beyond the limit: if
\* the pool has it, it ranks after every result; if not, the pool is full, holds
\* as many current chunks as were asked for, and all of them are as similar.
LEMMA LeftOut ==
  ASSUME TableSound, NEW limit \in Int, limit > 0,
         Cardinality({d \in table : d.superseded}) <= PoolSize(limit) - limit,
         NEW pool \in Nearest(PoolSize(limit)), NEW r \in Rankings(pool),
         NEW c \in table \ Range(Sliced(r, limit))
  PROVE  /\ Len(Sliced(r, limit)) = limit
         /\ ~c.superseded => \A d \in Range(Sliced(r, limit)) :
              /\ ~d.superseded
              /\ Sim(d) >= Sim(c)
<1>1. PICK n \in Nat : n = PoolSize(limit) /\ n >= limit BY PoolHolds
<1>2. PICK S : S = {d \in table : d.superseded} OBVIOUS
<1>3. Cardinality(S) <= n - limit BY <1>1, <1>2
<1>4. /\ pool \in SUBSET table
      /\ Cardinality(pool) = IF Cardinality(table) < n THEN Cardinality(table) ELSE n
      /\ \A x \in pool : \A y \in table \ pool : Sim(x) >= Sim(y)
  BY <1>1 DEF Nearest
<1>5. IsFiniteSet(table) /\ IsFiniteSet(pool) /\ Cardinality(table) \in Nat
  BY <1>4, FS_Subset, FS_CardinalityType DEF TableSound
<1>6. Cardinality(pool) = Cardinality(table) => pool = table BY <1>4, <1>5, FS_Subset
<1>7. PICK N \in Nat : N = Cardinality(pool) BY <1>5, FS_CardinalityType
<1>8. /\ r \in [1 .. N -> pool]
      /\ \A x \in pool : \E i \in 1 .. N : r[i] = x
      /\ \A i, k \in 1 .. N : i < k => ~Before(r[k], r[i])
  BY <1>5, <1>7, RankingIs
<1>9. PICK m : m = IF limit < N THEN limit ELSE N OBVIOUS
<1>10. /\ Len(Sliced(r, limit)) = m
       /\ \A x : x \in Range(Sliced(r, limit)) <=> \E i \in 1 .. m : r[i] = x
  <2>1. r \in [1 .. N -> pool] BY <1>8
  <2>2. FirstOf(Sliced(r, limit), r, m) BY <1>9, <2>1, Cut
  <2> QED BY <2>2 DEF FirstOf
<1>11. m = limit /\ limit <= N
  <2> SUFFICES ASSUME N < limit PROVE FALSE BY <1>7, <1>9
  <2>1. m = N BY <1>9
  <2>2. pool = table BY <1>1, <1>4, <1>5, <1>6, <1>7
  <2>3. PICK i \in 1 .. N : r[i] = c BY <1>8, <2>2
  <2>4. c \in Range(Sliced(r, limit)) BY <1>10, <2>1, <2>3
  <2> QED BY <2>4
<1>12. ASSUME ~c.superseded, NEW i \in 1 .. limit
       PROVE  ~r[i].superseded /\ Sim(r[i]) >= Sim(c)
  <2>1. i \in 1 .. N /\ r[i] \in pool /\ r[i] \in table BY <1>4, <1>8, <1>11
  <2>2. /\ c.superseded \in BOOLEAN /\ r[i].superseded \in BOOLEAN
        /\ Sim(c) \in Int /\ Sim(r[i]) \in Int
    BY <2>1 DEF TableSound, Sound
  <2>3. CASE c \in pool
    <3>1. PICK k \in 1 .. N : r[k] = c BY <1>8, <2>3
    <3>2. ~(k \in 1 .. limit) BY <1>10, <1>11, <3>1
    <3>3. i < k BY <3>2, <1>11
    <3>4. ~Before(c, r[i]) BY <1>8, <2>1, <3>1, <3>3
    <3> QED BY <1>12, <2>2, <3>4 DEF Before
  <2>4. CASE c \notin pool
    <3>1. N = n BY <1>4, <1>6, <1>7, <2>4
    <3>2. Sim(r[i]) >= Sim(c) BY <1>4, <2>1, <2>4
    <3>3. ASSUME r[i].superseded PROVE FALSE
      <4>1. ASSUME NEW e \in pool \ S PROVE \E j \in 1 .. i - 1 : r[j] = e
        <5>1. PICK j \in 1 .. N : r[j] = e BY <1>8
        <5>2. ~e.superseded BY <1>2, <1>4
        <5>3. j # i BY <3>3, <5>1, <5>2
        <5>4. Before(e, r[i]) BY <3>3, <5>2 DEF Before
        <5>5. ~(i < j) BY <1>8, <2>1, <5>1, <5>4
        <5> QED BY <5>1, <5>3, <5>5
      <4>2. IsFiniteSet(1 .. i - 1) /\ Cardinality(1 .. i - 1) = i - 1 BY FS_Interval
      <4>3. PICK F : F = {r[j] : j \in 1 .. i - 1} OBVIOUS
      <4>4. IsFiniteSet(F) /\ Cardinality(F) <= i - 1 BY <4>2, <4>3, FewValues
      <4>5. Cardinality(pool \ S) <= Cardinality(F)
        <5>1. pool \ S \in SUBSET F BY <4>1, <4>3
        <5> QED BY <4>4, <5>1, FS_Subset
      <4>6. Cardinality(pool \ S) = N - Cardinality(pool \cap S)
        BY <1>5, <1>7, FS_Difference
      <4>7. IsFiniteSet(S) BY <1>2, <1>5, FS_Subset
      <4>8. Cardinality(pool \cap S) <= Cardinality(S) BY <4>7, FS_Subset
      <4>9. Cardinality(pool \cap S) \in Nat /\ Cardinality(F) \in Nat /\ Cardinality(S) \in Nat
        BY <1>5, <4>4, <4>7, FS_Subset, FS_CardinalityType
      <4> QED BY <1>3, <3>1, <4>4, <4>5, <4>6, <4>8, <4>9
    <3> QED BY <2>2, <3>2, <3>3
  <2> QED BY <2>3, <2>4
<1> QED BY <1>10, <1>11, <1>12

\* After any sequence of edits and ingestions, a search whose pool has room for the
\* superseded chunks beyond its limit fills the limit before it leaves a chunk out,
\* and answers nothing superseded, nor less similar, in place of a current one.
THEOREM CurrentComesFirst == Spec => []CurrentNotCrowdedOut
<1>1. TableSound => CurrentNotCrowdedOut
  <2> SUFFICES ASSUME TableSound, NEW limit \in Limits, limit > 0,
                      Cardinality({d \in table : d.superseded}) <= PoolSize(limit) - limit,
                      NEW result \in Results(limit), NEW c \in table \ Range(result)
               PROVE  /\ Len(result) = limit
                      /\ ~c.superseded => \A d \in Range(result) :
                           /\ ~d.superseded
                           /\ Sim(d) >= Sim(c)
    BY DEF CurrentNotCrowdedOut
  <2>1. limit \in Int BY Parameters
  <2>2. PICK pool \in Nearest(PoolSize(limit)) : \E r \in Rankings(pool) : result = Sliced(r, limit)
    BY DEF Results
  <2>3. PICK r \in Rankings(pool) : result = Sliced(r, limit) BY <2>2
  <2> QED BY <2>1, <2>2, <2>3, LeftOut
<1> QED BY <1>1, SoundThroughout, PTL
-----------------------------------------------------------------------------
\* A set of numbers that has a member has a least one.
LEMMA LeastOne ==
  ASSUME NEW T \in SUBSET Nat, T # {}
  PROVE  \E x \in T : \A y \in T : ~(y < x)
<1>1. \E x \in T : \A y \in T : ~(<<y, x>> \in OpToRel(<, Nat))
  BY NatLessThanWellFounded, WFMin
<1>2. PICK x \in T : \A y \in T : ~(<<y, x>> \in OpToRel(<, Nat)) BY <1>1
<1>3. \A y \in T : y < x => <<y, x>> \in OpToRel(<, Nat) BY DEF OpToRel
<1> QED BY <1>2, <1>3
-----------------------------------------------------------------------------
\* One turn of the deduplication's loop, and the loop up to some row.
Judged(rows, n, kept) ==
  IF n \notin rows \/ \E k \in kept : Twins(n, k) THEN kept ELSE kept \cup {n}
Loop(rows, f, m) ==
  /\ DOMAIN f = 0 .. m /\ f[0] = {}
  /\ \A n \in 1 .. m : f[n] = Judged(rows, n, f[n - 1])

\* What the loop has to deliver for the rows up to n.
Deduped(rows, kept, n) ==
  /\ kept \subseteq rows \cap (1 .. n)
  /\ \A i \in (rows \cap (1 .. n)) \ kept : \E k \in kept : k < i /\ Twins(i, k)
  /\ \A i \in kept : \A k \in kept : k < i => ~Twins(i, k)

\* The loop can be run as far as one likes.
LEMMA LoopRuns == \A rows : \A m \in Nat : \E f : Loop(rows, f, m)
<1> SUFFICES ASSUME NEW rows PROVE \A m \in Nat : \E f : Loop(rows, f, m) OBVIOUS
<1>1. PICK T : T = {m \in Nat : ~\E f : Loop(rows, f, m)} OBVIOUS
<1> SUFFICES ASSUME T # {} PROVE FALSE BY <1>1
<1>2. T \in SUBSET Nat BY <1>1
<1>3. PICK m \in T : \A y \in T : ~(y < m) BY <1>2, LeastOne
<1>4. m \in Nat /\ ~\E f : Loop(rows, f, m) BY <1>1, <1>3
<1>5. CASE m = 0
  <2>1. PICK f : f = [n \in 0 .. 0 |-> {}] OBVIOUS
  <2>2. Loop(rows, f, 0) BY <2>1 DEF Loop
  <2> QED BY <1>4, <1>5, <2>2
<1>6. CASE m # 0
  <2>1. m - 1 \in Nat /\ m - 1 < m /\ ~(m - 1 \in T) BY <1>3, <1>4, <1>6
  <2>2. PICK f : Loop(rows, f, m - 1) BY <1>1, <2>1
  <2>3. PICK g : g = [n \in 0 .. m |-> IF n = m THEN Judged(rows, m, f[m - 1]) ELSE f[n]] OBVIOUS
  <2>4. DOMAIN g = 0 .. m /\ g[0] = {} BY <1>4, <1>6, <2>2, <2>3 DEF Loop
  <2>5. ASSUME NEW n \in 1 .. m PROVE g[n] = Judged(rows, n, g[n - 1])
    <3>1. n - 1 \in 0 .. m /\ n - 1 # m /\ n \in 0 .. m BY <1>4
    <3>2. g[n - 1] = f[n - 1] BY <2>3, <3>1
    <3>3. CASE n = m BY <2>3, <3>1, <3>2, <3>3
    <3>4. CASE n # m
      <4>1. n \in 1 .. m - 1 BY <1>4, <3>4
      <4>2. f[n] = Judged(rows, n, f[n - 1]) BY <2>2, <4>1 DEF Loop
      <4>3. g[n] = f[n] BY <2>3, <3>1, <3>4
      <4> QED BY <3>2, <4>2, <4>3
    <3> QED BY <3>3, <3>4
  <2>6. Loop(rows, g, m) BY <2>4, <2>5 DEF Loop
  <2> QED BY <1>4, <2>6
<1> QED BY <1>5, <1>6

\* The dedup of the model is where that loop ends.
LEMMA KeptIsLoop ==
  ASSUME NEW rows
  PROVE  Len(Listings) \in Nat /\ \E f : Loop(rows, f, Len(Listings)) /\ Kept(rows) = f[Len(Listings)]
<1>1. PICK N : N = Len(Listings) OBVIOUS
<1>2. N \in Nat BY <1>1, Positive
<1>3. PICK f : Loop(rows, f, N) BY <1>2, LoopRuns
<1> DEFINE Unfold(g) == [n \in 0 .. N |->
        IF n = 0 THEN {}
        ELSE IF n \notin rows \/ \E k \in g[n - 1] : Twins(n, k) THEN g[n - 1]
        ELSE g[n - 1] \cup {n}]
<1>4. ASSUME NEW g, g = Unfold(g) PROVE Loop(rows, g, N)
  <2>1. DOMAIN g = 0 .. N BY <1>4
  <2>2. g[0] = {}
    <3>1. 0 \in 0 .. N BY <1>2
    <3>2. Unfold(g)[0] = {} BY <3>1
    <3> QED BY <1>4, <3>2
  <2>3. ASSUME NEW n \in 1 .. N PROVE g[n] = Judged(rows, n, g[n - 1])
    <3>1. n \in 0 .. N /\ n # 0 BY <1>2
    <3>2. Unfold(g)[n] = Judged(rows, n, g[n - 1]) BY <3>1 DEF Judged
    <3> QED BY <1>4, <3>2
  <2> QED BY <2>1, <2>2, <2>3 DEF Loop
<1>5. \E g : g = Unfold(g)
  <2>1. PICK g : g = [n \in 0 .. N |-> f[n]] OBVIOUS
  <2>2. ASSUME NEW n \in 0 .. N PROVE g[n] = Unfold(g)[n]
    <3>1. CASE n = 0 BY <1>3, <2>1, <3>1 DEF Loop
    <3>2. CASE n # 0
      <4>1. n \in 1 .. N /\ n - 1 \in 0 .. N BY <1>2, <3>2
      <4>2. g[n] = f[n] /\ g[n - 1] = f[n - 1] BY <2>1, <4>1
      <4>3. g[n] = Judged(rows, n, g[n - 1]) BY <1>3, <4>1, <4>2 DEF Loop
      <4> QED BY <3>2, <4>3 DEF Judged
    <3> QED BY <3>1, <3>2
  <2>3. g = Unfold(g) BY <2>1, <2>2
  <2> QED BY <2>3
<1>6. Kept(rows) = (CHOOSE g : g = Unfold(g))[N] BY <1>1 DEF Kept
<1>7. PICK g : g = (CHOOSE h : h = Unfold(h)) OBVIOUS
<1>8. g = Unfold(g)
  <2> HIDE DEF Unfold
  <2> QED BY <1>5, <1>7
<1>9. Loop(rows, g, N) BY <1>4, <1>8
<1>10. Kept(rows) = g[N] BY <1>6, <1>7
<1> QED BY <1>1, <1>2, <1>9, <1>10
\* One turn of the loop keeps what it has to deliver.
LEMMA JudgedRight ==
  ASSUME NEW rows, NEW n \in Nat \ {0}, NEW kept, Deduped(rows, kept, n - 1)
  PROVE  Deduped(rows, Judged(rows, n, kept), n)
<1>1. kept \subseteq rows \cap (1 .. n - 1) BY DEF Deduped
<1>2. \A i : i \in 1 .. n <=> i \in 1 .. n - 1 \/ i = n OBVIOUS
<1>3. CASE n \notin rows
  <2>1. Judged(rows, n, kept) = kept BY <1>3 DEF Judged
  <2>2. rows \cap (1 .. n) = rows \cap (1 .. n - 1) BY <1>2, <1>3
  <2> QED BY <2>1, <2>2 DEF Deduped
<1>4. CASE n \in rows /\ \E k \in kept : Twins(n, k)
  <2>1. Judged(rows, n, kept) = kept BY <1>4 DEF Judged
  <2>2. PICK k \in kept : Twins(n, k) BY <1>4
  <2>3. k < n BY <1>1
  <2>4. (rows \cap (1 .. n)) \ kept \subseteq ((rows \cap (1 .. n - 1)) \ kept) \cup {n} BY <1>2
  <2> QED BY <1>1, <1>2, <2>1, <2>2, <2>3, <2>4 DEF Deduped
<1>5. CASE n \in rows /\ ~\E k \in kept : Twins(n, k)
  <2>1. PICK new : new = kept \cup {n} OBVIOUS
  <2>2. Judged(rows, n, kept) = new BY <1>5, <2>1 DEF Judged
  <2>3. new \subseteq rows \cap (1 .. n) BY <1>1, <1>2, <1>5, <2>1
  <2>4. ASSUME NEW i \in (rows \cap (1 .. n)) \ new PROVE \E k \in new : k < i /\ Twins(i, k)
    <3>1. i \in (rows \cap (1 .. n - 1)) \ kept BY <1>2, <2>1, <2>4
    <3> QED BY <2>1, <3>1 DEF Deduped
  <2>5. ASSUME NEW i \in new, NEW k \in new, k < i PROVE ~Twins(i, k)
    <3>1. CASE i = n
      <4>1. k \in kept BY <2>1, <2>5, <3>1, <2>3
      <4> QED BY <1>5, <3>1, <4>1
    <3>2. CASE i # n
      <4>1. i \in kept /\ i \in 1 .. n - 1 BY <1>1, <2>1, <3>2
      <4>2. k \in kept
        <5>1. k # n BY <4>1, <2>5
        <5> QED BY <2>1, <5>1
      <4> QED BY <2>5, <4>1, <4>2 DEF Deduped
    <3> QED BY <3>1, <3>2
  <2> QED BY <2>2, <2>3, <2>4, <2>5 DEF Deduped
<1> QED BY <1>3, <1>4, <1>5

\* So it delivers it at its end.
LEMMA LoopDedups ==
  ASSUME NEW rows, NEW N \in Nat, NEW f, Loop(rows, f, N)
  PROVE  Deduped(rows, f[N], N)
<1>1. PICK T : T = {n \in 0 .. N : ~Deduped(rows, f[n], n)} OBVIOUS
<1> SUFFICES ASSUME T # {} PROVE FALSE BY <1>1
<1>2. T \in SUBSET Nat BY <1>1
<1>3. PICK n \in T : \A y \in T : ~(y < n) BY <1>2, LeastOne
<1>4. n \in 0 .. N /\ ~Deduped(rows, f[n], n) BY <1>1, <1>3
<1>5. CASE n = 0
  <2>1. f[0] = {} BY DEF Loop
  <2>2. rows \cap (1 .. 0) = {} OBVIOUS
  <2>3. Deduped(rows, f[0], 0) BY <2>1, <2>2 DEF Deduped
  <2> QED BY <1>4, <1>5, <2>3
<1>6. CASE n # 0
  <2>1. n \in 1 .. N /\ n - 1 \in 0 .. N /\ n - 1 < n /\ n \in Nat \ {0} BY <1>4, <1>6
  <2>2. Deduped(rows, f[n - 1], n - 1) BY <1>1, <1>3, <2>1
  <2>3. f[n] = Judged(rows, n, f[n - 1]) BY <2>1 DEF Loop
  <2>4. Deduped(rows, f[n], n) BY <2>1, <2>2, <2>3, JudgedRight
  <2> QED BY <1>4, <2>4
<1> QED BY <1>5, <1>6

\* The rows find_near_duplicates leaves, whatever the similarity relates.
LEMMA KeptRight == \A rows : Deduped(rows, Kept(rows), Len(Listings)) /\ Kept(rows) \subseteq rows
<1> SUFFICES ASSUME NEW rows PROVE Deduped(rows, Kept(rows), Len(Listings)) /\ Kept(rows) \subseteq rows
  OBVIOUS
<1>1. Len(Listings) \in Nat BY Positive
<1>2. PICK f : Loop(rows, f, Len(Listings)) /\ Kept(rows) = f[Len(Listings)] BY KeptIsLoop
<1>3. Deduped(rows, Kept(rows), Len(Listings)) BY <1>1, <1>2, LoopDedups
<1> QED BY <1>3 DEF Deduped

\* Of a set of near-duplicates exactly one survives every cleaning: each row left
\* out has a twin before it that is kept, and no two rows kept are twins.
THEOREM DuplicatesLeaveOne == CatalogSpec => []OneOfEachKept
<1>1. CatalogInit => OneOfEachKept
  <2> SUFFICES ASSUME CatalogInit PROVE OneOfEachKept OBVIOUS
  <2>1. DOMAIN cleaned = {} /\ raw = {} BY DEF CatalogInit
  <2> QED BY <2>1 DEF OneOfEachKept
<1>2. ASSUME OneOfEachKept, [CatalogNext]_catalogVars PROVE OneOfEachKept'
  <2>1. CASE Clean
    <3>1. PICK rows : rows = RawRows(files) OBVIOUS
    <3>2. raw' = rows /\ DOMAIN cleaned' = Kept(rows) BY <2>1, <3>1 DEF Clean, CleanRows
    <3>3. rows \cap (1 .. Len(Listings)) = rows BY <3>1, Positive DEF RawRows, Rows
    <3>4. Deduped(rows, Kept(rows), Len(Listings)) BY KeptRight
    <3> QED BY <3>2, <3>3, <3>4 DEF Deduped, OneOfEachKept
  <2>2. CASE UNCHANGED <<cleaned, raw>> BY <1>2, <2>2 DEF OneOfEachKept
  <2> QED BY <1>2, <2>1, <2>2 DEF CatalogNext, catalogVars, Download, StartLoad, UpsertChunk,
          CommitLoad, AbandonLoad, AddFlag, DropFlag, Embed, Seed, history
<1> QED BY <1>1, <1>2, PTL DEF CatalogSpec
-----------------------------------------------------------------------------
\* A row whose flag says its price can be trusted has no sentinel in it.
Honest(row) == row.reliable => 0 \notin {row.price, row.low, row.high}
\* A row of the table, or about to be, under the reference r.
RowOf(row, r) == Columns \subseteq DOMAIN row /\ row.ref = r
Keyed(rows) == \A r \in DOMAIN rows : RowOf(rows[r], r)

AllRefs == {Listings[i].ref : i \in Rows}

DataSound ==
  \A i \in DOMAIN cleaned : /\ cleaned[i].ref \in AllRefs
                            /\ RowOf(cleaned[i], cleaned[i].ref)
                            /\ Honest(cleaned[i])
VehiclesSound ==
  /\ Keyed(vehicles)
  /\ flag => \A r \in DOMAIN vehicles \ defaulted : Honest(vehicles[r])

\* The rows of the open load that its transaction has written already.
Sent == Refs(DOMAIN cleaned \ tx.left)

\* A load in progress: its table is the committed one with the rows it has sent
\* written over, and it is the last of the loads.
LoadOpen ==
  /\ tx = [on |-> TRUE, table |-> tx.table, left |-> tx.left]
  /\ tx.left \subseteq DOMAIN cleaned
  /\ Keyed(tx.table)
  /\ DOMAIN tx.table = DOMAIN vehicles \cup Sent
  /\ flag \/ tx.left # {}
  /\ flag => \A r \in DOMAIN tx.table : r \in Sent \/ r \notin defaulted => Honest(tx.table[r])
  /\ Len(loads) > 0 /\ loads[Len(loads)] = Refs(DOMAIN cleaned)
Loading == tx = Idle \/ LoadOpen

\* Who wrote what.
Written ==
  /\ loads \in Seq(SUBSET AllRefs)
  /\ DOMAIN writer = DOMAIN vehicles
  /\ \A r \in DOMAIN writer : writer[r] \in 0 .. Len(loads)

IInv == DataSound /\ VehiclesSound /\ Loading /\ Written /\ LoadedWhole

\* compute_price flags the sentinel, and nothing else that has a zero.
LEMMA CleanRowHonest ==
  ASSUME NEW i \in Rows, NEW boilerplate
  PROVE  LET row == CleanRow(Listings[i], boilerplate) IN
           row.ref = Listings[i].ref /\ RowOf(row, row.ref) /\ Honest(row)
<1>1. PICK row : row = CleanRow(Listings[i], boilerplate) OBVIOUS
<1>2. PICK low, high : low = Listings[i].low /\ high = Listings[i].high OBVIOUS
<1>3. {low, high} \subseteq Nat \cup {-1} /\ (low = 0 <=> high = 0) BY <1>2, Valuations DEF None
<1>4. /\ row.ref = Listings[i].ref /\ Columns \subseteq DOMAIN row
      /\ row.price = Price(low, high) /\ row.low = low /\ row.high = high
      /\ row.reliable = Reliable(low, high)
  BY <1>1, <1>2 DEF CleanRow, Columns
<1>5. Reliable(low, high) => 0 \notin {Price(low, high), low, high}
  BY <1>3 DEF Reliable, Price, None
<1>6. RowOf(row, row.ref) /\ Honest(row) BY <1>4, <1>5 DEF RowOf, Honest
<1> QED BY <1>1, <1>4, <1>6

\* Of the rows of a file with one reference there is a last one.
LEMMA LastRow ==
  ASSUME NEW f, NEW r, \E i \in RawRows({f}) : Listings[i].ref = r
  PROVE  Latest(f, r) \in RawRows({f}) /\ Listings[Latest(f, r)].ref = r
<1>1. PICK N \in Nat : Rows = 1 .. N BY Positive DEF Rows
<1>2. PICK S : S = {i \in RawRows({f}) : Listings[i].ref = r} OBVIOUS
<1>3. S # {} /\ \A i \in S : i \in 1 .. N BY <1>1, <1>2 DEF RawRows
<1>4. PICK T : T = {n \in Nat : N - n \in S} OBVIOUS
<1>5. T # {}
  <2>1. PICK i \in S : i \in 1 .. N BY <1>3
  <2>2. N - i \in Nat /\ N - (N - i) = i BY <2>1
  <2> QED BY <1>4, <2>1, <2>2
<1>6. PICK n \in T : \A m \in T : ~(m < n)
  <2>1. T \in SUBSET Nat BY <1>4
  <2> QED BY <1>5, <2>1, LeastOne
<1>7. N - n \in S /\ n \in Nat BY <1>4, <1>6
<1>8. ASSUME NEW k \in S PROVE k <= N - n
  <2>1. k \in 1 .. N /\ N - k \in Nat /\ N - (N - k) = k BY <1>3, <1>8
  <2>2. N - k \in T BY <1>4, <1>8, <2>1
  <2> QED BY <1>6, <1>7, <2>1, <2>2
<1>9. \E i \in RawRows({f}) :
        Listings[i].ref = r /\ \A k \in RawRows({f}) : Listings[k].ref = r => k <= i
  BY <1>2, <1>7, <1>8
<1> QED BY <1>9 DEF Latest

LEMMA InitSound == CatalogInit => IInv
<1> SUFFICES ASSUME CatalogInit PROVE IInv OBVIOUS
<1>1. DataSound BY DEF CatalogInit, DataSound
<1>2. Keyed(vehicles)
  <2>1. CASE vehicles = << >> BY <2>1 DEF Keyed
  <2>2. CASE \E f \in Files : vehicles = OldTable(f)
    <3>1. PICK f \in Files : vehicles = OldTable(f) BY <2>2
    <3>2. ASSUME NEW r \in DOMAIN vehicles PROVE RowOf(vehicles[r], r)
      <4>1. \E i \in RawRows({f}) : Listings[i].ref = r BY <3>1 DEF OldTable
      <4>2. PICK k : k = Latest(f, r) OBVIOUS
      <4>3. k \in RawRows({f}) /\ Listings[k].ref = r BY <4>1, <4>2, LastRow
      <4>4. vehicles[r] = OldRow(Listings[k]) BY <3>1, <4>2 DEF OldTable
      <4>5. PICK row : row = CleanRow(Listings[k], {}) OBVIOUS
      <4>6. row.ref = r /\ Columns \subseteq DOMAIN row BY <4>3, <4>5 DEF CleanRow, Columns
      <4>7. vehicles[r] = [row EXCEPT !.reliable = TRUE] BY <4>4, <4>5 DEF OldRow
      <4> QED BY <4>6, <4>7 DEF RowOf, Columns
    <3> QED BY <3>2 DEF Keyed
  <2> QED BY <2>1, <2>2 DEF CatalogInit
<1>3. VehiclesSound BY <1>2 DEF CatalogInit, VehiclesSound
<1>4. Loading BY DEF CatalogInit, Loading
<1>5. Written
  <2>1. loads \in Seq(SUBSET AllRefs) /\ Len(loads) = 0 BY DEF CatalogInit
  <2>2. DOMAIN writer = DOMAIN vehicles /\ \A r \in DOMAIN writer : writer[r] = 0 BY DEF CatalogInit
  <2> QED BY <2>1, <2>2 DEF Written
<1>6. LoadedWhole BY DEF CatalogInit, LoadedWhole
<1> QED BY <1>1, <1>3, <1>4, <1>5, <1>6 DEF IInv
\* A new data set, between two loads.
LEMMA CleanStep == IInv /\ Clean => IInv'
<1> SUFFICES ASSUME IInv, Clean PROVE IInv' OBVIOUS
<1>1. UNCHANGED <<flag, vehicles, tx, writer, loads, defaulted>> BY DEF Clean
<1>2. PICK rows : rows = RawRows(files) OBVIOUS
<1>3. PICK kept, marks : kept = Kept(rows) /\ marks = Boilerplate(kept) OBVIOUS
<1>4. cleaned' = [i \in kept |-> CleanRow(Listings[i], marks)]
  BY <1>2, <1>3 DEF Clean, CleanRows
<1>5. kept \subseteq Rows BY <1>2, <1>3, KeptRight DEF RawRows
<1>6. DataSound'
  <2>1. ASSUME NEW i \in kept
        PROVE  /\ cleaned'[i].ref \in AllRefs
               /\ RowOf(cleaned'[i], cleaned'[i].ref)
               /\ Honest(cleaned'[i])
    <3>1. i \in Rows /\ cleaned'[i] = CleanRow(Listings[i], marks) BY <1>4, <1>5
    <3>2. Listings[i].ref \in AllRefs BY <3>1 DEF AllRefs
    <3> QED BY <3>1, <3>2, CleanRowHonest
  <2> QED BY <1>4, <2>1 DEF DataSound
<1>7. tx.on = FALSE BY DEF Clean, IInv, Loading, LoadOpen, Idle
<1>8. tx = Idle BY <1>7 DEF IInv, Loading, LoadOpen
<1>9. Loading' BY <1>1, <1>8 DEF Loading
<1>10. VehiclesSound' /\ Written' /\ LoadedWhole' BY <1>1 DEF IInv, VehiclesSound, Keyed, Written, LoadedWhole
<1> QED BY <1>6, <1>9, <1>10 DEF IInv

LEMMA StartLoadStep == IInv /\ StartLoad => IInv'
<1> SUFFICES ASSUME IInv, StartLoad PROVE IInv' OBVIOUS
<1>1. UNCHANGED <<cleaned, flag, vehicles, writer, defaulted>> BY DEF StartLoad
<1>2. PICK all : all = Refs(DOMAIN cleaned) OBVIOUS
<1>3. all \in SUBSET AllRefs BY <1>2 DEF IInv, DataSound, Refs
<1>4. loads \in Seq(SUBSET AllRefs) /\ loads' = Append(loads, all) BY <1>2 DEF StartLoad, IInv, Written
<1>5. /\ loads' \in Seq(SUBSET AllRefs) /\ Len(loads) \in Nat /\ Len(loads') = Len(loads) + 1
      /\ loads'[Len(loads')] = all
      /\ \A k \in 1 .. Len(loads) : loads'[k] = loads[k]
  BY <1>3, <1>4
<1>6. Written' BY <1>1, <1>5 DEF IInv, Written
<1>7. LoadedWhole'
  <2>1. \A r \in DOMAIN writer : writer[r] > 0 => writer[r] \in 1 .. Len(loads) BY <1>5 DEF IInv, Written
  <2> QED BY <1>1, <1>5, <2>1 DEF IInv, LoadedWhole
<1>8. DataSound' /\ VehiclesSound' BY <1>1 DEF IInv, DataSound, VehiclesSound, Keyed
<1>9. tx' = [on |-> TRUE, table |-> vehicles, left |-> DOMAIN cleaned] /\ DOMAIN cleaned # {}
  BY DEF StartLoad
<1>10. tx'.on = TRUE /\ tx'.table = vehicles /\ tx'.left = DOMAIN cleaned BY <1>9
<1>11. Sent' = {} BY <1>1, <1>10 DEF Sent, Refs
<1>12. loads'[Len(loads')] = Refs(DOMAIN cleaned)' BY <1>1, <1>2, <1>5 DEF Refs
<1>13. LoadOpen'
  BY <1>1, <1>5, <1>9, <1>10, <1>11, <1>12 DEF LoadOpen, IInv, VehiclesSound, Keyed
<1> QED BY <1>6, <1>7, <1>8, <1>13 DEF IInv, Loading

\* Every chunk is written into the transaction's own view, keyed by reference.
LEMMA UpsertStep == IInv /\ UpsertChunk => IInv'
<1> SUFFICES ASSUME IInv, UpsertChunk PROVE IInv' OBVIOUS
<1>1. UNCHANGED <<cleaned, flag, vehicles, writer, loads, defaulted>> BY DEF UpsertChunk, history
<1>2. DataSound' /\ VehiclesSound' /\ Written' /\ LoadedWhole'
  BY <1>1 DEF IInv, DataSound, VehiclesSound, Keyed, Written, LoadedWhole
<1>3. tx.on /\ flag BY DEF UpsertChunk, Accepted
<1>4. LoadOpen BY <1>3 DEF IInv, Loading, Idle
<1>5. PICK own, left, chunk : own = tx.table /\ left = tx.left /\ chunk = Chunk(left) OBVIOUS
<1>6. tx = [on |-> TRUE, table |-> own, left |-> left] BY <1>4, <1>5 DEF LoadOpen
<1>7. PICK new : new = [r \in Refs(chunk) |-> cleaned[CHOOSE i \in chunk : cleaned[i].ref = r]] OBVIOUS
<1>8. PICK over : over = With(own, new) OBVIOUS
<1>9. tx' = [on |-> TRUE, table |-> over, left |-> left \ chunk]
  <2>1. Upserted(own, chunk) = over BY <1>7, <1>8 DEF Upserted, Excluded
  <2>2. tx' = [tx EXCEPT !.table = Upserted(own, chunk), !.left = left \ chunk]
    BY <1>5 DEF UpsertChunk
  <2> QED BY <1>6, <2>1, <2>2
<1>10. tx'.table = over /\ tx'.left = left \ chunk BY <1>9
<1>11. chunk \subseteq left /\ left \subseteq DOMAIN cleaned BY <1>4, <1>5 DEF Chunk, LoadOpen
<1>12. ASSUME NEW r \in Refs(chunk)
       PROVE  /\ new[r] \in {cleaned[i] : i \in chunk}
              /\ RowOf(new[r], r) /\ Honest(new[r])
  <2>1. \E i \in chunk : cleaned[i].ref = r BY DEF Refs
  <2>2. PICK k : k = CHOOSE i \in chunk : cleaned[i].ref = r OBVIOUS
  <2>3. k \in chunk /\ cleaned[k].ref = r BY <2>1, <2>2
  <2>4. new[r] = cleaned[k] BY <1>7, <2>2
  <2> QED BY <1>11, <2>3, <2>4 DEF IInv, DataSound
<1>13. Sent' = Sent \cup Refs(chunk)
  <2>1. (DOMAIN cleaned \ (left \ chunk)) = (DOMAIN cleaned \ left) \cup chunk BY <1>11
  <2>2. Sent' = Refs(DOMAIN cleaned \ (left \ chunk)) BY <1>1, <1>10 DEF Sent, Refs
  <2>3. Sent = Refs(DOMAIN cleaned \ left) BY <1>5 DEF Sent
  <2> QED BY <2>1, <2>2, <2>3 DEF Refs
<1>14. /\ DOMAIN over = DOMAIN own \cup Refs(chunk)
       /\ \A r \in Refs(chunk) : over[r] = new[r]
       /\ \A r \in DOMAIN own \ Refs(chunk) : over[r] = own[r]
  <2>1. DOMAIN new = Refs(chunk) BY <1>7
  <2>2. over = [r \in DOMAIN own \cup Refs(chunk) |-> IF r \in Refs(chunk) THEN new[r] ELSE own[r]]
    BY <1>8, <2>1 DEF With
  <2> QED BY <2>2
<1>15. /\ Keyed(own)
       /\ DOMAIN own = DOMAIN vehicles \cup Sent
       /\ \A r \in DOMAIN own : r \in Sent \/ r \notin defaulted => Honest(own[r])
       /\ Len(loads) > 0 /\ loads[Len(loads)] = Refs(DOMAIN cleaned)
  BY <1>3, <1>4, <1>5 DEF LoadOpen
<1>16. Keyed(over) BY <1>12, <1>14, <1>15 DEF Keyed
<1>17. \A r \in DOMAIN over : r \in Sent' \/ r \notin defaulted => Honest(over[r])
  BY <1>12, <1>13, <1>14, <1>15
<1>18. DOMAIN over = DOMAIN vehicles \cup Sent' BY <1>13, <1>14, <1>15
<1>19. loads'[Len(loads')] = Refs(DOMAIN cleaned)' BY <1>1, <1>15 DEF Refs
<1>20. LoadOpen'
  BY <1>1, <1>3, <1>9, <1>10, <1>11, <1>15, <1>16, <1>17, <1>18, <1>19 DEF LoadOpen
<1> QED BY <1>2, <1>20 DEF IInv, Loading
\* The commit makes all of the load's rows visible at once, as the last writer's.
LEMMA CommitStep == IInv /\ CommitLoad => IInv'
<1> SUFFICES ASSUME IInv, CommitLoad PROVE IInv' OBVIOUS
<1>1. UNCHANGED <<cleaned, flag, loads>> /\ tx' = Idle /\ tx.on /\ tx.left = {} BY DEF CommitLoad
<1>2. LoadOpen BY <1>1 DEF IInv, Loading, Idle
<1>3. PICK own, n, all : own = tx.table /\ n = Len(loads) /\ all = loads[n] OBVIOUS
<1>4. all = Refs(DOMAIN cleaned) /\ Sent = all /\ flag
  <2>1. DOMAIN cleaned \ tx.left = DOMAIN cleaned BY <1>1
  <2> QED BY <1>1, <1>2, <1>3, <2>1 DEF LoadOpen, Sent
<1>5. /\ Keyed(own)
      /\ DOMAIN own = DOMAIN vehicles \cup all
      /\ \A r \in DOMAIN own : r \in all \/ r \notin defaulted => Honest(own[r])
  BY <1>2, <1>3, <1>4 DEF LoadOpen
<1>6. vehicles' = own /\ defaulted' = defaulted \ all BY <1>3 DEF CommitLoad
<1>7. VehiclesSound' BY <1>1, <1>5, <1>6 DEF VehiclesSound, Keyed
<1>8. /\ DOMAIN writer' = DOMAIN writer \cup all
      /\ \A r \in all : writer'[r] = n
      /\ \A r \in DOMAIN writer \ all : writer'[r] = writer[r]
  <2>1. PICK new : new = [r \in all |-> n] OBVIOUS
  <2>2. writer' = With(writer, new) BY <1>3, <2>1 DEF CommitLoad
  <2>3. DOMAIN new = all /\ \A r \in all : new[r] = n BY <2>1
  <2>4. writer' = [r \in DOMAIN writer \cup all |-> IF r \in all THEN new[r] ELSE writer[r]]
    BY <2>2, <2>3 DEF With
  <2> QED BY <2>3, <2>4
<1>9. /\ loads \in Seq(SUBSET AllRefs) /\ DOMAIN writer = DOMAIN vehicles
      /\ n \in Nat /\ n > 0
      /\ \A r \in DOMAIN writer : writer[r] \in 0 .. n
  BY <1>2, <1>3 DEF IInv, Written, LoadOpen
<1>10. DOMAIN writer' = DOMAIN vehicles' BY <1>5, <1>6, <1>8, <1>9
<1>11. \A r \in DOMAIN writer' : writer'[r] \in 0 .. n BY <1>8, <1>9
<1>12. Written' BY <1>1, <1>3, <1>9, <1>10, <1>11 DEF Written
<1>13. LoadedWhole'
  <2>1. ASSUME NEW r \in DOMAIN writer', writer'[r] > 0, NEW q \in loads[writer'[r]]
        PROVE  q \in DOMAIN vehicles' /\ writer'[q] >= writer'[r]
    <3>1. CASE r \in all BY <1>3, <1>5, <1>6, <1>8, <1>9, <2>1, <3>1
    <3>2. CASE r \notin all
      <4>1. r \in DOMAIN writer /\ writer'[r] = writer[r] /\ writer[r] \in 0 .. n
        BY <1>8, <1>9, <2>1, <3>2
      <4>2. q \in DOMAIN vehicles /\ writer[q] >= writer[r] BY <2>1, <4>1 DEF IInv, LoadedWhole
      <4> QED BY <1>5, <1>6, <1>8, <1>9, <4>1, <4>2
    <3> QED BY <3>1, <3>2
  <2> QED BY <1>1, <2>1 DEF LoadedWhole
<1>14. DataSound' BY <1>1 DEF IInv, DataSound
<1> QED BY <1>1, <1>7, <1>12, <1>13, <1>14 DEF IInv, Loading

\* The migration marks every row there is; taking the column back hides them all.
LEMMA FlagStep == IInv /\ (AddFlag \/ DropFlag) => IInv'
<1> SUFFICES ASSUME IInv, AddFlag \/ DropFlag PROVE IInv' OBVIOUS
<1>1. UNCHANGED <<cleaned, tx, writer, loads>> /\ ~tx.on BY DEF AddFlag, DropFlag, history
<1>2. tx = Idle BY <1>1 DEF IInv, Loading, LoadOpen
<1>3. Loading' /\ DataSound' BY <1>1, <1>2 DEF IInv, DataSound, Loading
<1>4. VehiclesSound' /\ DOMAIN vehicles' = DOMAIN vehicles
  <2>1. CASE AddFlag
    <3>1. /\ DOMAIN vehicles' = DOMAIN vehicles /\ defaulted' = DOMAIN vehicles
          /\ \A r \in DOMAIN vehicles : vehicles'[r] = [vehicles[r] EXCEPT !.reliable = TRUE]
      BY <2>1 DEF AddFlag
    <3>2. ASSUME NEW r \in DOMAIN vehicles PROVE RowOf(vehicles'[r], r)
      <4>1. PICK row : row = vehicles[r] OBVIOUS
      <4>2. RowOf(row, r) BY <4>1 DEF IInv, VehiclesSound, Keyed
      <4>3. vehicles'[r] = [row EXCEPT !.reliable = TRUE] BY <3>1, <4>1
      <4> QED BY <4>2, <4>3 DEF RowOf, Columns
    <3> QED BY <3>1, <3>2 DEF VehiclesSound, Keyed
  <2>2. CASE DropFlag
    <3>1. UNCHANGED vehicles /\ flag' = FALSE BY <2>2 DEF DropFlag
    <3> QED BY <3>1 DEF IInv, VehiclesSound, Keyed
  <2> QED BY <2>1, <2>2
<1>5. Written' BY <1>1, <1>4 DEF IInv, Written
<1>6. LoadedWhole' BY <1>1, <1>4 DEF IInv, LoadedWhole
<1> QED BY <1>3, <1>4, <1>5, <1>6 DEF IInv

\* The seed adds rows of its own and changes only the description of others.
LEMMA SeedStep == IInv /\ Seed => IInv'
<1> SUFFICES ASSUME IInv, Seed PROVE IInv' OBVIOUS
<1>1. UNCHANGED <<cleaned, flag, tx, loads, defaulted>> /\ ~tx.on BY DEF Seed
<1>2. tx = Idle BY <1>1 DEF IInv, Loading, LoadOpen
<1>3. Loading' /\ DataSound' BY <1>1, <1>2 DEF IInv, DataSound, Loading
<1>4. PICK new : new = [r \in {row.ref : row \in Range(SeedRows)} |->
         LET row == CHOOSE s \in Range(SeedRows) : s.ref = r
         IN IF r \in DOMAIN vehicles THEN [vehicles[r] EXCEPT !.text = row.text] ELSE row]
  OBVIOUS
<1>5. vehicles' = With(vehicles, new) BY <1>4 DEF Seed
<1>6. ASSUME NEW r \in DOMAIN new
      PROVE  /\ RowOf(new[r], r)
             /\ r \in DOMAIN vehicles /\ Honest(vehicles[r]) => Honest(new[r])
             /\ r \notin DOMAIN vehicles => Honest(new[r])
  <2>1. \E row \in Range(SeedRows) : row.ref = r BY <1>4
  <2>2. PICK row : row = CHOOSE s \in Range(SeedRows) : s.ref = r OBVIOUS
  <2>3. row \in Range(SeedRows) /\ row.ref = r BY <2>1, <2>2
  <2>4. new[r] = IF r \in DOMAIN vehicles THEN [vehicles[r] EXCEPT !.text = row.text] ELSE row
    BY <1>4, <2>2
  <2>5. CASE r \in DOMAIN vehicles
    <3>1. PICK old, text : old = vehicles[r] /\ text = row.text OBVIOUS
    <3>2. RowOf(old, r) BY <2>5, <3>1 DEF IInv, VehiclesSound, Keyed
    <3>3. new[r] = [old EXCEPT !.text = text] BY <2>4, <2>5, <3>1
    <3>4. RowOf(new[r], r) BY <3>2, <3>3 DEF RowOf, Columns
    <3>5. Honest(old) => Honest(new[r]) BY <3>2, <3>3 DEF RowOf, Columns, Honest
    <3> QED BY <2>5, <3>1, <3>4, <3>5
  <2>6. CASE r \notin DOMAIN vehicles
    <3>1. new[r] = row BY <2>4, <2>6
    <3>2. RowOf(row, r) BY <2>3, SeedFlags DEF RowOf
    <3>3. Honest(row) BY <2>3, SeedFlags DEF Honest
    <3> QED BY <2>6, <3>1, <3>2, <3>3
  <2> QED BY <2>5, <2>6
<1>7. /\ DOMAIN vehicles' = DOMAIN vehicles \cup DOMAIN new
      /\ \A r \in DOMAIN new : vehicles'[r] = new[r]
      /\ \A r \in DOMAIN vehicles \ DOMAIN new : vehicles'[r] = vehicles[r]
  <2>1. PICK now : now = vehicles' OBVIOUS
  <2>2. now = [r \in DOMAIN vehicles \cup DOMAIN new |-> IF r \in DOMAIN new THEN new[r] ELSE vehicles[r]]
    BY <1>5, <2>1 DEF With
  <2>3. /\ DOMAIN now = DOMAIN vehicles \cup DOMAIN new
        /\ \A r \in DOMAIN new : now[r] = new[r]
        /\ \A r \in DOMAIN vehicles \ DOMAIN new : now[r] = vehicles[r]
    BY <2>2
  <2> QED BY <2>1, <2>3
<1>8. VehiclesSound'
  <2>1. Keyed(vehicles)' BY <1>6, <1>7 DEF IInv, VehiclesSound, Keyed
  <2>2. flag => \A r \in DOMAIN vehicles' \ defaulted : Honest(vehicles'[r])
    BY <1>6, <1>7 DEF IInv, VehiclesSound
  <2> QED BY <1>1, <2>1, <2>2 DEF VehiclesSound
<1>9. /\ DOMAIN writer' = DOMAIN vehicles'
      /\ \A r \in DOMAIN writer : writer'[r] = writer[r]
      /\ \A r \in DOMAIN writer' \ DOMAIN writer : writer'[r] = 0
  <2>1. DOMAIN writer \subseteq DOMAIN vehicles' BY <1>7 DEF IInv, Written
  <2>2. PICK zero : zero = [r \in DOMAIN vehicles' |-> 0] OBVIOUS
  <2>3. writer' = With(zero, writer) BY <2>2 DEF Seed
  <2> QED BY <2>1, <2>2, <2>3 DEF With
<1>10. Written'
  <2>1. Len(loads) \in Nat BY DEF IInv, Written
  <2> QED BY <1>1, <1>9, <2>1 DEF IInv, Written
<1>11. LoadedWhole'
  <2>1. ASSUME NEW r \in DOMAIN writer', writer'[r] > 0, NEW q \in loads[writer'[r]]
        PROVE  q \in DOMAIN vehicles' /\ writer'[q] >= writer'[r]
    <3>1. r \in DOMAIN writer /\ writer'[r] = writer[r] BY <1>9, <2>1
    <3>2. q \in DOMAIN vehicles /\ writer[q] >= writer[r] BY <2>1, <3>1 DEF IInv, LoadedWhole
    <3>3. q \in DOMAIN writer BY <3>2 DEF IInv, Written
    <3> QED BY <1>7, <1>9, <3>1, <3>2, <3>3
  <2> QED BY <1>1, <2>1 DEF LoadedWhole
<1> QED BY <1>3, <1>8, <1>10, <1>11 DEF IInv
\* What search_listings reads of what, in the end, the scripts wrote.
LEMMA CatalogInvariant == CatalogSpec => []IInv
<1>1. ASSUME IInv, [CatalogNext]_catalogVars PROVE IInv'
  <2>1. CASE AbandonLoad
    <3>1. UNCHANGED <<cleaned, flag, vehicles, writer, loads, defaulted>> /\ tx' = Idle
      BY <2>1 DEF AbandonLoad, history
    <3> QED BY <1>1, <3>1 DEF IInv, DataSound, VehiclesSound, Keyed, Loading, Written, LoadedWhole
  <2>2. CASE Download \/ Embed \/ UNCHANGED catalogVars
    <3>1. UNCHANGED <<cleaned, flag, vehicles, tx, writer, loads, defaulted>>
      BY <2>2 DEF Download, Embed, catalogVars, history
    <3>2. DataSound' /\ VehiclesSound' /\ Written' /\ LoadedWhole'
      BY <1>1, <3>1 DEF IInv, DataSound, VehiclesSound, Keyed, Written, LoadedWhole
    <3>3. CASE tx = Idle BY <3>1, <3>2, <3>3 DEF IInv, Loading
    <3>4. CASE LoadOpen
      <4>1. Sent' = Sent BY <3>1 DEF Sent, Refs
      <4>2. LoadOpen' BY <3>1, <3>4, <4>1 DEF LoadOpen, Keyed, Refs
      <4> QED BY <3>2, <4>2 DEF IInv, Loading
    <3> QED BY <1>1, <3>3, <3>4 DEF IInv, Loading
  <2> QED BY <1>1, <2>1, <2>2, CleanStep, StartLoadStep, UpsertStep, CommitStep, FlagStep, SeedStep
       DEF CatalogNext
<1> QED BY <1>1, InitSound, PTL DEF CatalogSpec

\* load_vehicles in one transaction: however loads, their deaths, the seed and the
\* migration alternate, a load is in the table with all its rows or with none.
THEOREM LoadsAreWhole == CatalogSpec => []LoadedWhole
BY CatalogInvariant, PTL DEF IInv

\* compute_price, the upsert of the flag and the masking in search_listings: no
\* search shows the sentinel of a vehicle that was written since the migration.
THEOREM SentinelNeverShown == CatalogSpec => []SentinelHidden
<1>1. IInv => SentinelHidden
  <2> SUFFICES ASSUME IInv, NEW lo \in Bounds, NEW hi \in Bounds, NEW v \in Found(lo, hi, None),
                      v.ref \notin defaulted
               PROVE  /\ 0 \notin {v.price, v.low, v.high}
                      /\ (lo # None \/ hi # None) => v.price # None
    BY DEF SentinelHidden
  <2>1. PICK r \in DOMAIN vehicles : flag /\ v = Masked(vehicles[r]) /\ Matches(vehicles[r], lo, hi, None)
    BY DEF Found
  <2>2. PICK row : row = vehicles[r] OBVIOUS
  <2>3. RowOf(row, r) BY <2>2 DEF IInv, VehiclesSound, Keyed
  <2>4. CASE row.reliable
    <3>1. v = row BY <2>1, <2>2, <2>4 DEF Masked
    <3>2. Honest(row) BY <2>1, <2>2, <2>3, <3>1 DEF IInv, VehiclesSound, RowOf
    <3>3. (lo # None \/ hi # None) => row.price # None BY <2>1, <2>2 DEF Matches
    <3> QED BY <2>4, <3>1, <3>2, <3>3 DEF Honest
  <2>5. CASE ~row.reliable
    <3>1. v = [row EXCEPT !.price = None, !.low = None, !.high = None] BY <2>1, <2>2, <2>5 DEF Masked
    <3>2. v.price = None /\ v.low = None /\ v.high = None BY <2>3, <3>1 DEF RowOf, Columns
    <3>3. lo = None /\ hi = None BY <2>1, <2>2, <2>5 DEF Matches
    <3> QED BY <3>2, <3>3 DEF None
  <2> QED BY <2>4, <2>5
<1> QED BY <1>1, CatalogInvariant, PTL
-----------------------------------------------------------------------------
\* Running sums of the sizes up to some line, the first at 0.
Sums(size, f, m) == /\ DOMAIN f = 1 .. m + 1 /\ f[1] = 0
                    /\ \A i \in 1 .. m : f[i + 1] = f[i] + size[i]

\* One may add up as many sizes as one likes.
LEMMA SumsRun == \A size : \A m \in Nat : \E f : Sums(size, f, m)
<1> SUFFICES ASSUME NEW size PROVE \A m \in Nat : \E f : Sums(size, f, m) OBVIOUS
<1>1. PICK T : T = {m \in Nat : ~\E f : Sums(size, f, m)} OBVIOUS
<1> SUFFICES ASSUME T # {} PROVE FALSE BY <1>1
<1>2. T \in SUBSET Nat BY <1>1
<1>3. PICK m \in T : \A y \in T : ~(y < m) BY <1>2, LeastOne
<1>4. m \in Nat /\ ~\E f : Sums(size, f, m) BY <1>1, <1>3
<1>5. CASE m = 0
  <2>1. PICK f : f = [i \in 1 .. 1 |-> 0] OBVIOUS
  <2>2. Sums(size, f, 0) BY <2>1 DEF Sums
  <2> QED BY <1>4, <1>5, <2>2
<1>6. CASE m # 0
  <2>1. m - 1 \in Nat /\ m - 1 < m /\ ~(m - 1 \in T) BY <1>3, <1>4, <1>6
  <2>2. PICK f : Sums(size, f, m - 1) BY <1>1, <2>1
  <2>3. PICK g : g = [i \in 1 .. m + 1 |-> IF i = m + 1 THEN f[m] + size[m] ELSE f[i]] OBVIOUS
  <2>4. DOMAIN g = 1 .. m + 1 /\ g[1] = 0 BY <1>4, <1>6, <2>2, <2>3 DEF Sums
  <2>5. ASSUME NEW i \in 1 .. m PROVE g[i + 1] = g[i] + size[i]
    <3>1. i \in 1 .. m + 1 /\ i + 1 \in 1 .. m + 1 /\ i # m + 1 BY <1>4
    <3>2. g[i] = f[i] BY <2>3, <3>1
    <3>3. CASE i = m BY <2>3, <3>1, <3>2, <3>3
    <3>4. CASE i # m
      <4>1. i \in 1 .. m - 1 /\ i + 1 # m + 1 BY <1>4, <3>4
      <4>2. f[i + 1] = f[i] + size[i] BY <2>2, <4>1 DEF Sums
      <4>3. g[i + 1] = f[i + 1] BY <2>3, <3>1, <4>1
      <4> QED BY <3>2, <4>2, <4>3
    <3> QED BY <3>3, <3>4
  <2>6. Sums(size, g, m) BY <2>4, <2>5 DEF Sums
  <2> QED BY <1>4, <2>6
<1> QED BY <1>5, <1>6

\* A sum is a number that no part of what it adds up goes beyond.
SumSound(size, f, i) == f[i] \in Nat /\ \A k \in 1 .. i - 1 : f[k] + size[k] <= f[i]
LEMMA SumsGrow ==
  ASSUME NEW m \in Nat, NEW size, \A i \in 1 .. m : size[i] \in Nat, NEW f, Sums(size, f, m)
  PROVE  \A i \in 1 .. m + 1 : SumSound(size, f, i)
<1>1. PICK T : T = {i \in 1 .. m + 1 : ~SumSound(size, f, i)} OBVIOUS
<1> SUFFICES ASSUME T # {} PROVE FALSE BY <1>1
<1>2. T \in SUBSET Nat BY <1>1
<1>3. PICK i \in T : \A y \in T : ~(y < i) BY <1>2, LeastOne
<1>4. i \in 1 .. m + 1 /\ ~SumSound(size, f, i) BY <1>1, <1>3
<1>5. CASE i = 1
  <2>1. f[1] = 0 BY DEF Sums
  <2> QED BY <1>4, <1>5, <2>1 DEF SumSound
<1>6. CASE i # 1
  <2>1. i - 1 \in 1 .. m /\ i - 1 \in 1 .. m + 1 /\ i = (i - 1) + 1 BY <1>4, <1>6
  <2>2. ~(i - 1 \in T) BY <1>3, <2>1
  <2>3. f[i - 1] \in Nat /\ \A k \in 1 .. (i - 1) - 1 : f[k] + size[k] <= f[i - 1]
    BY <1>1, <2>1, <2>2 DEF SumSound
  <2>4. f[i] = f[i - 1] + size[i - 1] BY <2>1 DEF Sums
  <2>5. size[i - 1] \in Nat BY <2>1
  <2>6. ASSUME NEW k \in 1 .. i - 1 PROVE f[k] + size[k] <= f[i]
    <3>1. CASE k = i - 1 BY <2>3, <2>4, <2>5, <3>1
    <3>2. CASE k # i - 1
      <4>1. k \in 1 .. (i - 1) - 1 /\ k \in 1 .. m /\ k \in 1 .. m + 1 BY <1>4, <3>2
      <4>2. ~(k \in T) BY <1>3, <1>4
      <4>3. f[k] \in Nat BY <1>1, <4>1, <4>2 DEF SumSound
      <4>4. size[k] \in Nat BY <4>1
      <4>5. f[k] + size[k] <= f[i - 1] BY <2>3, <4>1
      <4> QED BY <2>3, <2>4, <2>5, <4>3, <4>4, <4>5
    <3> QED BY <3>1, <3>2
  <2>7. f[i] \in Nat BY <2>3, <2>4, <2>5
  <2> QED BY <1>4, <2>6, <2>7 DEF SumSound
<1> QED BY <1>5, <1>6

\* The lines of an observation start at the running sums of their sizes.
LEMMA StartsAreSums ==
  ASSUME NEW result, NEW n \in Nat, n = Len(result), NEW size,
         \A i \in 1 .. n : size[i] = LineOf(result, i).size
  PROVE  Sums(size, Starts(result), n)
<1>1. PICK f : Sums(size, f, n) BY SumsRun
<1> DEFINE Run(g) == [i \in 1 .. Len(result) + 1 |->
                        IF i = 1 THEN 0 ELSE g[i - 1] + LineOf(result, i - 1).size]
<1>2. ASSUME NEW g, g = Run(g) PROVE Sums(size, g, n)
  <2>1. DOMAIN g = 1 .. n + 1 BY <1>2
  <2>2. g[1] = 0
    <3>1. Run(g)[1] = 0 OBVIOUS
    <3> QED BY <1>2, <3>1
  <2>3. ASSUME NEW i \in 1 .. n PROVE g[i + 1] = g[i] + size[i]
    <3>1. i + 1 \in 1 .. n + 1 /\ i + 1 # 1 /\ (i + 1) - 1 = i OBVIOUS
    <3>2. Run(g)[i + 1] = g[i] + LineOf(result, i).size BY <3>1
    <3>3. size[i] = LineOf(result, i).size OBVIOUS
    <3> QED BY <1>2, <3>2, <3>3
  <2> QED BY <2>1, <2>2, <2>3 DEF Sums
<1>3. \E g : g = Run(g)
  <2>1. PICK g : g = [i \in 1 .. n + 1 |-> f[i]] OBVIOUS
  <2>2. ASSUME NEW i \in 1 .. n + 1 PROVE g[i] = Run(g)[i]
    <3>1. CASE i = 1 BY <1>1, <2>1, <3>1 DEF Sums
    <3>2. CASE i # 1
      <4>1. PICK k \in 1 .. n : i = k + 1 /\ k = i - 1
        <5>1. i - 1 \in 1 .. n /\ i = (i - 1) + 1 BY <3>2
        <5> QED BY <5>1
      <4>2. f[k + 1] = f[k] + size[k] BY <1>1, <4>1 DEF Sums
      <4>3. size[k] = LineOf(result, k).size BY <4>1
      <4>4. g[i] = f[k + 1] /\ g[k] = f[k] BY <2>1, <4>1
      <4>5. Run(g)[i] = g[k] + LineOf(result, k).size BY <3>2, <4>1
      <4> QED BY <4>2, <4>3, <4>4, <4>5
    <3> QED BY <3>1, <3>2
  <2>3. g = Run(g) BY <2>1, <2>2
  <2> QED BY <2>3
<1>4. Starts(result) = CHOOSE g : g = Run(g) BY DEF Starts
<1>5. PICK g : g = (CHOOSE h : h = Run(h)) OBVIOUS
<1>6. g = Run(g)
  <2> HIDE DEF Run
  <2> QED BY <1>3, <1>5
<1>7. Sums(size, g, n) BY <1>2, <1>6
<1> QED BY <1>4, <1>5, <1>7
-----------------------------------------------------------------------------
\* What a search answers: its chunks are sound, and none comes before one that it
\* must follow.
Ordered(result, n) ==
  /\ Len(result) = n /\ DOMAIN result = 1 .. n
  /\ \A i \in 1 .. n : Sound(result[i])
  /\ \A i, k \in 1 .. n : i < k => ~Before(result[k], result[i])

\* So is whatever limit cuts from a ranking, also one that counts from its end.
LEMMA CutIsOrdered ==
  ASSUME NEW pool, NEW N \in Nat, NEW r \in [1 .. N -> pool], NEW limit \in Int,
         Ordered(r, N)
  PROVE  \E n \in Nat : Ordered(Sliced(r, limit), n)
<1>1. r \in Seq(pool) /\ Len(r) = N OBVIOUS
<1>2. PICK e : e = IF limit < 0 THEN N + limit ELSE limit OBVIOUS
<1>3. PICK m : m = IF e < N THEN e ELSE N OBVIOUS
<1>4. e \in Int /\ m \in Int /\ m <= N BY <1>2, <1>3
<1>5. Sliced(r, limit) = SubSeq(r, 1, m) BY <1>1, <1>2, <1>3 DEF Sliced
<1>6. PICK n \in Nat : n <= N /\ n = IF m < 0 THEN 0 ELSE m BY <1>4
<1>7. PICK s : s = SubSeq(r, 1, m) OBVIOUS
<1>8. Len(s) = n /\ DOMAIN s = 1 .. n /\ \A i \in 1 .. n : s[i] = r[i]
  <2>1. CASE m < 1
    <3>1. s = << >> BY <1>1, <1>4, <1>7, <2>1
    <3>2. n = 0 /\ 1 .. n = {} BY <1>4, <1>6, <2>1
    <3> QED BY <3>1, <3>2
  <2>2. CASE m >= 1
    <3>1. n = m BY <1>4, <1>6, <2>2
    <3>2. s = [i \in 1 .. m |-> r[i]] BY <1>1, <1>4, <1>7, <2>2
    <3>3. s \in Seq(pool) /\ Len(s) = m BY <1>1, <1>4, <1>7, <2>2
    <3> QED BY <3>1, <3>2, <3>3
  <2> QED BY <1>4, <2>1, <2>2
<1>9. \A i \in 1 .. n : i \in 1 .. N BY <1>6
<1>10. Ordered(s, n) BY <1>8, <1>9 DEF Ordered
<1> QED BY <1>5, <1>7, <1>10
\* What is left of a piece is the whole of it when it ends before the ceiling, and
\* nothing when it starts behind it.
LEMMA ShownWhole ==
  ASSUME NEW at \in Nat, NEW size \in Nat
  PROVE  /\ at + size <= MaxChars => Shown(at, size) = size
         /\ Shown(at, size) > 0 => at < MaxChars
<1>1. MaxChars \in Nat BY Parameters
<1> QED BY <1>1 DEF Shown

\* The parts of a line follow one another.
LEMMA LineIs ==
  ASSUME NEW c, Sound(c), NEW budget \in Nat
  PROVE  /\ TagLen(c) \in Nat /\ TextLen(c, budget) \in Nat
         /\ Line(c, budget).tag \in Nat
         /\ Line(c, budget).text = Line(c, budget).tag + TagLen(c)
         /\ Line(c, budget).size \in Nat
         /\ Line(c, budget).text + TextLen(c, budget) <= Line(c, budget).size
<1>1. HeadSize \in Nat /\ TagSize \in Nat /\ MarkerSize \in Nat BY Parameters
<1>2. TagLen(c) \in Nat BY <1>1 DEF TagLen
<1>3. Size[c.text] \in Nat BY DEF Sound
<1>4. TextLen(c, budget) \in Nat BY <1>3 DEF TextLen
<1>5. Excerpt(c, budget) \in Nat /\ TextLen(c, budget) <= Excerpt(c, budget)
  BY <1>1, <1>4 DEF Excerpt
<1>6. /\ Line(c, budget).tag = HeadSize
      /\ Line(c, budget).text = HeadSize + TagLen(c)
      /\ Line(c, budget).size = HeadSize + TagLen(c) + Excerpt(c, budget) + 1
  BY DEF Line
<1> QED BY <1>1, <1>2, <1>4, <1>5, <1>6

\* The budget of an excerpt is a number.
LEMMA BudgetIs == ASSUME NEW n \in Nat \ {0} PROVE ChunkBudget(n) \in Nat
<1>1. MaxChars \in Nat /\ MinExcerpt \in Nat BY Parameters
<1>2. MaxChars \div n \in Nat BY <1>1
<1> QED BY <1>1, <1>2 DEF ChunkBudget

\* Every line starts at a number, and behind the end of every line before it.
LEMMA LinesFollow ==
  ASSUME NEW result, NEW n \in Nat \ {0}, Ordered(result, n)
  PROVE  /\ \A i \in 1 .. n + 1 : Starts(result)[i] \in Nat
         /\ \A i \in 1 .. n : \A k \in 1 .. i - 1 :
              Starts(result)[k] + LineOf(result, k).size <= Starts(result)[i]
<1>1. PICK size : size = [i \in 1 .. n |-> LineOf(result, i).size] OBVIOUS
<1>2. n = Len(result) /\ n \in Nat BY DEF Ordered
<1>3. \A i \in 1 .. n : size[i] = LineOf(result, i).size BY <1>1
<1>4. ASSUME NEW i \in 1 .. n PROVE size[i] \in Nat
  <2>1. Sound(result[i]) BY DEF Ordered
  <2>2. Line(result[i], ChunkBudget(n)).size \in Nat BY <2>1, BudgetIs, LineIs
  <2> QED BY <1>2, <1>3, <2>2 DEF LineOf
<1>5. Sums(size, Starts(result), n) BY <1>2, <1>3, StartsAreSums
<1>6. PICK f : f = Starts(result) OBVIOUS
<1>7. \A i \in 1 .. n + 1 : SumSound(size, f, i) BY <1>2, <1>4, <1>5, <1>6, SumsGrow
<1>8. \A i \in 1 .. n + 1 : f[i] \in Nat BY <1>7 DEF SumSound
<1>9. ASSUME NEW i \in 1 .. n, NEW k \in 1 .. i - 1
      PROVE  f[k] + LineOf(result, k).size <= f[i]
  <2>1. i \in 1 .. n + 1 /\ k \in 1 .. n OBVIOUS
  <2> QED BY <1>3, <1>7, <2>1 DEF SumSound
<1> QED BY <1>6, <1>8, <1>9

\* A superseded text of which a character is left has its whole tag before it, and
\* whatever is current comes on an earlier line, whole.
LEMMA TaggedAndLast ==
  ASSUME NEW result, NEW n \in Nat \ {0}, Ordered(result, n),
         NEW i \in 1 .. n, result[i].superseded, TextShown(result, i) > 0
  PROVE  /\ TagShown(result, i) = TagSize
         /\ \A k \in 1 .. n : ~result[k].superseded =>
              TextShown(result, k) = TextLen(result[k], ChunkBudget(Len(result)))
<1>1. PICK b \in Nat : b = ChunkBudget(Len(result))
  <2>1. Len(result) = n BY DEF Ordered
  <2> QED BY <2>1, BudgetIs
<1>2. PICK f : f = Starts(result) OBVIOUS
<1>3. /\ \A k \in 1 .. n : f[k] \in Nat
      /\ \A k \in 1 .. i - 1 : f[k] + LineOf(result, k).size <= f[i]
  <2>1. \A k \in 1 .. n : k \in 1 .. n + 1 OBVIOUS
  <2> QED BY <1>2, <2>1, LinesFollow
<1>4. MaxChars \in Nat /\ TagSize \in Nat BY Parameters
<1>5. \A k \in 1 .. n : Sound(result[k]) BY DEF Ordered
<1>6. PICK line : line = Line(result[i], b) OBVIOUS
<1>7. /\ line.tag \in Nat /\ line.text = line.tag + TagLen(result[i])
      /\ TextLen(result[i], b) \in Nat
  BY <1>5, <1>6, LineIs
<1>8. TagLen(result[i]) = TagSize BY DEF TagLen
<1>9. f[i] + line.text < MaxChars
  <2>1. f[i] + line.text \in Nat BY <1>3, <1>4, <1>7, <1>8
  <2>2. Shown(f[i] + line.text, TextLen(result[i], b)) > 0
    BY <1>1, <1>2, <1>6 DEF TextShown, LineOf
  <2> QED BY <1>7, <2>1, <2>2, ShownWhole
<1>10. TagShown(result, i) = TagSize
  <2>1. f[i] + line.tag \in Nat /\ f[i] + line.tag + TagSize <= MaxChars
    BY <1>3, <1>4, <1>7, <1>8, <1>9
  <2>2. Shown(f[i] + line.tag, TagSize) = TagSize BY <1>4, <2>1, ShownWhole
  <2> QED BY <1>1, <1>2, <1>6, <1>8, <2>2 DEF TagShown, LineOf
<1>11. ASSUME NEW k \in 1 .. n, ~result[k].superseded
       PROVE  TextShown(result, k) = TextLen(result[k], b)
  <2>1. Before(result[k], result[i])
    <3>1. result[k].superseded \in BOOLEAN /\ result[i].superseded \in BOOLEAN BY <1>5 DEF Sound
    <3> QED BY <1>11, <3>1 DEF Before
  <2>2. k # i BY <1>11
  <2>3. k \in 1 .. i - 1
    <3>1. ~(i < k) BY <2>1 DEF Ordered
    <3> QED BY <2>2, <3>1
  <2>4. PICK own : own = Line(result[k], b) OBVIOUS
  <2>5. /\ own.text \in Nat /\ own.size \in Nat /\ TextLen(result[k], b) \in Nat
        /\ own.text + TextLen(result[k], b) <= own.size
    <3>1. own.tag \in Nat /\ TagLen(result[k]) \in Nat /\ own.text = own.tag + TagLen(result[k])
      BY <1>5, <2>4, LineIs
    <3>2. own.size \in Nat /\ TextLen(result[k], b) \in Nat BY <1>5, <2>4, LineIs
    <3>3. own.text + TextLen(result[k], b) <= own.size BY <1>5, <2>4, LineIs
    <3>4. own.text \in Nat BY <3>1
    <3> QED BY <3>2, <3>3, <3>4
  <2>6. f[k] + own.size <= f[i] BY <1>1, <1>3, <2>3, <2>4 DEF LineOf
  <2>7. f[k] + own.text \in Nat /\ f[k] + own.text + TextLen(result[k], b) <= MaxChars
    BY <1>3, <1>4, <1>7, <1>8, <1>9, <2>5, <2>6
  <2>8. Shown(f[k] + own.text, TextLen(result[k], b)) = TextLen(result[k], b)
    BY <2>5, <2>7, ShownWhole
  <2> QED BY <1>1, <1>2, <2>4, <2>8 DEF TextShown, LineOf
<1> QED BY <1>1, <1>10, <1>11
\* What is read is never more than the ceiling and one marker.
LEMMA SeenBounded ==
  ASSUME NEW result, NEW n \in Nat, Ordered(result, n)
  PROVE  Seen(result) <= MaxChars + MarkerSize
<1>1. MaxChars \in Nat /\ MarkerSize \in Nat BY Parameters
<1>2. BodySize(result) \in Int
  <2>1. CASE result = << >> BY <2>1 DEF BodySize
  <2>2. CASE result # << >> /\ n = 0
    <3>1. BodySize(result) = Starts(result)[n + 1] - 1 BY <2>2 DEF BodySize, Ordered
    <3>2. PICK size : size = [i \in 1 .. n |-> LineOf(result, i).size] OBVIOUS
    <3>3. Sums(size, Starts(result), n) BY <3>2, StartsAreSums DEF Ordered
    <3>4. Starts(result)[n + 1] = 0 BY <2>2, <3>3 DEF Sums
    <3> QED BY <3>1, <3>4
  <2>3. CASE result # << >> /\ n # 0
    <3>1. BodySize(result) = Starts(result)[n + 1] - 1 BY <2>3 DEF BodySize, Ordered
    <3>2. Starts(result)[n + 1] \in Nat BY <2>3, LinesFollow
    <3> QED BY <3>1, <3>2
  <2> QED BY <2>1, <2>2, <2>3
<1> QED BY <1>1, <1>2 DEF Seen

\* Whatever the documents and the limit, the model reads the tag with a superseded
\* text and every current excerpt before one, within the ceiling.
THEOREM SupersededComeTaggedAndLast == Spec => []SupersededIsLabelled
<1>1. TableSound => SupersededIsLabelled
  <2> SUFFICES ASSUME TableSound, NEW limit \in Limits, NEW result \in Results(limit)
               PROVE  /\ Seen(result) <= MaxChars + MarkerSize
                      /\ \A i \in DOMAIN result : result[i].superseded /\ TextShown(result, i) > 0 =>
                           /\ TagShown(result, i) = TagSize
                           /\ \A k \in DOMAIN result : ~result[k].superseded =>
                                TextShown(result, k) = TextLen(result[k], ChunkBudget(Len(result)))
    BY DEF SupersededIsLabelled
  <2>1. limit \in Int BY Parameters
  <2>2. PICK pool \in Nearest(PoolSize(limit)) : \E r \in Rankings(pool) : result = Sliced(r, limit)
    BY DEF Results
  <2>3. PICK r \in Rankings(pool) : result = Sliced(r, limit) BY <2>2
  <2>4. pool \in SUBSET table /\ IsFiniteSet(pool) BY FS_Subset DEF Nearest, TableSound
  <2>5. PICK N \in Nat : N = Cardinality(pool) BY <2>4, FS_CardinalityType
  <2>6. r \in [1 .. N -> pool] /\ \A i, k \in 1 .. N : i < k => ~Before(r[k], r[i])
    BY <2>4, <2>5, RankingIs
  <2>7. Ordered(r, N)
    <3>1. Len(r) = N /\ DOMAIN r = 1 .. N BY <2>6
    <3>2. \A i \in 1 .. N : r[i] \in table BY <2>4, <2>6
    <3> QED BY <2>6, <3>1, <3>2 DEF Ordered, TableSound
  <2>8. r \in [1 .. N -> pool] BY <2>6
  <2>9. PICK n \in Nat : Ordered(result, n) BY <2>1, <2>3, <2>7, <2>8, CutIsOrdered
  <2>10. Seen(result) <= MaxChars + MarkerSize BY <2>9, SeenBounded
  <2>11. DOMAIN result = 1 .. n BY <2>9 DEF Ordered
  <2>12. ASSUME NEW i \in 1 .. n, result[i].superseded, TextShown(result, i) > 0
         PROVE  /\ TagShown(result, i) = TagSize
                /\ \A k \in 1 .. n : ~result[k].superseded =>
                     TextShown(result, k) = TextLen(result[k], ChunkBudget(Len(result)))
    <3>1. n \in Nat \ {0} OBVIOUS
    <3> QED BY <2>9, <2>12, <3>1, TaggedAndLast
  <2> QED BY <2>10, <2>11, <2>12
<1> QED BY <1>1, SoundThroughout, PTL
=============================================================================
