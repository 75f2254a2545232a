-------------------------------- MODULE Catalog --------------------------------
(* How a listing gets from the downloaded files into a search result:         *)
(* download_listings adds files, clean_listings makes one data set of them,   *)
(* load_listings upserts it into vehicles, embed_listings or the CI seed adds *)
(* vectors, and search_listings reads. The column is_price_reliable comes     *)
(* with a migration of its own, later than the first data, and can be taken   *)
(* back by a downgrade. Scripts run one at a time and may die at any step.    *)
EXTENDS Integers, Sequences, FiniteSets, Functions

CONSTANTS
  Listings,        \* the rows of all files data/raw may hold, in the order of the files' names
  SeedRows,        \* VEHICLES of the CI seed
  Near,            \* pairs of redacted texts whose similarity reaches the threshold
  NormalMake,      \* display form of each spelling of a make
  LongSegments,    \* segments of at least BOILERPLATE_MIN_LENGTH characters
  MinOccurrences,  \* BOILERPLATE_MIN_OCCURRENCES
  ChunkSize,       \* rows per INSERT
  PriceBounds,     \* values of price_min and price_max, besides None
  MaxLoads,        \* bound: load runs
  MaxSeeds,        \* bound: seed runs
  MaxAdds          \* bound: upgrades that add the column

None == -1         \* SQL NULL, a missing bound, no filter

Rows == DOMAIN Listings
Files == {Listings[i].file : i \in Rows}

ASSUME Positive == /\ Listings \in Seq(Range(Listings))
                   /\ ChunkSize \in Nat \ {0} /\ MinOccurrences \in Nat \ {0}

Columns == {"ref", "make", "mileage", "text", "low", "high", "price", "reliable"}

\* What the price audit found of the KBB bounds: both are 0 when there is no
\* valuation, and neither is otherwise.
ASSUME Valuations ==
  \A i \in Rows : /\ {Listings[i].low, Listings[i].high} \subseteq Nat \cup {None}
                  /\ Listings[i].low = 0 <=> Listings[i].high = 0
\* The seed flags its rows by hand.
ASSUME SeedFlags ==
  \A row \in Range(SeedRows) : /\ Columns \subseteq DOMAIN row
                               /\ row.reliable => 0 \notin {row.price, row.low, row.high}

VARIABLES
  files,      \* files in data/raw
  cleaned,    \* vehicles_clean.parquet
  flag,       \* the column is_price_reliable exists
  vehicles,   \* rows of the table by external_ref
  vectors,    \* how many embeddings each vehicle has
  tx,         \* the running load: what its transaction sees, and the rows left
  adds, seeds,
  raw,        \* history: the rows the data set was made of
  writer,     \* history: the load that wrote a row last, 0 for any other origin
  loads,      \* history: the references each load has to write
  defaulted   \* history: vehicles whose flag is the default of the migration

catalogVars == <<files, cleaned, flag, vehicles, vectors, tx, adds, seeds, raw, writer, loads, defaulted>>
history == <<raw, writer, loads, defaulted>>

Idle == [on |-> FALSE]
With(f, g) == [r \in DOMAIN f \cup DOMAIN g |-> IF r \in DOMAIN g THEN g[r] ELSE f[r]]

-----------------------------------------------------------------------------
\* A description is a set of segments; "phone" stands for one that holds PII.
Redact(text) == IF "phone" \in text THEN (text \ {"phone"}) \cup {"[REDACTED]"} ELSE text

\* Twice the midpoint of the KBB bounds, which is missing when one of them is.
Price(low, high) == IF None \in {low, high} THEN None ELSE low + high

\* NaN differs from 0, so a missing price counts as reliable.
Reliable(low, high) == Price(low, high) # 0

Key(l) == <<l.make, l.mileage>>
IsNear(a, b) == a = b \/ <<a, b>> \in Near

Twins(i, k) == /\ Key(Listings[i]) = Key(Listings[k])
               /\ IsNear(Redact(Listings[i].text), Redact(Listings[k].text))

Kept_AgainstAll(rows) == {i \in rows : ~\E k \in rows : k < i /\ Twins(i, k)}
\* A row is compared with the rows kept before it in its group.
Kept(rows) ==
  LET kept[n \in 0 .. Len(Listings)] ==
        IF n = 0 THEN {}
        ELSE LET before == kept[n - 1]
             IN IF n \notin rows \/ \E k \in before : Twins(n, k) THEN before ELSE before \cup {n}
  IN kept[Len(Listings)]

Boilerplate(rows) ==
  {s \in LongSegments : Cardinality({i \in rows : s \in Redact(Listings[i].text)}) >= MinOccurrences}

CleanRow(l, boilerplate) ==
  [ref |-> l.ref, make |-> NormalMake[l.make], mileage |-> l.mileage,
   text |-> Redact(l.text) \ boilerplate, low |-> l.low, high |-> l.high,
   price |-> Price(l.low, l.high), reliable |-> Reliable(l.low, l.high)]

\* The rows that are left, under the indices they had.
CleanRows(rows) == [i \in Kept(rows) |-> CleanRow(Listings[i], Boilerplate(Kept(rows)))]

RawRows(fs) == {i \in Rows : Listings[i].file \in fs}

-----------------------------------------------------------------------------
\* A release before the flag may have filled the table from one file.
OldRow(l) == [CleanRow(l, {}) EXCEPT !.reliable = TRUE]
Latest(f, r) == CHOOSE i \in RawRows({f}) :
  Listings[i].ref = r /\ \A k \in RawRows({f}) : Listings[k].ref = r => k <= i
OldTable(f) == [r \in {Listings[i].ref : i \in RawRows({f})} |-> OldRow(Listings[Latest(f, r)])]

CatalogInit ==
  /\ files = {} /\ cleaned = << >> /\ flag = FALSE /\ tx = Idle
  /\ vehicles \in {<< >>} \cup {OldTable(f) : f \in Files}
  /\ vectors = [r \in DOMAIN vehicles |-> 1]
  /\ adds = 0 /\ seeds = 0
  /\ raw = {} /\ writer = [r \in DOMAIN vehicles |-> 0] /\ loads = << >> /\ defaulted = {}

\* Without --force nothing is fetched when there is a file; with it the files of
\* the newer snapshot come beside the older ones or take their names.
Download ==
  /\ ~tx.on
  /\ \E f \in Files : files' \in {{f}, files \cup {f}} \ {files}
  /\ UNCHANGED <<cleaned, flag, vehicles, vectors, tx, adds, seeds, history>>

Clean ==
  /\ ~tx.on
  /\ files # {}
  /\ cleaned' = CleanRows(RawRows(files))
  /\ raw' = RawRows(files)
  /\ UNCHANGED <<files, flag, vehicles, vectors, tx, adds, seeds, writer, loads, defaulted>>

\* References of some rows of the data set.
Refs(rows) == {cleaned[i].ref : i \in rows}

StartLoad ==
  /\ ~tx.on
  /\ DOMAIN cleaned # {} /\ Len(loads) < MaxLoads
  /\ tx' = [on |-> TRUE, table |-> vehicles, left |-> DOMAIN cleaned]
  /\ loads' = Append(loads, Refs(DOMAIN cleaned))
  /\ UNCHANGED <<files, cleaned, flag, vehicles, vectors, adds, seeds, raw, writer, defaulted>>

\* The first rows of those left.
Chunk(rows) == {i \in rows : Cardinality({k \in rows : k < i}) < ChunkSize}
\* One INSERT may not touch a row twice, nor name a column that is not there.
Accepted(rows) == flag /\ \A i, k \in rows : cleaned[i].ref = cleaned[k].ref => i = k

\* ON CONFLICT DO UPDATE sets every column but the reference.
Excluded_KeepsFlag(row) ==
  IF row.ref \in DOMAIN vehicles THEN [row EXCEPT !.reliable = vehicles[row.ref].reliable] ELSE row
Excluded(row) == row
Upserted(table, rows) ==
  With(table, [r \in Refs(rows) |-> Excluded(cleaned[CHOOSE i \in rows : cleaned[i].ref = r])])

UpsertChunk_Commits ==
  /\ tx.on /\ tx.left # {} /\ Accepted(Chunk(tx.left))
  /\ vehicles' = Upserted(tx.table, Chunk(tx.left))
  /\ tx' = [tx EXCEPT !.table = vehicles', !.left = @ \ Chunk(@)]
  /\ writer' = With(writer, [r \in Refs(Chunk(tx.left)) |-> Len(loads)])
  /\ vectors' = With([r \in DOMAIN vehicles' |-> 0], vectors)
  /\ UNCHANGED <<files, cleaned, flag, adds, seeds, raw, loads, defaulted>>
UpsertChunk ==
  /\ tx.on /\ tx.left # {} /\ Accepted(Chunk(tx.left))
  /\ tx' = [tx EXCEPT !.table = Upserted(@, Chunk(tx.left)), !.left = @ \ Chunk(@)]
  /\ UNCHANGED <<files, cleaned, flag, vehicles, vectors, adds, seeds, history>>

CommitLoad ==
  /\ tx.on /\ tx.left = {}
  /\ vehicles' = tx.table
  /\ vectors' = With([r \in DOMAIN vehicles' |-> 0], vectors)
  /\ writer' = With(writer, [r \in loads[Len(loads)] |-> Len(loads)])
  /\ defaulted' = defaulted \ loads[Len(loads)]
  /\ tx' = Idle
  /\ UNCHANGED <<files, cleaned, flag, adds, seeds, raw, loads>>

\* The script dies, or an INSERT is refused: the transaction is rolled back.
AbandonLoad ==
  /\ tx.on
  /\ tx' = Idle
  /\ UNCHANGED <<files, cleaned, flag, vehicles, vectors, adds, seeds, history>>

\* The migration of the flag takes a lock the load holds: one after the other.
AddFlag ==
  /\ ~tx.on /\ ~flag /\ adds < MaxAdds
  /\ flag' = TRUE /\ adds' = adds + 1
  /\ vehicles' = [r \in DOMAIN vehicles |-> [vehicles[r] EXCEPT !.reliable = TRUE]]
  /\ defaulted' = DOMAIN vehicles
  /\ UNCHANGED <<files, cleaned, vectors, tx, seeds, raw, writer, loads>>
DropFlag ==
  /\ ~tx.on /\ flag
  /\ flag' = FALSE
  /\ UNCHANGED <<files, cleaned, vehicles, vectors, tx, adds, seeds, history>>

\* embed_listings: every vehicle without a vector gets one.
Embed ==
  /\ ~tx.on
  /\ vectors' = [r \in DOMAIN vehicles |-> IF vectors[r] = 0 THEN 1 ELSE vectors[r]]
  /\ UNCHANGED <<files, cleaned, flag, vehicles, tx, adds, seeds, history>>

\* The seed's conflict clause sets the description only; its vector is inserted anew.
Seed ==
  /\ ~tx.on /\ flag /\ seeds < MaxSeeds
  /\ seeds' = seeds + 1
  /\ vehicles' = With(vehicles, [r \in {row.ref : row \in Range(SeedRows)} |->
       LET row == CHOOSE s \in Range(SeedRows) : s.ref = r
       IN IF r \in DOMAIN vehicles THEN [vehicles[r] EXCEPT !.text = row.text] ELSE row])
  /\ vectors' = [r \in DOMAIN vehicles' |->
       (IF r \in DOMAIN vectors THEN vectors[r] ELSE 0)
       + (IF r \in {row.ref : row \in Range(SeedRows)} THEN 1 ELSE 0)]
  /\ writer' = With([r \in DOMAIN vehicles' |-> 0], writer)
  /\ UNCHANGED <<files, cleaned, flag, tx, adds, raw, loads, defaulted>>

-----------------------------------------------------------------------------
\* search_listings with a price filter, none of whose bounds need be given, and
\* with the equality filters folded into one on the make.
Matches(row, lo, hi, make) ==
  /\ (lo # None \/ hi # None) => row.price # None /\ row.reliable
  /\ lo # None => row.price >= 2 * lo
  /\ hi # None => row.price <= 2 * hi
  /\ make # None => row.make = make

Masked(row) == IF row.reliable THEN row ELSE [row EXCEPT !.price = None, !.low = None, !.high = None]

\* The statement names the flag, so without the column there is no result.
Found(lo, hi, make) ==
  IF ~flag THEN {}
  ELSE {Masked(vehicles[r]) : r \in {r \in DOMAIN vehicles : vectors[r] > 0 /\ Matches(vehicles[r], lo, hi, make)}}

CatalogNext ==
  \/ Download \/ Clean
  \/ StartLoad \/ UpsertChunk \/ CommitLoad \/ AbandonLoad
  \/ AddFlag \/ DropFlag \/ Embed \/ Seed

CatalogSpec == CatalogInit /\ [][CatalogNext]_catalogVars

-----------------------------------------------------------------------------
Bounds == PriceBounds \cup {None}

\* A search shows the $0.00 sentinel, or lets it pass a price filter, only for a
\* vehicle whose flag is still the migration's default: the "follow-up data
\* reload" the migration counts on repairs every row the new data set has, in
\* whatever order files, loads, seeds and migrations came.
SentinelHidden ==
  \A lo \in Bounds : \A hi \in Bounds : \A v \in Found(lo, hi, None) :
    v.ref \notin defaulted =>
      /\ 0 \notin {v.price, v.low, v.high}
      /\ (lo # None \/ hi # None) => v.price # None

\* Of near-duplicates one is kept: each row dropped has a kept twin before it,
\* and no two kept rows are twins, though similarity is not transitive.
OneOfEachKept ==
  /\ DOMAIN cleaned \subseteq raw
  /\ \A i \in raw \ DOMAIN cleaned : \E k \in DOMAIN cleaned : k < i /\ Twins(i, k)
  /\ \A i, k \in DOMAIN cleaned : k < i => ~Twins(i, k)

\* A load is in the table with all its rows or not at all, wherever it died:
\* if any row is its work, its other rows are, or a later load's.
LoadedWhole ==
  \A r \in DOMAIN writer : writer[r] > 0 =>
    \A q \in loads[writer[r]] : q \in DOMAIN vehicles /\ writer[q] >= writer[r]
=============================================================================
