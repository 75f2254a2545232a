------------------------------ MODULE MCRetrieval ------------------------------
(* The data behind the two search tools. Nothing is shared by the policies'    *)
(* chunks and the vehicles, so a behaviour follows one of them and leaves the  *)
(* other as it was at the start: their interleavings would show nothing new.   *)
EXTENDS PolicySearch, Catalog

VARIABLE followed

retrievalVars == <<vars, catalogVars, followed>>

RetrievalInit ==
  /\ followed \in {"policies", "vehicles"}
  /\ Init /\ CatalogInit
  /\ followed = "policies" => vehicles = << >>

RetrievalNext ==
  \/ followed = "policies" /\ Next /\ UNCHANGED <<catalogVars, followed>>
  \/ followed = "vehicles" /\ CatalogNext /\ UNCHANGED <<vars, followed>>

RetrievalSpec == RetrievalInit /\ [][RetrievalNext]_retrievalVars

-----------------------------------------------------------------------------
\* The former texts are nearer to the query than the new ones.
MCContents == {<<"new", Blank, "more">>, <<"old", "older", "oldest">>, <<Blank>>}
MCSimilarity == [old |-> 9, older |-> 8, oldest |-> 7, new |-> 6, more |-> 5]
MCSize == [old |-> 4, older |-> 12, oldest |-> 5, new |-> 9, more |-> 3]
MCLimits == {-1, 0, 1, 2}

-----------------------------------------------------------------------------
Listing(file, ref, make, mileage, text, low, high) ==
  [file |-> file, ref |-> ref, make |-> make, mileage |-> mileage, text |-> text, low |-> low, high |-> high]

\* Two snapshots. The texts of the first form a chain a ~ b ~ c whose ends differ;
\* car5 says the same as car4 with a telephone number. In the second, car2 has
\* another valuation, and car4 is named twice: in two chunks when the snapshot is
\* loaded alone, in one, which the database refuses, when both are.
MCListings == <<
  Listing(1, "car1", 1, 10, {"a", "ad"}, 0, 0),
  Listing(1, "car2", 1, 10, {"b", "ad"}, 4, 6),
  Listing(1, "car3", 1, 10, {"c", "phone"}, None, None),
  Listing(1, "car4", 2, 10, {"a", "phone"}, 8, 8),
  Listing(2, "car2", 1, 20, {"b", "ad"}, 0, 0),
  Listing(2, "car4", 2, 20, {"a"}, None, 8),
  Listing(2, "car4", 2, 20, {"c"}, 0, 0),
  Listing(2, "car5", 2, 10, {"a", "[REDACTED]"}, 4, 4) >>
MCNear == LET a == {"a", "ad"} b == {"b", "ad"} c == {"c", "[REDACTED]"}
          IN {<<a, b>>, <<b, a>>, <<b, c>>, <<c, b>>}
MCNormalMake == <<1, 1>>
MCSeedRows == <<
  [ref |-> "ci1", make |-> 1, mileage |-> 5, text |-> {"a"}, low |-> 0, high |-> 0, price |-> 0, reliable |-> FALSE],
  [ref |-> "ci2", make |-> 1, mileage |-> 5, text |-> {"a"}, low |-> 4, high |-> 4, price |-> 8, reliable |-> TRUE]>>
================================================================================
