------------------------------ MODULE MCDatabase ------------------------------
(* The database's schema and the connections that rely on it: two customers,   *)
(* two connections, four rows. The application serves at the head revision;    *)
(* a migration runs while no connection is out and no row is written yet, so   *)
(* that the rows' and the schema's states are added and not multiplied.        *)
EXTENDS RowScope, Migrations, TLC

databaseVars == <<vars, migrationVars>>

Serving == version = 5 /\ ~running
Untouched ==
  /\ \A c \in Connections : phase[c] = "pooled"
  /\ parents = {} /\ children = {} /\ disclosed = {}

DatabaseInit == Init /\ MigrationsInit
DatabaseNext ==
  \/ Serving /\ Next /\ UNCHANGED migrationVars
  \/ Untouched /\ MigrationsNext /\ UNCHANGED vars
DatabaseSpec == DatabaseInit /\ [][DatabaseNext]_databaseVars

Symmetry == Permutations(Customers) \cup Permutations(Connections) \cup Permutations(RowIds)
===============================================================================
