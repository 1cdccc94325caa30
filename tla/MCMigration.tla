---------------------------- MODULE MCMigration -----------------------------
(* The instances of Migration that TLC checks.                             *)
EXTENDS Migration, TLC

\* Values are interchangeable.
Symmetry == Permutations(Values)
=============================================================================
