---------------------------- MODULE MCDataStore -----------------------------
(* The instances of DataStore that TLC checks.                             *)
EXTENDS DataStore

Db(b, n) == [backend |-> b, no_overwrite |-> n]

\* Those whose put is one step: all but LevelDB with no_overwrite.
AtomicDbs == {Db("map", FALSE), Db("map", TRUE), Db("leveldb", FALSE), Db("bdb", TRUE),
              Db("bdb", FALSE)}

\* One database of each kind.
OneOfEach == {Db("map", TRUE), Db("leveldb", TRUE), Db("bdb", FALSE)}

OneCall == [t \in Threads |-> 1]

\* One thread calls once, while the others call twice.
OneAmongTwo == LET one == CHOOSE t \in Threads : TRUE
               IN  [t \in Threads |-> IF t = one THEN 1 ELSE 2]
=============================================================================
