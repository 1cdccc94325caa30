----------------------------- MODULE MCDataRpc ------------------------------
(* The instances of DataRpc that TLC checks.                               *)
EXTENDS DataRpc, TLC

CONSTANTS c1, c2

\* One client reads, and writes batches; the other writes single keys meanwhile.
OneWriter == c1 :> ((Single \ {"put", "erase"}) \cup Multi \cup Packed) @@ c2 :> {"put", "erase"}

OnePacker == c1 :> {"put_packed"}

\* Keys are interchangeable.
Symmetry == Permutations(Keys \ EmptyKeys)
=============================================================================
