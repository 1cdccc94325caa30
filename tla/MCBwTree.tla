------------------------------ MODULE MCBwTree ------------------------------
(* Instances of BwTree for TLC. *)
EXTENDS BwTree

KV(k) == [key |-> k, val |-> k]
Call(op, k) == [op |-> op, kv |-> KV(k)]
Fill(ks) == [i \in DOMAIN ks |-> Call("Insert", ks[i])]
Ops(ops, ks) == {Call(op, k) : op \in ops, k \in ks}

\* Splits and merges of leaves under concurrent changes.
Leaves == [load |-> Fill(<<1, 2, 3, 4>>), calls |-> Ops({"Insert", "Delete"}, {2, 3, 5}),
           bound |-> 2]

\* The second leaf is about to be merged into the first.
Underfull == [load |-> Fill(<<1, 2, 3, 4>>) \o <<Call("Delete", 4)>>,
              calls |-> {Call("Insert", 4), Call("Delete", 2), Call("Delete", 3)}, bound |-> 2]

\* A node merged away whose key a later split brings back.
SplitAgain == [load |-> Underfull.load, calls |-> {Call("Insert", 4)}, bound |-> 3]

\* Lookups while leaves split.
Lookups == [load |-> Fill(<<1, 2, 3>>),
            calls |-> Ops({"Insert"}, {4, 5}) \cup Ops({"GetValue"}, {2, 4}), bound |-> 3]

\* The root splits.
Growth == [load |-> Fill(<<1, 2, 3, 4, 5, 6, 7, 8>>), calls |-> Ops({"Insert"}, {1, 9}),
           bound |-> 3]

\* Three levels, with leaves and inner nodes about to be merged.
Shrink == [load |-> Fill(<<1, 2, 3, 4, 5, 6, 7, 8, 9>>)
                       \o <<Call("Delete", 9), Call("Delete", 8), Call("Delete", 7),
                             Call("Delete", 4)>>,
           calls |-> {Call("Delete", 6), Call("Insert", 4)}, bound |-> 2]

TwoLevels == {Leaves, Underfull, SplitAgain, Lookups, Growth}
ThreeLevels == {Shrink}
=============================================================================
