------------------------------ MODULE BwNodes -------------------------------
(***************************************************************************)
(* The nodes of the Bw-tree and the functions that read them.  A logical   *)
(* node is a chain of delta records over a base node; the records never    *)
(* change once they are linked, so every function here is pure.  `h` is    *)
(* the memory, a sequence of records, and a pointer is an index into it.   *)
(* Inner and leaf records of one kind share a constructor; the field       *)
(* `leaf` tells them apart.  A KeyNodeIDPair is [key, id], a KeyValuePair  *)
(* [key, val]; id 0 is INVALID_NODE_ID.  Positions in a base node count    *)
(* from 0, as the iterators of the code do.                                *)
(***************************************************************************)
EXTENDS Naturals, Sequences, FiniteSets, SequencesExt

Invalid == 0

Pair(k, id) == [key |-> k, id |-> id]

\* ~INVALID_NODE_ID, the node id in the low key pair of a split leaf.
NotAnID == 1000000

NodeKinds == {"Base", "Insert", "Delete", "Split", "Remove", "Merge", "Abort"}

-----------------------------------------------------------------------------
(* Memory *)

\* Memory that has been freed and is used again, or is not.
FreeCell == [type |-> "Free"]
LostCell == [type |-> "Lost"]

FreshAddress(h) ==
    LET free == {a \in DOMAIN h : h[a] = FreeCell}
    IN  IF free = {} THEN Len(h) + 1 ELSE Min(free)

Put(h, n) ==
    LET a == FreshAddress(h)
    IN  IF a > Len(h) THEN Append(h, n) ELSE [h EXCEPT ![a] = n]

-----------------------------------------------------------------------------
(* Constructors *)

ElasticNode(leaf, items, low, high, depth, count) ==
    [leaf |-> leaf, type |-> "Base", items |-> items,
     low |-> low, high |-> high, depth |-> depth, count |-> count]

\* Record n with the fields of f, which come first.
With(f, n) == [x \in DOMAIN f \cup DOMAIN n |-> IF x \in DOMAIN f THEN f[x] ELSE n[x]]

\* A delta record over node a: the key range is the one of a.
DeltaNode(h, a, type, depth, count) ==
    [leaf |-> h[a].leaf, type |-> type, child |-> a,
     low |-> h[a].low, high |-> h[a].high, depth |-> depth, count |-> count]

LeafInsertNode(h, a, kv, index) ==
    With([item |-> kv, index |-> index],
         DeltaNode(h, a, "Insert", h[a].depth + 1, h[a].count + 1))

LeafDeleteNode(h, a, kv, index) ==
    With([item |-> kv, index |-> index],
         DeltaNode(h, a, "Delete", h[a].depth + 1, h[a].count - 1))

InnerInsertNode(h, a, item, next, location) ==
    With([item |-> item, next |-> next, location |-> location],
         DeltaNode(h, a, "Insert", h[a].depth + 1, h[a].count + 1))

InnerDeleteNode(h, a, item, prev, next, location) ==
    With([item |-> item, prev |-> prev, next |-> next, location |-> location],
         DeltaNode(h, a, "Delete", h[a].depth + 1, h[a].count - 1))

\* The high key becomes the split key; `sibling` is the new right node.
SplitNode(h, a, item, sibling) ==
    With([item |-> item, high |-> item],
         DeltaNode(h, a, "Split", h[a].depth, h[a].count - sibling.count))

RemoveNode(h, a, id) ==
    With([removed |-> id], DeltaNode(h, a, "Remove", h[a].depth, h[a].count))

\* Mutant: the items of the right branch are not counted.
MergeNotCounted(h, a, key, right, id) ==
    With([item |-> Pair(key, id), right |-> right, high |-> h[right].high],
         DeltaNode(h, a, "Merge", h[a].depth + h[right].depth, h[a].count))

\* The high key becomes the one of the right branch.
MergeNode(h, a, key, right, id) ==
    With([item |-> Pair(key, id), right |-> right, high |-> h[right].high],
         DeltaNode(h, a, "Merge", h[a].depth + h[right].depth, h[a].count + h[right].count))

InnerAbortNode(h, a) == DeltaNode(h, a, "Abort", h[a].depth, h[a].count)

IsDeltaNode(n) == n.type # "Base"

-----------------------------------------------------------------------------
(* Searching *)

\* std::lower_bound and std::upper_bound on the positions s..e-1 of a base
\* node, by key.
LowerBound(items, s, e, k) ==
    CHOOSE p \in s..e : /\ p = e \/ items[p + 1].key >= k
                        /\ \A q \in s..(p - 1) : items[q + 1].key < k

UpperBound(items, s, e, k) ==
    CHOOSE p \in s..e : /\ p = e \/ items[p + 1].key > k
                        /\ \A q \in s..(p - 1) : items[q + 1].key <= k

LocateSeparatorByKey(k, n, s, e) ==
    n.items[UpperBound(n.items, s, e, k)].id

\* The base node the low key pair of a chain lives in (GetNodeHeader).
GetNodeHeader(h, a) ==
    LET header[x \in DOMAIN h] == IF h[x].type = "Base" THEN h[x] ELSE header[h[x].child]
    IN  header[a]

\* The range [s, e) of the base node is narrowed by the records passed on the
\* way down; a merge record starts it afresh for the branch it takes.
WalkInner(h, a, k, s, e) ==
    LET walk[x \in DOMAIN h, l \in Nat, r \in Nat] ==
            LET n == h[x]
                below == n.next.id = Invalid \/ k < n.next.key
                narrowed == IF k >= n.item.key
                            THEN walk[n.child, Max({l, n.location}), r]
                            ELSE walk[n.child, l, Min({r, n.location})]
            IN  CASE n.type = "Base" -> LocateSeparatorByKey(k, n, l, r)
                  [] n.type = "Insert" ->
                        IF k >= n.item.key /\ below THEN n.item.id ELSE narrowed
                  [] n.type = "Delete" ->
                        IF /\ n.low.id = n.prev.id \/ k >= n.prev.key
                           /\ below
                        THEN n.prev.id ELSE narrowed
                  [] n.type = "Split" -> walk[n.child, l, r]
                  [] n.type = "Merge" ->
                        LET b == IF k >= n.item.key THEN n.right ELSE n.child
                        IN  walk[b, 1, Len(GetNodeHeader(h, b).items)]
                  [] OTHER -> Invalid
    IN  walk[a, s, e]

\* The child of inner node a in which key k belongs.
NavigateInnerNode(h, a, k) ==
    WalkInner(h, a, k, 1, Len(GetNodeHeader(h, a).items))

\* Whether inner node a has a separator with exactly key k: its node id or
\* Invalid, and the position in the base node where k is or would go.
FindSeparator(h, a, k, lowId) ==
    LET find[x \in DOMAIN h] ==
            LET n == h[x]
            IN  CASE n.type \in {"Insert", "Delete"} ->
                        IF n.item.key = k
                        THEN [id |-> IF n.type = "Insert" THEN n.item.id ELSE Invalid,
                              location |-> n.location]
                        ELSE find[n.child]
                  [] n.type = "Base" ->
                        LET s == IF n.items[1].id = lowId THEN 1 ELSE 0
                            p == LowerBound(n.items, s, Len(n.items), k)
                        IN  [id |-> IF p < Len(n.items) /\ n.items[p + 1].key = k
                                    THEN n.items[p + 1].id ELSE Invalid,
                             location |-> p]
                  [] n.type = "Split" -> find[n.child]
                  [] n.type = "Merge" -> find[IF k >= n.item.key THEN n.right ELSE n.child]
                  [] OTHER -> [id |-> Invalid, location |-> 0]
    IN  find[a]

-----------------------------------------------------------------------------
(* Leaves *)

\* The search an insert or a delete makes for the pair kv: whether it is
\* there, and the index pair for the record about to be posted, the position
\* in the base node and whether the base node holds the pair there.
PairInBase(n, kv) ==
    LET p == LowerBound(n.items, 0, Len(n.items), kv.key)
        hit == {q \in p..(Len(n.items) - 1) : n.items[q + 1] = kv}
        after == UpperBound(n.items, p, Len(n.items), kv.key)
    IN  [found |-> hit # {},
         index |-> IF hit # {} THEN <<Min(hit), TRUE>> ELSE <<after, FALSE>>]

FindPair(h, a, kv) ==
    LET find[x \in DOMAIN h] ==
            LET n == h[x]
            IN  CASE n.type = "Base" -> PairInBase(n, kv)
                  [] n.type \in {"Insert", "Delete"} /\ n.item = kv ->
                        [found |-> n.type = "Insert", index |-> n.index]
                  [] n.type = "Merge" /\ kv.key >= n.item.key -> find[n.right]
                  [] OTHER -> find[n.child]
    IN  find[a]

\* The search GetValue makes: the values of key k, from the records on the way
\* down, of which the topmost of a value decides, and from the positions [s, e)
\* of the base node.  e = -1 in the code is NoEnd here.  A merge record does not
\* start the range afresh; a position past the end of the node it is then
\* applied to finds nothing.
NoEnd == 1000000

CollectValues(h, a, k, s, e) ==
    LET values[x \in DOMAIN h, l \in Nat, r \in Nat] ==
            LET n == h[x]
                end == Min({r, Len(n.items)})
                p == IF l >= end THEN l ELSE LowerBound(n.items, l, end, k)
                run == {q \in p..(Len(n.items) - 1) : \A i \in p..q : n.items[i + 1].key = k}
            IN  CASE n.type = "Base" -> {n.items[q + 1].val : q \in run}
                  [] n.type \in {"Insert", "Delete"} /\ n.item.key < k ->
                        values[n.child, n.index[1], r]
                  [] n.type \in {"Insert", "Delete"} /\ n.item.key > k ->
                        values[n.child, l, n.index[1]]
                  [] n.type = "Insert" /\ n.item.key = k ->
                        values[n.child, l, r] \cup {n.item.val}
                  [] n.type = "Delete" /\ n.item.key = k ->
                        values[n.child, l, r] \ {n.item.val}
                  [] n.type = "Merge" /\ k >= n.item.key -> values[n.right, l, r]
                  [] OTHER -> values[n.child, l, r]
    IN  values[a, s, e]

NavigateLeafNode(h, a, k) == CollectValues(h, a, k, 0, NoEnd)

-----------------------------------------------------------------------------
(* Consolidation.  `sss` holds the delta records met on the way down, by     *)
(* address; the topmost record of an item hides the ones below it.  Each     *)
(* branch of a merge takes the records below its own high key: `b` is the    *)
(* branch whose high key counts.                                             *)

Under(high, k) == high.id = Invalid \/ k < high.key

\* The separators of base node n with the records over it.
SepsOnBase(h, n, high, lowId, sss) ==
    LET deltas == {d \in sss : Under(high, h[d].item.key)}
        s == IF n.items[1].id = lowId THEN 1 ELSE 0
        e == IF high.id = Invalid THEN Len(n.items)
             ELSE LowerBound(n.items, 1, Len(n.items), high.key)
        base == {n.items[p + 1] : p \in s..(e - 1)}
    IN  {x \in base : \A d \in deltas : h[d].item.key # x.key}
            \cup {h[d].item : d \in {d \in deltas : h[d].type = "Insert"}}

CollectAllSepsOnInnerRecursive(h, a, lowId) ==
    LET seps[x \in DOMAIN h, b \in DOMAIN h, sss \in SUBSET DOMAIN h] ==
            LET n == h[x]
            IN  CASE n.type = "Base" -> SepsOnBase(h, n, h[b].high, lowId, sss)
                  [] n.type \in {"Insert", "Delete"} ->
                        seps[n.child, b, IF \E d \in sss : h[d].item.key = n.item.key
                                         THEN sss ELSE sss \cup {x}]
                  [] n.type = "Merge" ->
                        seps[n.child, n.child, sss]
                            \cup seps[n.right, n.right,
                                      {d \in sss : ~Under(h[n.child].high, h[d].item.key)}]
                  [] OTHER -> seps[n.child, b, sss]
    IN  seps[a, a, {}]

\* The items of a set in the order of their keys; the pairs of one key, whose
\* order means nothing, in the order of their values.
Before(x, y) == x.key < y.key \/ (x.key = y.key /\ "val" \in DOMAIN x /\ x.val < y.val)

ByKey(S) ==
    [i \in 1..Cardinality(S) |->
        CHOOSE x \in S : Cardinality({y \in S : Before(y, x)}) = i - 1]

\* The separators of the logical node, its low key pair first.
CollectAllSepsOnInner(h, a, depth) ==
    LET n == h[a]
        seps == CollectAllSepsOnInnerRecursive(h, a, n.low.id)
    IN  ElasticNode(FALSE, <<n.low>> \o ByKey(seps),
                    n.low, n.high, depth, n.count)

\* The pairs of base node n with the records over it.  A record knows the
\* position of the pair it replaces.
ValuesOnBase(h, n, high, sss) ==
    LET deltas == {d \in sss : Under(high, h[d].item.key)}
        e == IF high.id = Invalid THEN Len(n.items)
             ELSE LowerBound(n.items, 0, Len(n.items), high.key)
        overwritten == {h[d].index[1] : d \in {d \in deltas : h[d].index[2]}}
    IN  {n.items[p + 1] : p \in (0..(e - 1)) \ overwritten}
            \cup {h[d].item : d \in {d \in deltas : h[d].type = "Insert"}}

CollectAllValuesOnLeafRecursive(h, a) ==
    LET pairs[x \in DOMAIN h, b \in DOMAIN h, sss \in SUBSET DOMAIN h] ==
            LET n == h[x]
            IN  CASE n.type = "Base" -> ValuesOnBase(h, n, h[b].high, sss)
                  [] n.type \in {"Insert", "Delete"} ->
                        pairs[n.child, b, IF \E d \in sss : h[d].item = n.item
                                          THEN sss ELSE sss \cup {x}]
                  [] n.type = "Merge" ->
                        pairs[n.child, n.child, sss]
                            \cup pairs[n.right, n.right,
                                       {d \in sss : ~Under(h[n.child].high, h[d].item.key)}]
                  [] OTHER -> pairs[n.child, b, sss]
    IN  pairs[a, a, {}]

\* The pairs of the logical leaf in key order.
CollectAllValuesOnLeaf(h, a) ==
    LET n == h[a]
        kvs == CollectAllValuesOnLeafRecursive(h, a)
    IN  ElasticNode(TRUE, ByKey(kvs),
                    n.low, n.high, 0, n.count)

Consolidated(h, a) ==
    IF h[a].leaf THEN CollectAllValuesOnLeaf(h, a) ELSE CollectAllSepsOnInner(h, a, 0)

\* The separator to the left of the one key k belongs to: the second largest
\* of those not above k.  Invalid when there is none.
FindLeftSibling(h, a, k) ==
    LET items == CollectAllSepsOnInner(h, a, 0).items
        p == UpperBound(items, 1, Len(items), k)
    IN  IF p < 2 THEN Invalid ELSE items[p - 1].id

\* Mutant: the abort record is taken for the node.
AbortStays(h, a) == a

\* The node an abort record stands on.  The code would go on to the next record
\* if that were an abort record too, which it never is (AbortIsOwned).
UnderAbort(h, a) == IF h[a].type = "Abort" THEN h[a].child ELSE a

HasMerge(h, a) ==
    LET merge[x \in DOMAIN h] == \/ h[x].type = "Merge"
                                 \/ h[x].type # "Base" /\ merge[h[x].child]
    IN  merge[a]

-----------------------------------------------------------------------------
(* Splitting a base node *)

InnerSplitSibling(n) ==
    LET p == Len(n.items) \div 2
        items == SubSeq(n.items, p + 1, Len(n.items))
    IN  ElasticNode(FALSE, items, n.items[p + 1], n.high, 0, Len(items))

\* The position that divides a leaf without parting the pairs of one key, so
\* that both halves stay above the merge threshold; Len(items) when none does.
FindSplitPoint(n, lower) ==
    LET c == Len(n.items) \div 2
        k == n.items[c + 1].key
        \* the loop to the left stops at the first element whatever its key
        left == {q \in 0..(c - 1) : q = 0 \/ n.items[q + 1].key # k}
        l == Max(left) + 1
        right == {q \in (c + 1)..Len(n.items) : q = Len(n.items) \/ n.items[q + 1].key # k}
        r == Min(right)
    IN  IF l > lower THEN l
        ELSE IF Len(n.items) - r > lower THEN r
        ELSE Len(n.items)

LeafSplitSibling(n, lower) ==
    LET p == FindSplitPoint(n, lower)
        items == SubSeq(n.items, p + 1, Len(n.items))
    IN  IF items = <<>> THEN n
        ELSE ElasticNode(TRUE, items, Pair(items[1].key, NotAnID), n.high, 0, Len(items))

-----------------------------------------------------------------------------
(* Reclaiming *)

\* Mutant: the node below a remove record is freed with it.
FreeBelowRemove(h, a) ==
    LET below[x \in DOMAIN h] ==
            LET n == h[x]
                down == {n.child} \cup below[n.child]
            IN  CASE n.type \in {"Insert", "Delete", "Split", "Remove"} -> down
                  [] n.type = "Merge" -> down \cup {n.right} \cup below[n.right]
                  [] OTHER -> {}
    IN  {a} \cup below[a]

\* What FreeEpochDeltaChain frees: a chain down to its base node, both
\* branches of a merge, and nothing below a remove or an abort record.
FreeEpochDeltaChain(h, a) ==
    LET below[x \in DOMAIN h] ==
            LET n == h[x]
                down == {n.child} \cup below[n.child]
            IN  CASE n.type \in {"Insert", "Delete", "Split"} -> down
                  [] n.type = "Merge" -> down \cup {n.right} \cup below[n.right]
                  [] OTHER -> {}
    IN  {a} \cup below[a]
=============================================================================
