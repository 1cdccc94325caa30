------------------------------- MODULE BwTree -------------------------------
(***************************************************************************)
(* The Bw-tree: threads that insert, delete and look up pairs in a tree    *)
(* whose nodes are changed by a compare-and-swap on the mapping table.     *)
(* An action is one access to shared memory (root_id or an entry of the    *)
(* mapping table) with the local work up to the next one; the local work   *)
(* is done by the operators that map a context to the context at its next  *)
(* access, `pc`.  A new node is private until it is linked, so allocating  *)
(* it and its id is part of the step that links it.                        *)
(***************************************************************************)
EXTENDS BwNodes

CONSTANTS
    Threads, None,
    Workloads, \* records [load, calls, bound]: the calls made one after the
               \* other at the start, those made concurrently after that,
               \* and how many of them
    LEAF_NODE_SIZE_UPPER_THRESHOLD, LEAF_NODE_SIZE_LOWER_THRESHOLD,
    INNER_NODE_SIZE_UPPER_THRESHOLD, INNER_NODE_SIZE_LOWER_THRESHOLD,
    LEAF_DELTA_CHAIN_LENGTH_THRESHOLD, INNER_DELTA_CHAIN_LENGTH_THRESHOLD

VARIABLES
    heap,          \* every record ever linked
    mapping_table, \* node id -> address; the next unused id is one past its end
    root_id,
    ctx,           \* the call and the Context of each thread
    garbage,       \* the chains handed to the epoch manager, a bag of [node, users]:
                   \* users are the threads that have been in a call since then
    content,       \* history: the pairs that calls have put in and not taken out
    answers,       \* history: the right answers during each thread's call
    workload, made

tree == <<heap, mapping_table, root_id, garbage>>
vars == <<heap, mapping_table, root_id, ctx, garbage, content, answers, workload, made>>

NoSnapshot == [id |-> Invalid, node |-> 0]

Idle == [pc |-> "idle", op |-> None, kv |-> None, res |-> None,
         cur |-> NoSnapshot, par |-> NoSnapshot, want |-> Invalid,
         stack |-> <<>>, index |-> <<>>]

Calls == UNION {w.calls \cup Range(w.load) : w \in Workloads}

D == INSTANCE Dictionary
     WITH call <- [t \in Threads |-> [op |-> ctx[t].op, kv |-> ctx[t].kv,
                                      res |-> ctx[t].res, answers |-> answers[t]]]

GetNode(id) == mapping_table[id]

\* What GetNode asserts of an id; an entry without a node is a null pointer, and
\* the thread that goes there crashes.
HasNode(id) == id \in DOMAIN mapping_table /\ mapping_table[id] # 0

Snapshot(id) == [id |-> id, node |-> mapping_table[id]]

-----------------------------------------------------------------------------
(* Local work *)

To(c, pc) == [c EXCEPT !.pc = pc]

Abort(c) == [c EXCEPT !.pc = "root", !.cur = NoSnapshot, !.par = NoSnapshot,
                      !.stack = <<>>, !.want = Invalid]

\* An assertion of the code fails.
Failed(c) == To(c, "failed")

\* GetValue never sets parent_snapshot: reading it is undefined.
IsReader(c) == c.op = "GetValue"
IsOnRootNode(c) == c.par.id = Invalid
IsOnLeftMostChild(h, c) == h[c.par.node].low.id = c.cur.id

Answered(c, r) == [c EXCEPT !.pc = "done", !.res = r]

\* At a leaf: the answer, or the record to post.
NavigateLeaf(h, c) ==
    LET f == FindPair(h, c.cur.node, c.kv)
    IN  IF IsReader(c) THEN Answered(c, D!Found(NavigateLeafNode(h, c.cur.node, c.kv.key)))
        ELSE IF f.found = (c.op = "Insert") THEN Answered(c, D!No)
        ELSE [c EXCEPT !.pc = "apply", !.index = f.index]

\* Mutant: the key is looked for in a node that has been split.
NavigateStays(h, c) ==
    IF h[c.cur.node].leaf THEN NavigateLeaf(h, c)
    ELSE [c EXCEPT !.pc = "load", !.want = NavigateInnerNode(h, c.cur.node, c.kv.key)]

\* NavigateSiblingChain, then one level down.
Navigate(h, c) ==
    LET n == h[c.cur.node]
    IN  IF n.high.id # Invalid /\ c.kv.key >= n.high.key
        THEN [c EXCEPT !.pc = "jump", !.want = n.high.id]
        ELSE IF n.leaf THEN NavigateLeaf(h, c)
        ELSE [c EXCEPT !.pc = "load", !.want = NavigateInnerNode(h, c.cur.node, c.kv.key)]

\* Mutant: the left node is merged with the removed one wherever it is.
LoadedAnywhere(h, c) == IF c.stack = <<>> THEN Navigate(h, c) ELSE To(c, "merge")

\* The end of LoadNodeID or JumpToNodeID.  Inside JumpToLeftSibling the left
\* node must still be next to the removed one.
Loaded(h, c) ==
    IF c.stack = <<>> THEN Navigate(h, c)
    ELSE IF h[c.cur.node].high.id # Head(c.stack).id THEN Abort(c)
    ELSE To(c, "merge")

AdjustNodeSize(h, c) ==
    LET n == h[c.cur.node]
        size == IF n.leaf THEN n.count ELSE Len(n.items)
        upper == IF n.leaf THEN LEAF_NODE_SIZE_UPPER_THRESHOLD ELSE INNER_NODE_SIZE_UPPER_THRESHOLD
        lower == IF n.leaf THEN LEAF_NODE_SIZE_LOWER_THRESHOLD ELSE INNER_NODE_SIZE_LOWER_THRESHOLD
    IN  IF IsDeltaNode(n) THEN Loaded(h, c)
        ELSE IF size >= upper
        THEN IF ~n.leaf THEN To(c, "peek")
             ELSE IF LeafSplitSibling(n, LEAF_NODE_SIZE_LOWER_THRESHOLD) = n
             THEN Loaded(h, c) ELSE To(c, "halve")
        ELSE IF size > lower THEN Loaded(h, c)
        ELSE IF IsReader(c) THEN To(c, "undefined")
        ELSE IF IsOnRootNode(c) THEN IF n.leaf THEN Failed(c) ELSE Loaded(h, c)
        ELSE IF IsOnLeftMostChild(h, c) THEN Loaded(h, c) ELSE To(c, "remove")

TryConsolidateNode(h, c) ==
    LET n == h[c.cur.node]
    IN  IF /\ IsDeltaNode(n)
           /\ n.depth >= IF n.leaf THEN LEAF_DELTA_CHAIN_LENGTH_THRESHOLD
                         ELSE INNER_DELTA_CHAIN_LENGTH_THRESHOLD
        THEN To(c, "consolidate") ELSE AdjustNodeSize(h, c)

\* A split record at the head of the chain: the parent must have a separator
\* for the new node, or a new root is needed.
FinishSplit(h, c) ==
    LET item == h[c.cur.node].item
        parent == h[c.par.node]
        found == FindSeparator(h, c.par.node, item.key, parent.low.id).id
    IN  IF IsOnRootNode(c) THEN To(c, "grow")
        ELSE IF ~Under(parent.high, item.key) THEN TryConsolidateNode(h, c)
        ELSE IF found = Invalid THEN To(c, "post")
        ELSE IF found = item.id THEN TryConsolidateNode(h, c)
        ELSE [c EXCEPT !.pc = "clash", !.want = found]

\* Mutant: a removed node is left for the thread that removed it.
NoHelp(h, c) == Abort(c)

\* A removed node: its left sibling is asked for, unless the parent shows none.
JumpToLeftSibling(h, c) ==
    IF IsOnRootNode(c) THEN Failed(c)
    ELSE IF IsOnLeftMostChild(h, c) THEN Abort(c)
    ELSE [c EXCEPT !.pc = "left", !.stack = <<[id |-> c.cur.id,
                                               right |-> h[c.cur.node].child,
                                               low |-> h[c.cur.node].low.key]>> \o @]

\* Mutant: the case of a removed leaf is missing.
FinishAllButLeafRemove(h, cc) ==
    LET c == [cc EXCEPT !.cur.node = UnderAbort(h, @)]
        n == h[c.cur.node]
    IN  IF n.type \in {"Remove", "Merge", "Split"} /\ IsReader(c) THEN To(c, "undefined")
        ELSE CASE n.type = "Remove" /\ ~n.leaf -> JumpToLeftSibling(h, c)
               [] n.type = "Merge" -> IF IsOnRootNode(c) THEN Failed(c) ELSE To(c, "merged")
               [] n.type = "Split" -> FinishSplit(h, c)
               [] OTHER -> TryConsolidateNode(h, c)

FinishPartialSMO(h, cc) ==
    LET c == [cc EXCEPT !.cur.node = UnderAbort(h, @)]
        type == h[c.cur.node].type
    IN  IF type \in {"Remove", "Merge", "Split"} /\ IsReader(c) THEN To(c, "undefined")
        ELSE CASE type = "Remove" -> JumpToLeftSibling(h, c)
               [] type = "Merge" -> IF IsOnRootNode(c) THEN Failed(c) ELSE To(c, "merged")
               [] type = "Split" -> FinishSplit(h, c)
               [] OTHER -> TryConsolidateNode(h, c)

FinishPartialSMOReadOptimized(h, cc) ==
    LET c == [cc EXCEPT !.cur.node = UnderAbort(h, @)]
    IN  IF h[c.cur.node].type = "Remove" THEN Abort(c) ELSE Navigate(h, c)

-----------------------------------------------------------------------------
(* Shared steps *)

At(t, pc) == ctx[t].pc = pc
Goes(t, c) == ctx' = [ctx EXCEPT ![t] = c]

Same == UNCHANGED <<content, answers, workload, made>>
OnlyContext == Same /\ UNCHANGED tree

\* Mutant: a store in place of the compare-and-swap.
CanAlwaysInstall(snap) == TRUE

\* InstallNodeToReplace: entry snap.id from snap.node to node n.
CanInstall(snap) == mapping_table[snap.id] = snap.node
New == FreshAddress(heap)
InstallNodeToReplace(snap, n) ==
    /\ heap' = Put(heap, n)
    /\ mapping_table' = [mapping_table EXCEPT ![snap.id] = New]

InCall == {t \in Threads : ctx[t].pc # "idle"}

\* AddGarbageNode.  The epoch it notes is not before the one any of these calls
\* joined in.
Retired(a) == garbage' = garbage (+) SetToBag({[node |-> a, users |-> InCall]})

IsRetired(a) == \E g \in BagToSet(garbage) : g.node = a

InitNodeLayout ==
    LET none == Pair(0, Invalid)
        low == Pair(0, 2)
    IN  /\ heap = <<ElasticNode(FALSE, <<low>>, low, none, 0, 1),
                    ElasticNode(TRUE, <<>>, none, none, 0, 0)>>
        /\ mapping_table = <<1, 2>>
        /\ root_id = 1

Init ==
    /\ InitNodeLayout
    /\ ctx = [t \in Threads |-> Idle]
    /\ garbage = EmptyBag
    /\ content = {}
    /\ answers = [t \in Threads |-> {}]
    /\ workload \in Workloads
    /\ made = 0

Quiet == \A t \in Threads : ctx[t].pc = "idle"

\* Mutant: the entry of a removed node stays.
KeepNodeID(retired) == mapping_table

InvalidateNodeID(retired) ==
    [i \in DOMAIN mapping_table |-> IF mapping_table[i] \in retired THEN 0 ELSE mapping_table[i]]

\* min_epoch passes the epoch of a chain only when every call of that time has left.
Collectable == {g \in BagToSet(garbage) : g.users = {}}

\* PerformGC: the chains whose time has come are freed and the entries of removed
\* nodes cleared, though calls that began since may be under way.  What is freed
\* beside a call is not used again, so that every later access to it shows.
Collect ==
    /\ Collectable # {}
    /\ LET retired == {g.node : g \in Collectable}
           freed == UNION {FreeEpochDeltaChain(heap, a) : a \in retired}
           cell == IF Quiet THEN FreeCell ELSE LostCell
       IN  /\ heap' = [a \in DOMAIN heap |-> IF a \in freed THEN cell ELSE heap[a]]
           /\ mapping_table' = InvalidateNodeID(retired)
    /\ garbage' = Restrict(garbage, BagToSet(garbage) \ Collectable)
    /\ UNCHANGED <<root_id, ctx>> /\ Same

\* A call begins: JoinEpoch and a fresh Context.  The calls of the load come
\* one at a time.
Begin(t) ==
    /\ At(t, "idle")
    /\ \E x \in IF made < Len(workload.load) THEN {workload.load[made + 1]} ELSE workload.calls :
          /\ made < Len(workload.load) => t = CHOOSE u \in Threads : TRUE
          /\ made <= Len(workload.load) => Quiet /\ garbage = EmptyBag
          /\ made < Len(workload.load) + workload.bound
          /\ Goes(t, [Idle EXCEPT !.pc = "root", !.op = x.op, !.kv = x.kv])
          /\ answers' = [answers EXCEPT ![t] = D!RightAnswers(x.op, x.kv, content)]
    /\ made' = made + 1
    /\ UNCHANGED <<tree, content, workload>>

\* root_id.load()
LoadRoot(t) ==
    /\ At(t, "root")
    /\ Goes(t, [ctx[t] EXCEPT !.pc = "load", !.want = root_id])
    /\ OnlyContext

LoadNodeID(t) ==
    /\ At(t, "load") /\ ~IsReader(ctx[t])
    /\ LET c == ctx[t]
       IN  Goes(t, IF HasNode(c.want)
                   THEN FinishPartialSMO(heap, [c EXCEPT !.par = c.cur, !.cur = Snapshot(c.want)])
                   ELSE Failed(c))
    /\ OnlyContext

LoadNodeIDReadOptimized(t) ==
    /\ At(t, "load") /\ IsReader(ctx[t])
    /\ LET c == ctx[t]
       IN  Goes(t, IF HasNode(c.want)
                   THEN FinishPartialSMOReadOptimized(heap, [c EXCEPT !.cur = Snapshot(c.want)])
                   ELSE Failed(c))
    /\ OnlyContext

\* A node never has a sibling of the other sort or itself for a sibling.
JumpToNodeID(t) ==
    /\ At(t, "jump")
    /\ LET c == ctx[t]
           d == [c EXCEPT !.cur = Snapshot(c.want)]
       IN  Goes(t, IF /\ HasNode(c.want)
                      /\ heap[d.cur.node].leaf = heap[c.cur.node].leaf
                      /\ c.cur.id # c.want
                   THEN FinishPartialSMO(heap, d) ELSE Failed(c))
    /\ OnlyContext

\* The parent is read again, then searched for the left sibling; one with a
\* merge record is consolidated first.
FindLeft(t) ==
    /\ At(t, "left")
    /\ LET c == ctx[t]
       IN  Goes(t, IF ~CanInstall(c.par) THEN Abort(c)
                   ELSE IF ~Under(heap[c.par.node].high, Head(c.stack).low) THEN Failed(c)
                   ELSE IF HasMerge(heap, c.par.node) THEN To(c, "find")
                   ELSE [c EXCEPT !.pc = "jump",
                            !.want = FindLeftSibling(heap, c.par.node, Head(c.stack).low)])
    /\ OnlyContext

FindLeftInMerged(t) ==
    /\ At(t, "find")
    /\ LET c == ctx[t]
           n == CollectAllSepsOnInner(heap, c.par.node, heap[c.par.node].depth + 1)
           to == [c EXCEPT !.pc = "jump",
                           !.want = FindLeftSibling(heap, c.par.node, Head(c.stack).low)]
       IN  \/ /\ CanInstall(c.par)
              /\ InstallNodeToReplace(c.par, n)
              /\ Retired(c.par.node)
              /\ Goes(t, [to EXCEPT !.par.node = New])
              /\ UNCHANGED root_id
           \/ /\ ~CanInstall(c.par)
              /\ Goes(t, to)
              /\ UNCHANGED tree
    /\ Same

\* Mutant: the removed node is retired while the parent still leads to it.
RetireBeforeUnlink(t) ==
    /\ At(t, "merge")
    /\ LET c == ctx[t]
           top == Head(c.stack)
       IN  \/ /\ CanInstall(c.cur)
              /\ InstallNodeToReplace(c.cur, MergeNode(heap, c.cur.node,
                                                 heap[c.cur.node].high.key, top.right, top.id))
              /\ Retired(mapping_table[top.id])
              /\ Goes(t, [c EXCEPT !.pc = "merged", !.cur.node = New, !.stack = Tail(@)])
              /\ UNCHANGED root_id
           \/ /\ ~CanInstall(c.cur)
              /\ Goes(t, Abort(c))
              /\ UNCHANGED tree
    /\ Same

\* PostLeafMergeNode and PostInnerMergeNode, on the left sibling.
PostMergeNode(t) ==
    /\ At(t, "merge")
    /\ LET c == ctx[t]
           top == Head(c.stack)
       IN  \/ /\ CanInstall(c.cur)
              /\ InstallNodeToReplace(c.cur, MergeNode(heap, c.cur.node,
                                                 heap[c.cur.node].high.key, top.right, top.id))
              /\ Goes(t, [c EXCEPT !.pc = "merged", !.cur.node = New, !.stack = Tail(@)])
              /\ UNCHANGED <<root_id, garbage>>
           \/ /\ ~CanInstall(c.cur)
              /\ Goes(t, Abort(c))
              /\ UNCHANGED tree
    /\ Same

\* The separator of a merged node leaves the parent.  The check of the parent
\* and the compare-and-swap both abort when the parent has changed.
PostInnerDeleteNode(t) ==
    /\ At(t, "merged")
    /\ LET c == ctx[t]
           n == heap[c.cur.node]
           f == FindSeparator(heap, c.par.node, n.item.key, heap[c.par.node].low.id)
           gone == GetNode(n.item.id)
           delete == InnerDeleteNode(heap, c.par.node, n.item, Pair(n.low.key, c.cur.id),
                                     heap[n.right].high, f.location)
       IN  \/ /\ ~CanInstall(c.par)
              /\ Goes(t, Abort(c))
              /\ UNCHANGED tree
           \/ /\ CanInstall(c.par) /\ f.id = Invalid
              /\ Goes(t, TryConsolidateNode(heap, c))
              /\ UNCHANGED tree
           \/ /\ CanInstall(c.par) /\ f.id # Invalid
              /\ InstallNodeToReplace(c.par, delete)
              /\ Retired(gone)
              /\ Goes(t, IF /\ Under(heap[c.par.node].high, n.item.key)
                            /\ f.id = n.item.id
                            /\ heap[gone].type = "Remove"
                         THEN [c EXCEPT !.pc = "tidy", !.par.node = New] ELSE Failed(c))
              /\ UNCHANGED root_id
    /\ Same

\* The separator of a new node enters the parent.
PostInnerInsertNode(t) ==
    /\ At(t, "post")
    /\ LET c == ctx[t]
           n == heap[c.cur.node]
           f == FindSeparator(heap, c.par.node, n.item.key, heap[c.par.node].low.id)
       IN  \/ /\ CanInstall(c.par)
              /\ InstallNodeToReplace(c.par, InnerInsertNode(heap, c.par.node, n.item,
                                                 heap[n.child].high, f.location))
              /\ Goes(t, [c EXCEPT !.pc = "tidy", !.par.node = New])
           \/ /\ ~CanInstall(c.par)
              /\ Goes(t, Abort(c))
              /\ UNCHANGED <<heap, mapping_table>>
    /\ UNCHANGED <<root_id, garbage>>
    /\ Same

\* A split root: a new root over the two halves.  The traversal starts again
\* whether it was installed or not; an id not used stays consumed.
InstallRootNode(t) ==
    /\ At(t, "grow")
    /\ LET c == ctx[t]
           first == Pair(0, c.cur.id)
           root == ElasticNode(FALSE, <<first, heap[c.cur.node].item>>, first,
                               Pair(0, Invalid), 0, 2)
       IN  /\ \/ /\ root_id = c.cur.id
                 /\ heap' = Put(heap, root)
                 /\ mapping_table' = Append(mapping_table, New)
                 /\ root_id' = Len(mapping_table) + 1
              \/ /\ root_id # c.cur.id
                 /\ mapping_table' = Append(mapping_table, 0)
                 /\ UNCHANGED <<heap, root_id>>
           /\ Goes(t, Abort(c))
    /\ UNCHANGED garbage
    /\ Same

\* The parent has the split key for another node, which must be a removed one.
CheckClash(t) ==
    /\ At(t, "clash")
    /\ Goes(t, IF heap[GetNode(ctx[t].want)].type = "Remove" THEN Abort(ctx[t]) ELSE Failed(ctx[t]))
    /\ OnlyContext

\* What follows a consolidation, of the thread's own or after a post on the parent.
AfterConsolidation(h, c) ==
    IF c.pc = "tidy" THEN TryConsolidateNode(h, c) ELSE AdjustNodeSize(h, c)

\* The current node is consolidated; a failure is ignored.
ConsolidateNode(t) ==
    /\ At(t, "consolidate") \/ At(t, "tidy")
    /\ LET c == ctx[t]
       IN  \/ /\ CanInstall(c.cur)
              /\ InstallNodeToReplace(c.cur, Consolidated(heap, c.cur.node))
              /\ Retired(c.cur.node)
              /\ Goes(t, AfterConsolidation(heap', [c EXCEPT !.cur.node = New]))
              /\ UNCHANGED root_id
           \/ /\ ~CanInstall(c.cur)
              /\ Goes(t, AfterConsolidation(heap, c))
              /\ UNCHANGED tree
    /\ Same

\* An inner node is not split in front of a removed child.
CheckSplitChild(t) ==
    /\ At(t, "peek")
    /\ LET c == ctx[t]
           first == InnerSplitSibling(heap[c.cur.node]).low.id
       IN  Goes(t, IF heap[GetNode(first)].type = "Remove" THEN Loaded(heap, c) ELSE To(c, "halve"))
    /\ OnlyContext

SplitNodeInTwo(t) ==
    /\ At(t, "halve")
    /\ LET c == ctx[t]
           n == heap[c.cur.node]
           sibling == IF n.leaf THEN LeafSplitSibling(n, LEAF_NODE_SIZE_LOWER_THRESHOLD)
                      ELSE InnerSplitSibling(n)
           id == Len(mapping_table) + 1
           withSibling == Put(heap, sibling)
           split == SplitNode(heap, c.cur.node, Pair(sibling.low.key, id), sibling)
       IN  \/ /\ CanInstall(c.cur)
              /\ heap' = Put(withSibling, split)
              /\ mapping_table' = Append([mapping_table EXCEPT
                                            ![c.cur.id] = FreshAddress(withSibling)], New)
              /\ Goes(t, Abort(c))
           \/ /\ ~CanInstall(c.cur)
              /\ mapping_table' = Append(mapping_table, 0)
              /\ Goes(t, Loaded(heap, c))
              /\ UNCHANGED heap
    /\ UNCHANGED <<root_id, garbage>>
    /\ Same

\* Mutant: the parent is not locked.
ParentNotLocked(t) ==
    /\ At(t, "remove")
    /\ LET c == ctx[t]
       IN  Goes(t, IF CanInstall(c.par) THEN [c EXCEPT !.pc = "drop", !.want = c.par.node]
                   ELSE Abort(c))
    /\ OnlyContext

\* A small node: the parent is locked by an abort record, the node gets a
\* remove record if it has not changed, and the parent is unlocked.
PostAbortOnParent(t) ==
    /\ At(t, "remove")
    /\ LET c == ctx[t]
       IN  \/ /\ CanInstall(c.par)
              /\ InstallNodeToReplace(c.par, InnerAbortNode(heap, c.par.node))
              /\ Goes(t, [c EXCEPT !.pc = "drop", !.want = New])
           \/ /\ ~CanInstall(c.par)
              /\ Goes(t, Abort(c))
              /\ UNCHANGED <<heap, mapping_table>>
    /\ UNCHANGED <<root_id, garbage>>
    /\ Same

PostRemoveNode(t) ==
    /\ At(t, "drop")
    /\ LET c == ctx[t]
       IN  \/ /\ CanInstall(c.cur)
              /\ InstallNodeToReplace(c.cur, RemoveNode(heap, c.cur.node, c.cur.id))
           \/ /\ ~CanInstall(c.cur)
              /\ UNCHANGED <<heap, mapping_table>>
    /\ Goes(t, To(ctx[t], "unabort"))
    /\ UNCHANGED <<root_id, garbage>>
    /\ Same

\* Mutant: the thread goes on without merging the node it has removed.
GoOnAfterRemove(t) ==
    /\ At(t, "unabort")
    /\ LET c == ctx[t]
       IN  /\ mapping_table' = [mapping_table EXCEPT ![c.par.id] =
                                   IF @ = c.want THEN c.par.node ELSE @]
           /\ Retired(c.want)
           /\ Goes(t, Loaded(heap, c))
    /\ UNCHANGED <<heap, root_id>>
    /\ Same

RemoveAbortOnParent(t) ==
    /\ At(t, "unabort")
    /\ LET c == ctx[t]
       IN  /\ mapping_table' = [mapping_table EXCEPT ![c.par.id] =
                                   IF @ = c.want THEN c.par.node ELSE @]
           /\ Retired(c.want)
           /\ Goes(t, IF GetNode(c.par.id) = c.want THEN Abort(c) ELSE Failed(c))
    /\ UNCHANGED <<heap, root_id>>
    /\ Same

\* The record of a call is posted on its leaf, which is when the call takes
\* effect; when the leaf has changed the call starts again with a new Context.
Post(t, n, pairs) ==
    /\ LET c == ctx[t]
       IN  \/ /\ CanInstall(c.cur)
              /\ InstallNodeToReplace(c.cur, n)
              /\ Goes(t, [Idle EXCEPT !.pc = "done", !.op = c.op, !.kv = c.kv, !.res = D!Yes])
              /\ content' = pairs
              /\ answers' = [u \in Threads |->
                     IF u = t \/ ctx[u].pc = "idle" THEN answers[u]
                     ELSE answers[u] \cup D!RightAnswers(ctx[u].op, ctx[u].kv, pairs)]
           \/ /\ ~CanInstall(c.cur)
              /\ Goes(t, [Idle EXCEPT !.pc = "root", !.op = c.op, !.kv = c.kv])
              /\ UNCHANGED <<heap, mapping_table, content, answers>>
    /\ UNCHANGED <<root_id, garbage, workload, made>>

Insert(t) ==
    /\ At(t, "apply") /\ ctx[t].op = "Insert"
    /\ LET c == ctx[t]
       IN  Post(t, LeafInsertNode(heap, c.cur.node, c.kv, c.index), content \cup {c.kv})

Delete(t) ==
    /\ At(t, "apply") /\ ctx[t].op = "Delete"
    /\ LET c == ctx[t]
       IN  Post(t, LeafDeleteNode(heap, c.cur.node, c.kv, c.index), content \ {c.kv})

\* LeaveEpoch.
Return(t) ==
    /\ At(t, "done")
    /\ Goes(t, Idle)
    /\ garbage' = BagOfAll(LAMBDA g : [g EXCEPT !.users = @ \ {t}], garbage)
    /\ answers' = [answers EXCEPT ![t] = {}]
    /\ UNCHANGED <<heap, mapping_table, root_id, content, workload, made>>

Step(t) ==
    \/ LoadRoot(t) \/ LoadNodeID(t) \/ LoadNodeIDReadOptimized(t) \/ JumpToNodeID(t)
    \/ FindLeft(t) \/ FindLeftInMerged(t) \/ PostMergeNode(t) \/ PostInnerDeleteNode(t)
    \/ PostInnerInsertNode(t) \/ InstallRootNode(t) \/ CheckClash(t)
    \/ ConsolidateNode(t) \/ CheckSplitChild(t) \/ SplitNodeInTwo(t)
    \/ PostAbortOnParent(t) \/ PostRemoveNode(t) \/ RemoveAbortOnParent(t)
    \/ Insert(t) \/ Delete(t) \/ Return(t)

\* All calls have returned; a thread that read an uninitialized snapshot stays
\* where it is.
Finished == (\A t \in Threads : ctx[t].pc \in {"idle", "undefined"}) /\ UNCHANGED vars

Next == Collect \/ Finished \/ \E t \in Threads : Begin(t) \/ Step(t)

\* Weak fairness of Step(t), with its ENABLED written out: a thread in a call
\* always has a step, and the step changes its context.
Fairness(t) ==
    \/ []<>(ctx[t].pc \in {"idle", "failed", "undefined"})
    \/ []<><<ctx'[t] # ctx[t]>>_vars

Spec == Init /\ [][Next]_vars /\ \A t \in Threads : Fairness(t)

-----------------------------------------------------------------------------
(* Properties *)

PCs == {"idle", "root", "load", "jump", "left", "find", "merge", "merged", "post", "tidy",
        "grow", "clash", "consolidate", "peek", "halve", "remove", "drop", "unabort",
        "apply", "done", "failed", "undefined"}

\* A record that has not been freed.
InUse(a) == a \in DOMAIN heap /\ heap[a].type \in NodeKinds

\* No entry of the mapping table refers to freed memory.
EntriesInUse == \A i \in DOMAIN mapping_table : mapping_table[i] # 0 => InUse(mapping_table[i])

\* Types: every entry in use and every snapshot a thread holds is a record that
\* has not been freed, with counters that have not wrapped below zero.
TypeOK ==
    /\ root_id \in DOMAIN mapping_table
    /\ EntriesInUse
    /\ \A a \in DOMAIN heap :
           heap[a].type \in NodeKinds => heap[a].count \in Nat /\ heap[a].depth \in Nat
    /\ \A t \in Threads :
          /\ ctx[t].pc \in PCs
          /\ \A s \in {ctx[t].cur, ctx[t].par} :
                s = NoSnapshot \/ InUse(s.node)

\* Insert and Delete are a linearizable dictionary, whatever splits, merges and
\* consolidations other threads have under way; so is GetValue beside splits and
\* consolidations.  A GetValue beside a merge is left out: one that passes a merge
\* record can miss a pair (bwtree.h:4375), so the workload with lookups has no
\* leaf that could be merged.
ImplementsDictionary == D!Spec

\* No assertion of the traversal fails: a node met with a remove or a merge
\* record has a parent, a sibling is another node of the same level, the key of
\* a structure change lies in the parent's range, the parent's separator is the
\* one expected, and an abort record is removed by the thread that posted it.
\* Left out is a thread that read root_id before the root split and meets a remove
\* or merge record on the old root, for which it has no parent: the assertion of
\* GetLatestParentNodeSnapshot (bwtree.h:5159, called at 5989 for one) then fails.
\* No workload has a root that splits before a removal on that level.
NoAssertionFails == \A t \in Threads : ctx[t].pc # "failed"

\* The pairs of the leaves, from the first one along the links to the right.
PairsFrom(id) ==
    LET pairs[i \in DOMAIN mapping_table] ==
            LET n == CollectAllValuesOnLeaf(heap, mapping_table[i])
            IN  Range(n.items) \cup IF n.high.id = Invalid THEN {} ELSE pairs[n.high.id]
    IN  pairs[id]

\* The leaves always hold the pairs put in and not taken out: no structure
\* change loses one, resurrects one or overwrites a concurrent record.
LeavesHoldContent == PairsFrom(2) = content

\* The entries of nodes not yet retired.
LiveIds ==
    LET retired == {g.node : g \in BagToSet(garbage)}
    IN  {i \in DOMAIN mapping_table : mapping_table[i] \notin retired \cup {0}}

\* The item count each record carries is the number of items consolidation
\* finds, through splits and merges (the assertions at the end of
\* CollectAllSepsOnInner and CollectAllValuesOnLeaf).
CountsExact ==
    \A i \in LiveIds :
        LET n == Consolidated(heap, mapping_table[i]) IN Len(n.items) = n.count

\* Everything a chain refers to.
Chain(a) ==
    LET below[x \in DOMAIN heap] ==
            LET n == heap[x]
            IN  (IF n.type = "Base" THEN {} ELSE {n.child} \cup below[n.child])
                    \cup (IF n.type = "Merge" THEN {n.right} \cup below[n.right] ELSE {})
    IN  {a} \cup below[a]

\* The threads between PostAbortOnParent and RemoveAbortOnParent.
HoldsParent(t) == ctx[t].pc \in {"drop", "unabort"}

\* The records a thread may still read or compare with: what is below its
\* snapshots, the branch it is going to merge and its abort record.
MayRead(t) ==
    LET c == ctx[t]
        held == {c.cur.node, c.par.node} \cup {x.right : x \in Range(c.stack)}
                    \cup IF HoldsParent(t) THEN {c.want} ELSE {}
    IN  UNION {Chain(a) : a \in held \ {0}}

\* FreeEpochDeltaChain frees no record twice, none that a node in use still
\* refers to and none that a call under way may read, though chains are handed
\* in by several threads and share records (the right branch of a merge, the
\* node below a remove record) and the calls that began later go on.  So no
\* snapshot outlives its memory, and no compare-and-swap takes a new record at
\* an old address for the one it read.
FreedOnce ==
    LET Freed(g) == [of |-> g, chain |-> FreeEpochDeltaChain(heap, g.node)]
        freed == {Freed(g) : g \in BagToSet(garbage)}
        all == UNION {f.chain : f \in freed}
    IN  /\ \A g \in BagToSet(garbage) : garbage[g] = 1
        /\ \A f, g \in freed : f # g => f.chain \cap g.chain = {}
        /\ \A i \in LiveIds : Chain(mapping_table[i]) \cap all = {}
        /\ \A t \in Threads, f \in freed : f.of.users = {} => MayRead(t) \cap f.chain = {}

Links(i) ==
    LET n == Consolidated(heap, mapping_table[i])
    IN  ({n.high.id} \ {Invalid}) \cup IF n.leaf THEN {} ELSE {x.id : x \in Range(n.items)}

\* A node is retired only when nothing in the tree leads to it: a traversal that
\* begins later cannot meet it, which is what freeing it an epoch later needs.
RetiredUnreachable ==
    LET live == LiveIds IN root_id \in live /\ \A i \in live : Links(i) \subseteq live

\* When every call has returned there is no remove and no abort record: the
\* thread that posted one, or one that helps, has finished the change
\* (FreeNodeByPointer takes them for impossible).
QuiescentClean ==
    Quiet => \A i \in LiveIds : heap[mapping_table[i]].type \notin {"Remove", "Abort"}

IsType(i, type) == mapping_table[i] # 0 /\ heap[mapping_table[i]].type = type

\* The thread's own abort record heads the entry of the parent, on the very node
\* the thread found there, which is itself neither locked nor removed.
OwnsParent(t) ==
    LET c == ctx[t]
    IN  /\ c.par.id \in DOMAIN mapping_table
        /\ IsType(c.par.id, "Abort") /\ mapping_table[c.par.id] = c.want
        /\ heap[c.want].child = c.par.node
        /\ heap[c.par.node].type \notin {"Abort", "Remove"}

\* The abort record is a lock on the parent: whoever removes a node owns the
\* parent's entry, and every abort record in the mapping table is one thread's.
\* So no other thread changes the parent meanwhile, and "this CAS must succeed"
\* of RemoveAbortOnParent is true.
AbortIsOwned ==
    /\ \A t \in Threads : HoldsParent(t) => OwnsParent(t)
    /\ \A i \in DOMAIN mapping_table : IsType(i, "Abort") =>
          \E t \in Threads : HoldsParent(t) /\ ctx[t].par.id = i
    /\ \A t, u \in Threads :
          HoldsParent(t) /\ HoldsParent(u) /\ ctx[t].par.id = ctx[u].par.id => t = u

\* The inductive invariant behind AbortIsOwned: memory and mapping table are
\* sequences; a snapshot is of a node in use and never of an abort record, a
\* parent's never of a remove record either, and the current node's only while
\* its left sibling is looked for; and a context has the snapshots that its next
\* step takes for granted.
MemoryOK == heap \in Seq(Range(heap)) /\ mapping_table \in Seq(Nat)

Held(h, m, s) ==
    /\ s.id \in DOMAIN m
    /\ s.node \in DOMAIN h /\ h[s.node].type \in NodeKinds \ {"Abort"}

MayBeRemoved == {"left", "find", "jump", "failed", "undefined"}
NeedsParent == {"left", "find", "merge", "merged", "post", "remove", "drop", "unabort"}
NeedsNode == NeedsParent \cup {"jump", "tidy", "grow", "clash", "consolidate", "peek", "halve",
                               "apply"}

ContextOK(h, m, c) ==
    /\ DOMAIN c = DOMAIN Idle
    /\ c.pc \in PCs
    /\ {c.cur, c.par} \subseteq [id : Nat, node : Nat]
    /\ c.cur = NoSnapshot \/ Held(h, m, c.cur)
    /\ c.par = NoSnapshot \/ (Held(h, m, c.par) /\ h[c.par.node].type # "Remove")
    /\ c.pc \in MayBeRemoved \/ c.cur = NoSnapshot \/ h[c.cur.node].type # "Remove"
    /\ c.pc = "idle" => c.cur = NoSnapshot /\ c.par = NoSnapshot
    /\ c.pc \in NeedsNode => c.cur # NoSnapshot
    /\ c.pc \in NeedsParent \/ c.stack # <<>> => c.par # NoSnapshot
    /\ c.pc \in {"root", "load"} => c.stack = <<>>

ContextsOK ==
    /\ ctx = [t \in Threads |-> ctx[t]]
    /\ \A t \in Threads : ContextOK(heap, mapping_table, ctx[t])

LockInv == MemoryOK /\ EntriesInUse /\ ContextsOK /\ AbortIsOwned

\* A remove record is the last of its node: nobody posts on it, consolidates it
\* or takes it away, so every thread that meets the node finds the same branch
\* to merge, until the collector clears the entry of the retired node.
RemovedIsFrozen ==
    [][\A i \in DOMAIN mapping_table : IsType(i, "Remove") =>
          \/ /\ mapping_table'[i] = mapping_table[i]
             /\ heap'[mapping_table[i]] = heap[mapping_table[i]]
          \/ IsRetired(mapping_table[i]) /\ mapping_table'[i] = 0]_vars

\* Every call returns: a thread that aborts and starts again is not kept from
\* its leaf for ever.  Reading an uninitialized snapshot ends the model of a call.
EveryCallReturns ==
    \A t \in Threads : ctx[t].pc # "idle" ~> ctx[t].pc \in {"idle", "undefined"}
=============================================================================
