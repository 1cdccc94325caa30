------------------------------- MODULE Epoch --------------------------------
(***************************************************************************)
(* Garbage collection of the Bw-tree.  A call publishes the epoch it began *)
(* in; a node taken out of the tree goes to the list of the thread that    *)
(* took it out, stamped with the epoch; it is freed when every thread has  *)
(* published a later epoch.  The threads are 0 .. thread_num - 1, their    *)
(* gc_id, and each has its own slot.  Reading the global epoch and writing *)
(* the slot are two steps, and the slots are read one after the other.     *)
(* That a node is taken out of the tree before it is retired, and retired  *)
(* once, is what the invariants RetiredUnreachable and FreedOnce of BwTree *)
(* say.                                                                    *)
(***************************************************************************)
EXTENDS Integers, Sequences

CONSTANTS
    thread_num,
    Nodes,                    \* the addresses the allocator hands out
    GC_NODE_COUNT_THREADHOLD,
    MaxEpoch                  \* bound on the global epoch

ASSUME ConstantsAssumption ==
    /\ thread_num \in Nat \ {0}
    /\ GC_NODE_COUNT_THREADHOLD \in Nat
    /\ MaxEpoch \in Nat

Threads == 0..(thread_num - 1)

VARIABLES
    epoch,             \* the global epoch
    last_active_epoch, \* the slot of each thread
    pc,                \* where each thread is in its call
    read,              \* the global epoch as the thread read it
    linked,            \* the nodes of the tree
    held,              \* the nodes a thread's snapshots may refer to
    limbo,             \* the node the thread has taken out and not yet retired
    garbage,           \* the list of each thread, oldest first
    min_epoch,         \* the summary of the slots made so far
    next               \* the first slot not yet summarized

vars == <<epoch, last_active_epoch, pc, read, linked, held, limbo, garbage, min_epoch, next>>

GarbageNode == [node : Nodes, delete_epoch : Nat]

InLimbo == UNION {limbo[t] : t \in Threads}

InGarbage(n) == \E t \in Threads : \E i \in DOMAIN garbage[t] : garbage[t][i].node = n

\* A node the allocator may hand out.
IsFree(n) == n \notin linked /\ n \notin InLimbo /\ ~InGarbage(n)

\* PrepareThreadLocal
Init ==
    /\ epoch = 0
    /\ last_active_epoch = [t \in Threads |-> 0]
    /\ pc = [t \in Threads |-> "out"]
    /\ read = [t \in Threads |-> 0]
    /\ linked = {}
    /\ held = [t \in Threads |-> {}]
    /\ limbo = [t \in Threads |-> {}]
    /\ garbage = [t \in Threads |-> <<>>]
    /\ min_epoch = [t \in Threads |-> 0]
    /\ next = [t \in Threads |-> 0]

\* ThreadFunc of the collector thread, every GC_INTERVAL.
IncreaseEpoch ==
    /\ epoch < MaxEpoch
    /\ epoch' = epoch + 1
    /\ UNCHANGED <<last_active_epoch, pc, read, linked, held, limbo, garbage, min_epoch, next>>

\* JoinEpoch and LeaveEpoch are both UpdateLastActiveEpoch.  A call that
\* leaves has dropped its snapshots.
ReadGlobalEpoch(t) ==
    /\ pc[t] \in {"out", "in"}
    /\ pc' = [pc EXCEPT ![t] = IF @ = "out" THEN "joining" ELSE "leaving"]
    /\ read' = [read EXCEPT ![t] = epoch]
    /\ held' = [held EXCEPT ![t] = {}]
    /\ UNCHANGED <<epoch, last_active_epoch, linked, limbo, garbage, min_epoch, next>>

\* Mutant: the epoch before the one read is published.
PublishPrevious(t) ==
    /\ pc[t] \in {"joining", "leaving"}
    /\ pc' = [pc EXCEPT ![t] = IF @ = "joining" THEN "in" ELSE "out"]
    /\ last_active_epoch' = [last_active_epoch EXCEPT ![t] = read[t] - 1]
    /\ UNCHANGED <<epoch, read, linked, held, limbo, garbage, min_epoch, next>>

UpdateLastActiveEpoch(t) ==
    /\ pc[t] \in {"joining", "leaving"}
    /\ pc' = [pc EXCEPT ![t] = IF @ = "joining" THEN "in" ELSE "out"]
    /\ last_active_epoch' = [last_active_epoch EXCEPT ![t] = read[t]]
    /\ UNCHANGED <<epoch, read, linked, held, limbo, garbage, min_epoch, next>>

\* A call reads an entry of the mapping table, links a new node, or replaces
\* a node it has a snapshot of by compare-and-swap.
GetNode(t, n) ==
    /\ pc[t] = "in" /\ n \in linked
    /\ held' = [held EXCEPT ![t] = @ \cup {n}]
    /\ UNCHANGED <<epoch, last_active_epoch, pc, read, linked, limbo, garbage, min_epoch, next>>

InstallNewNode(t, n) ==
    /\ pc[t] = "in" /\ IsFree(n)
    /\ linked' = linked \cup {n}
    /\ UNCHANGED <<epoch, last_active_epoch, pc, read, held, limbo, garbage, min_epoch, next>>

InstallNodeToReplace(t, n) ==
    /\ pc[t] = "in" /\ n \in linked /\ n \in held[t]
    /\ linked' = linked \ {n}
    /\ limbo' = [limbo EXCEPT ![t] = {n}]
    /\ pc' = [pc EXCEPT ![t] = "retiring"]
    /\ UNCHANGED <<epoch, last_active_epoch, read, held, garbage, min_epoch, next>>

\* Mutant: the youngest node first.
AddGarbageInFront(t, n) ==
    /\ pc[t] = "retiring" /\ limbo[t] = {n}
    /\ garbage' = [garbage EXCEPT ![t] = <<[node |-> n, delete_epoch |-> epoch]>> \o @]
    /\ limbo' = [limbo EXCEPT ![t] = {}]
    /\ pc' = [pc EXCEPT ![t] = IF Len(garbage[t]) + 1 > GC_NODE_COUNT_THREADHOLD
                               THEN "summarize" ELSE "in"]
    /\ next' = [next EXCEPT ![t] = 0]
    /\ UNCHANGED <<epoch, last_active_epoch, read, linked, held, min_epoch>>

\* The node goes to the thread's list with the epoch of this moment; a long
\* list is collected at once, in the middle of the call.
AddGarbageNode(t, n) ==
    /\ pc[t] = "retiring" /\ limbo[t] = {n}
    /\ garbage' = [garbage EXCEPT ![t] = Append(@, [node |-> n, delete_epoch |-> epoch])]
    /\ limbo' = [limbo EXCEPT ![t] = {}]
    /\ pc' = [pc EXCEPT ![t] = IF Len(garbage[t]) + 1 > GC_NODE_COUNT_THREADHOLD
                               THEN "summarize" ELSE "in"]
    /\ next' = [next EXCEPT ![t] = 0]
    /\ UNCHANGED <<epoch, last_active_epoch, read, linked, held, min_epoch>>

\* The next slot enters the minimum.
SummarizeGCEpoch(t) ==
    /\ pc[t] = "summarize" /\ next[t] < thread_num
    /\ LET ts == last_active_epoch[next[t]]
       IN  min_epoch' = [min_epoch EXCEPT ![t] = IF next[t] = 0 \/ ts < @ THEN ts ELSE @]
    /\ next' = [next EXCEPT ![t] = @ + 1]
    /\ pc' = [pc EXCEPT ![t] = IF next[t] + 1 = thread_num THEN "free" ELSE @]
    /\ UNCHANGED <<epoch, last_active_epoch, read, linked, held, limbo, garbage>>

\* Mutant: a node retired in the epoch of the oldest call is freed.
CanFreeSameEpoch(t) == garbage[t] # <<>> /\ Head(garbage[t]).delete_epoch <= min_epoch[t]

\* PerformGC frees from the front of the list up to the first node that is
\* too young.
CanFree(t) == garbage[t] # <<>> /\ Head(garbage[t]).delete_epoch < min_epoch[t]

PerformGC(t) ==
    /\ pc[t] = "free"
    /\ \/ /\ CanFree(t)
          /\ garbage' = [garbage EXCEPT ![t] = Tail(@)]
          /\ UNCHANGED pc
       \/ /\ ~CanFree(t)
          /\ pc' = [pc EXCEPT ![t] = "in"]
          /\ UNCHANGED garbage
    /\ UNCHANGED <<epoch, last_active_epoch, read, linked, held, limbo, min_epoch, next>>

\* ClearThreadLocalGarbage, DestroyThreadLocal and PrepareThreadLocal, which
\* only a thread that is alone may call.
UpdateThreadLocal ==
    /\ \A t \in Threads : pc[t] = "out"
    /\ garbage' = [t \in Threads |-> <<>>]
    /\ last_active_epoch' = [t \in Threads |-> 0]
    /\ UNCHANGED <<epoch, pc, read, linked, held, limbo, min_epoch, next>>

Step(t) ==
    \/ ReadGlobalEpoch(t) \/ UpdateLastActiveEpoch(t)
    \/ \E n \in Nodes : \/ GetNode(t, n) \/ InstallNewNode(t, n)
                        \/ InstallNodeToReplace(t, n) \/ AddGarbageNode(t, n)
    \/ SummarizeGCEpoch(t) \/ PerformGC(t)

Next == IncreaseEpoch \/ UpdateThreadLocal \/ \E t \in Threads : Step(t)

Spec == Init /\ [][Next]_vars

-----------------------------------------------------------------------------
(* Properties *)

PCs == {"out", "joining", "in", "leaving", "retiring", "summarize", "free"}

\* Types.
TypeOK ==
    /\ epoch \in Nat
    /\ last_active_epoch \in [Threads -> Nat]
    /\ pc \in [Threads -> PCs]
    /\ read \in [Threads -> Nat]
    /\ linked \in SUBSET Nodes
    /\ held \in [Threads -> SUBSET Nodes]
    /\ limbo \in [Threads -> SUBSET Nodes]
    /\ garbage \in [Threads -> Seq(GarbageNode)]
    /\ min_epoch \in [Threads -> Nat]
    /\ next \in [Threads -> 0..thread_num]

\* No use after free: a node a call may still refer to is not given back to the
\* allocator, though other threads retire and free nodes all the time.
NoUseAfterFree == \A t \in Threads : \A n \in held[t] : ~IsFree(n)

\* PerformGC stops at the first node it may not free, which is right only
\* because a list is always in the order of its epochs: when it stops, every
\* node left is too young.
NothingLeftBehind ==
    \A t \in Threads :
        (pc[t] = "free" /\ ~CanFree(t)) =>
            \A i \in DOMAIN garbage[t] : garbage[t][i].delete_epoch >= min_epoch[t]

-----------------------------------------------------------------------------
(* The inductive invariant: NoUseAfterFree and what it rests on *)

EpochsBehind ==
    \A t \in Threads :
        /\ last_active_epoch[t] <= epoch /\ read[t] <= epoch
        /\ pc[t] \in {"joining", "leaving"} => last_active_epoch[t] <= read[t]

HeldInCall ==
    \A t \in Threads :
        /\ held[t] # {} => pc[t] \in {"in", "retiring", "summarize", "free"}
        /\ limbo[t] # {} => pc[t] = "retiring"

\* A node of the tree has not been taken out by anyone.
LinkedApart ==
    /\ \A t \in Threads : \A n \in limbo[t] : n \notin linked
    /\ \A n \in linked : ~InGarbage(n)

\* What a collector has summarized so far bounds the slots from below.
SummaryBound ==
    \A t \in Threads :
        /\ pc[t] = "free" => next[t] = thread_num
        /\ \A u \in Threads : (pc[t] \in {"summarize", "free"} /\ u < next[t])
                                 => min_epoch[t] <= last_active_epoch[u]

\* A retired node that a call holds was retired after the call began.
HeldYoung ==
    \A t, u \in Threads : \A i \in DOMAIN garbage[u] :
        garbage[u][i].node \in held[t] => garbage[u][i].delete_epoch >= last_active_epoch[t]

ListSorted ==
    \A t \in Threads : \A i \in DOMAIN garbage[t] :
        /\ garbage[t][i].delete_epoch <= epoch
        /\ \A j \in DOMAIN garbage[t] :
               i <= j => garbage[t][i].delete_epoch <= garbage[t][j].delete_epoch

Inv ==
    /\ EpochsBehind /\ HeldInCall /\ LinkedApart /\ SummaryBound /\ HeldYoung
    /\ NoUseAfterFree /\ ListSorted
=============================================================================
