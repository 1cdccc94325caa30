----------------------------- MODULE EpochProofs ----------------------------
(***************************************************************************)
(* Proofs about Epoch, for any number of threads, nodes and epochs.        *)
(***************************************************************************)
EXTENDS Epoch, TLAPS

LEMMA ThreadsFact == /\ Threads \subseteq Nat
                     /\ \A t \in Threads : t < thread_num
BY ConstantsAssumption DEF Threads

\* The tail of a list: its entries are the later entries of the list.
LEMMA TailFacts ==
    ASSUME NEW S, NEW s \in Seq(S), s # <<>>
    PROVE  /\ Tail(s) \in Seq(S)
           /\ Head(s) = s[1] /\ 1 \in DOMAIN s
           /\ \A i \in DOMAIN Tail(s) : i + 1 \in DOMAIN s /\ Tail(s)[i] = s[i + 1]
           /\ \A i \in DOMAIN s : i # 1 => i - 1 \in DOMAIN Tail(s) /\ Tail(s)[i - 1] = s[i]
OBVIOUS

LEMMA AppendFacts ==
    ASSUME NEW S, NEW s \in Seq(S), NEW e \in S
    PROVE  /\ Append(s, e) \in Seq(S)
           /\ Len(s) + 1 \in DOMAIN Append(s, e) /\ Append(s, e)[Len(s) + 1] = e
           /\ \A i \in DOMAIN s : i \in DOMAIN Append(s, e) /\ Append(s, e)[i] = s[i]
           /\ \A i \in DOMAIN Append(s, e) : i \in DOMAIN s \/ i = Len(s) + 1
           /\ \A i \in DOMAIN s : i < Len(s) + 1
OBVIOUS

-----------------------------------------------------------------------------
(* Types *)

\* Types, from the start and in every step.
THEOREM TypeCorrect == Spec => []TypeOK
<1>1. Init => TypeOK
  BY ConstantsAssumption DEF Init, TypeOK, PCs, Threads
<1>2. TypeOK /\ [Next]_vars => TypeOK'
  <2> SUFFICES ASSUME TypeOK, [Next]_vars PROVE TypeOK'
    OBVIOUS
  <2> USE DEF TypeOK, PCs
  <2>1. CASE IncreaseEpoch
    BY <2>1 DEF IncreaseEpoch
  <2>2. CASE UpdateThreadLocal
    BY <2>2 DEF UpdateThreadLocal
  <2>3. ASSUME NEW t \in Threads, ReadGlobalEpoch(t) PROVE TypeOK'
    BY <2>3 DEF ReadGlobalEpoch
  <2>4. ASSUME NEW t \in Threads, UpdateLastActiveEpoch(t) PROVE TypeOK'
    BY <2>4 DEF UpdateLastActiveEpoch
  <2>5. ASSUME NEW t \in Threads, NEW n \in Nodes, GetNode(t, n) PROVE TypeOK'
    BY <2>5 DEF GetNode
  <2>6. ASSUME NEW t \in Threads, NEW n \in Nodes, InstallNewNode(t, n) PROVE TypeOK'
    BY <2>6 DEF InstallNewNode
  <2>7. ASSUME NEW t \in Threads, NEW n \in Nodes, InstallNodeToReplace(t, n) PROVE TypeOK'
    BY <2>7 DEF InstallNodeToReplace
  <2>8. ASSUME NEW t \in Threads, NEW n \in Nodes, AddGarbageNode(t, n) PROVE TypeOK'
    <3>1. [node |-> n, delete_epoch |-> epoch] \in GarbageNode
      BY DEF GarbageNode
    <3>2. garbage' \in [Threads -> Seq(GarbageNode)]
      BY <2>8, <3>1, AppendFacts DEF AddGarbageNode
    <3> QED BY <2>8, <3>2, ConstantsAssumption DEF AddGarbageNode
  <2>9. ASSUME NEW t \in Threads, SummarizeGCEpoch(t) PROVE TypeOK'
    <3>1. next[t] \in Threads
      BY <2>9, ConstantsAssumption DEF SummarizeGCEpoch, Threads
    <3>2. last_active_epoch[next[t]] \in Nat
      BY <3>1
    <3>3. min_epoch' \in [Threads -> Nat]
      BY <2>9, <3>2 DEF SummarizeGCEpoch
    <3>4. next' \in [Threads -> 0..thread_num] /\ pc' \in [Threads -> PCs]
      BY <2>9, ConstantsAssumption DEF SummarizeGCEpoch
    <3> QED BY <2>9, <3>3, <3>4 DEF SummarizeGCEpoch
  <2>10. ASSUME NEW t \in Threads, PerformGC(t) PROVE TypeOK'
    <3>1. CASE CanFree(t) /\ garbage' = [garbage EXCEPT ![t] = Tail(@)] /\ UNCHANGED pc
      <4>1. garbage' \in [Threads -> Seq(GarbageNode)]
        BY <3>1, TailFacts DEF CanFree
      <4> QED BY <2>10, <3>1, <4>1 DEF PerformGC
    <3>2. CASE ~CanFree(t) /\ pc' = [pc EXCEPT ![t] = "in"] /\ UNCHANGED garbage
      BY <2>10, <3>2 DEF PerformGC
    <3> QED BY <2>10, <3>1, <3>2 DEF PerformGC
  <2>11. CASE UNCHANGED vars
    BY <2>11 DEF vars
  <2> QED
    BY <2>1, <2>2, <2>3, <2>4, <2>5, <2>6, <2>7, <2>8, <2>9, <2>10, <2>11 DEF Next, Step
<1> QED BY <1>1, <1>2, PTL DEF Spec

-----------------------------------------------------------------------------
(* Safety *)

LEMMA InvInit == Init => Inv
<1> SUFFICES ASSUME Init PROVE Inv
  OBVIOUS
<1>1. \A n : ~InGarbage(n)
  BY DEF Init, InGarbage
<1> QED
  BY <1>1 DEF Init, Inv, EpochsBehind, HeldInCall, LinkedApart, SummaryBound, HeldYoung,
              NoUseAfterFree, ListSorted

\* A step that leaves the nodes and the lists alone.
LEMMA SameNodes ==
    ASSUME Inv, UNCHANGED <<linked, limbo, garbage>>
    PROVE  LinkedApart' /\ (\A n : IsFree(n)' = IsFree(n))
BY DEF Inv, LinkedApart, InGarbage, IsFree, InLimbo

LEMMA EntryTypes ==
    ASSUME TypeOK, NEW t \in Threads, NEW i \in DOMAIN garbage[t]
    PROVE  garbage[t][i].node \in Nodes /\ garbage[t][i].delete_epoch \in Nat
<1>1. garbage[t] \in Seq(GarbageNode)
  BY DEF TypeOK
<1>2. garbage[t][i] \in GarbageNode
  BY <1>1
<1> QED BY <1>2 DEF GarbageNode

LEMMA InvIncreaseEpoch ==
    ASSUME TypeOK, Inv, IncreaseEpoch PROVE Inv'
<1> USE DEF TypeOK, Inv, IncreaseEpoch
<1>1. LinkedApart' /\ (\A n : IsFree(n)' = IsFree(n))
  BY SameNodes
<1>2. EpochsBehind' BY DEF EpochsBehind
<1>3. HeldInCall' BY DEF HeldInCall
<1>4. SummaryBound' BY DEF SummaryBound
<1>5. HeldYoung' BY DEF HeldYoung
<1>6. NoUseAfterFree' BY <1>1 DEF NoUseAfterFree
<1>7. ListSorted'
  <2>1. \A t \in Threads : \A i \in DOMAIN garbage[t] : garbage[t][i].delete_epoch \in Nat
    BY EntryTypes
  <2> QED BY <2>1 DEF ListSorted
<1> QED BY <1>1, <1>2, <1>3, <1>4, <1>5, <1>6, <1>7

LEMMA InvUpdateThreadLocal ==
    ASSUME TypeOK, Inv, UpdateThreadLocal PROVE Inv'
<1> USE DEF TypeOK, Inv, UpdateThreadLocal
<1>1. \A t \in Threads : pc[t] = "out" /\ held[t] = {} /\ limbo[t] = {}
  BY DEF HeldInCall
<1>2. \A n : ~InGarbage(n)'
  BY DEF InGarbage
<1>3. EpochsBehind' BY <1>1 DEF EpochsBehind
<1>4. HeldInCall' BY DEF HeldInCall
<1>5. LinkedApart' BY <1>2 DEF LinkedApart
<1>6. SummaryBound' BY <1>1 DEF SummaryBound
<1>7. HeldYoung' BY DEF HeldYoung
<1>8. NoUseAfterFree' BY <1>1 DEF NoUseAfterFree
<1>9. ListSorted' BY DEF ListSorted
<1> QED BY <1>3, <1>4, <1>5, <1>6, <1>7, <1>8, <1>9

LEMMA InvReadGlobalEpoch ==
    ASSUME TypeOK, Inv, NEW t \in Threads, ReadGlobalEpoch(t) PROVE Inv'
<1> USE DEF TypeOK, Inv, ReadGlobalEpoch
<1>1. LinkedApart' /\ (\A n : IsFree(n)' = IsFree(n))
  BY SameNodes
<1>2. EpochsBehind' BY DEF EpochsBehind
<1>3. HeldInCall' BY DEF HeldInCall
<1>4. SummaryBound' BY DEF SummaryBound
<1>5. HeldYoung' BY DEF HeldYoung
<1>6. NoUseAfterFree' BY <1>1 DEF NoUseAfterFree
<1>7. ListSorted' BY DEF ListSorted
<1> QED BY <1>1, <1>2, <1>3, <1>4, <1>5, <1>6, <1>7

\* The slot of t grows; t holds nothing.
LEMMA InvUpdateLastActiveEpoch ==
    ASSUME TypeOK, Inv, NEW t \in Threads, UpdateLastActiveEpoch(t) PROVE Inv'
<1> USE DEF TypeOK, Inv, UpdateLastActiveEpoch
<1>1. LinkedApart' /\ (\A n : IsFree(n)' = IsFree(n))
  BY SameNodes
<1>2. held[t] = {} /\ limbo[t] = {}
  BY DEF HeldInCall
<1>3. \A u \in Threads : last_active_epoch[u] <= last_active_epoch'[u]
  BY DEF EpochsBehind
<1>4. EpochsBehind' BY DEF EpochsBehind
<1>5. HeldInCall' BY <1>2 DEF HeldInCall
<1>6. SummaryBound'
  <2> SUFFICES ASSUME NEW v \in Threads
               PROVE  /\ pc'[v] = "free" => next'[v] = thread_num
                      /\ \A u \in Threads : (pc'[v] \in {"summarize", "free"} /\ u < next'[v])
                                               => min_epoch'[v] <= last_active_epoch'[u]
    BY DEF SummaryBound
  <2>1. pc'[v] \in {"summarize", "free"} => pc'[v] = pc[v]
    OBVIOUS
  <2> QED BY <1>3, <2>1 DEF SummaryBound
<1>7. HeldYoung' BY <1>2 DEF HeldYoung
<1>8. NoUseAfterFree' BY <1>1 DEF NoUseAfterFree
<1>9. ListSorted' BY DEF ListSorted
<1> QED BY <1>1, <1>4, <1>5, <1>6, <1>7, <1>8, <1>9

\* A node of the tree is in no list.
LEMMA InvGetNode ==
    ASSUME TypeOK, Inv, NEW t \in Threads, NEW n \in Nodes, GetNode(t, n) PROVE Inv'
<1> USE DEF TypeOK, Inv, GetNode
<1>1. LinkedApart' /\ (\A m : IsFree(m)' = IsFree(m))
  BY SameNodes
<1>2. EpochsBehind' BY DEF EpochsBehind
<1>3. HeldInCall' BY DEF HeldInCall
<1>4. SummaryBound' BY DEF SummaryBound
<1>5. HeldYoung'
  <2>1. \A u \in Threads : \A i \in DOMAIN garbage[u] : garbage[u][i].node # n
    BY DEF LinkedApart, InGarbage
  <2> QED BY <2>1 DEF HeldYoung
<1>6. NoUseAfterFree'
  <2>1. ~IsFree(n)
    BY DEF IsFree
  <2> QED BY <1>1, <2>1 DEF NoUseAfterFree
<1>7. ListSorted' BY DEF ListSorted
<1> QED BY <1>1, <1>2, <1>3, <1>4, <1>5, <1>6, <1>7

LEMMA InvInstallNewNode ==
    ASSUME TypeOK, Inv, NEW t \in Threads, NEW n \in Nodes, InstallNewNode(t, n) PROVE Inv'
<1> USE DEF TypeOK, Inv, InstallNewNode
<1>1. \A m : InGarbage(m)' = InGarbage(m)
  BY DEF InGarbage
<1>2. LinkedApart'
  BY <1>1 DEF LinkedApart, IsFree, InLimbo
<1>3. \A m : IsFree(m)' => IsFree(m)
  BY <1>1 DEF IsFree, InLimbo
<1>4. EpochsBehind' BY DEF EpochsBehind
<1>5. HeldInCall' BY DEF HeldInCall
<1>6. SummaryBound' BY DEF SummaryBound
<1>7. HeldYoung' BY DEF HeldYoung
<1>8. NoUseAfterFree' BY <1>3 DEF NoUseAfterFree
<1>9. ListSorted' BY DEF ListSorted
<1> QED BY <1>2, <1>4, <1>5, <1>6, <1>7, <1>8, <1>9

LEMMA InvInstallNodeToReplace ==
    ASSUME TypeOK, Inv, NEW t \in Threads, NEW n \in Nodes, InstallNodeToReplace(t, n) PROVE Inv'
<1> USE DEF TypeOK, Inv, InstallNodeToReplace
<1>1. \A m : InGarbage(m)' = InGarbage(m)
  BY DEF InGarbage
<1>2. limbo[t] = {}
  BY DEF HeldInCall
<1>3. LinkedApart'
  BY <1>1 DEF LinkedApart
<1>4. \A m : IsFree(m)' => IsFree(m)
  <2> SUFFICES ASSUME NEW m, IsFree(m)' PROVE IsFree(m)
    OBVIOUS
  <2>1. m # n
    BY DEF IsFree, InLimbo
  <2>2. m \notin InLimbo
    BY <1>2 DEF IsFree, InLimbo
  <2> QED BY <1>1, <2>1, <2>2 DEF IsFree
<1>5. EpochsBehind' BY DEF EpochsBehind
<1>6. HeldInCall' BY DEF HeldInCall
<1>7. SummaryBound' BY DEF SummaryBound
<1>8. HeldYoung' BY DEF HeldYoung
<1>9. NoUseAfterFree' BY <1>4 DEF NoUseAfterFree
<1>10. ListSorted' BY DEF ListSorted
<1> QED BY <1>3, <1>5, <1>6, <1>7, <1>8, <1>9, <1>10

LEMMA InvSummarizeGCEpoch ==
    ASSUME TypeOK, Inv, NEW t \in Threads, SummarizeGCEpoch(t) PROVE Inv'
<1> USE DEF TypeOK, Inv, SummarizeGCEpoch
<1>1. LinkedApart' /\ (\A n : IsFree(n)' = IsFree(n))
  BY SameNodes
<1>2. EpochsBehind' BY DEF EpochsBehind
<1>3. HeldInCall' BY DEF HeldInCall
<1>4. SummaryBound'
  <2>1. next[t] \in Threads /\ last_active_epoch[next[t]] \in Nat
    BY ConstantsAssumption DEF Threads
  <2>2. ASSUME NEW v \in Threads, v # t
        PROVE  /\ pc'[v] = "free" => next'[v] = thread_num
               /\ \A u \in Threads : (pc'[v] \in {"summarize", "free"} /\ u < next'[v])
                                        => min_epoch'[v] <= last_active_epoch'[u]
    BY <2>2 DEF SummaryBound
  <2>3. pc'[t] = "free" => next'[t] = thread_num
    BY ConstantsAssumption
  <2>4. ASSUME NEW u \in Threads, u < next'[t]
        PROVE  min_epoch'[t] <= last_active_epoch[u]
    <3>1. u \in Nat /\ next[t] \in Nat /\ u < next[t] + 1
      BY <2>4, ThreadsFact, ConstantsAssumption
    <3>2. CASE u = next[t]
      BY <2>1, <3>2
    <3>3. CASE u < next[t]
      BY <2>1, <3>1, <3>3 DEF SummaryBound
    <3> QED BY <3>1, <3>2, <3>3
  <2> QED BY <2>2, <2>3, <2>4 DEF SummaryBound
<1>5. HeldYoung' BY DEF HeldYoung
<1>6. NoUseAfterFree' BY <1>1 DEF NoUseAfterFree
<1>7. ListSorted' BY DEF ListSorted
<1> QED BY <1>1, <1>2, <1>3, <1>4, <1>5, <1>6, <1>7

\* The new entry carries the epoch of this moment: no slot is past it, and no
\* older entry either.
LEMMA InvAddGarbageNode ==
    ASSUME TypeOK, Inv, NEW t \in Threads, NEW n \in Nodes, AddGarbageNode(t, n) PROVE Inv'
<1> DEFINE e == [node |-> n, delete_epoch |-> epoch]
           g == garbage[t]
           k == Len(g) + 1
<1>1. garbage' = [garbage EXCEPT ![t] = Append(g, e)] /\ g \in Seq(GarbageNode) /\ e \in GarbageNode
  BY DEF AddGarbageNode, TypeOK, GarbageNode
<1>2. /\ k \in DOMAIN garbage'[t] /\ garbage'[t][k] = e
      /\ \A i \in DOMAIN g : i \in DOMAIN garbage'[t] /\ garbage'[t][i] = g[i] /\ i < k
      /\ \A i \in DOMAIN garbage'[t] : i \in DOMAIN g \/ i = k
  <2> HIDE DEF e, g, k
  <2>1. garbage'[t] = Append(g, e)
    BY <1>1 DEF TypeOK
  <2> QED BY <1>1, <2>1, AppendFacts DEF k
<1>3. \A u \in Threads : u # t => garbage'[u] = garbage[u]
  BY <1>1 DEF TypeOK
<1>4. e.node = n /\ e.delete_epoch = epoch /\ k \in Nat
  BY <1>1
<1>5. \A m : InGarbage(m)' <=> (InGarbage(m) \/ m = n)
  <2> HIDE DEF e, g, k
  <2> SUFFICES ASSUME NEW m PROVE InGarbage(m)' <=> (InGarbage(m) \/ m = n)
    OBVIOUS
  <2>1. ASSUME InGarbage(m)' PROVE InGarbage(m) \/ m = n
    <3>1. PICK u \in Threads : \E i \in DOMAIN garbage'[u] : garbage'[u][i].node = m
      BY <2>1 DEF InGarbage
    <3>2. PICK i \in DOMAIN garbage'[u] : garbage'[u][i].node = m
      BY <3>1
    <3>3. CASE u # t
      BY <1>3, <3>2, <3>3 DEF InGarbage
    <3>4. CASE u = t
      BY <1>2, <1>4, <3>2, <3>4 DEF InGarbage, g
    <3> QED BY <3>3, <3>4
  <2>2. ASSUME InGarbage(m) PROVE InGarbage(m)'
    <3>1. PICK u \in Threads : \E i \in DOMAIN garbage[u] : garbage[u][i].node = m
      BY <2>2 DEF InGarbage
    <3>2. PICK i \in DOMAIN garbage[u] : garbage[u][i].node = m
      BY <3>1
    <3>3. CASE u # t
      BY <1>3, <3>2, <3>3 DEF InGarbage
    <3>4. CASE u = t
      BY <1>2, <3>2, <3>4 DEF InGarbage, g
    <3> QED BY <3>3, <3>4
  <2>3. InGarbage(n)'
    BY <1>2, <1>4 DEF InGarbage
  <2> QED BY <2>1, <2>2, <2>3
<1>6. n \in limbo[t] /\ n \notin linked
  BY DEF AddGarbageNode, Inv, LinkedApart
<1> HIDE DEF e, g, k
<1>7. EpochsBehind'
  BY DEF AddGarbageNode, TypeOK, Inv, EpochsBehind
<1>8. HeldInCall'
  BY DEF AddGarbageNode, TypeOK, Inv, HeldInCall
<1>9. LinkedApart'
  BY <1>5, <1>6 DEF AddGarbageNode, TypeOK, Inv, LinkedApart
<1>10. SummaryBound'
  BY ThreadsFact DEF AddGarbageNode, TypeOK, Inv, SummaryBound
<1>11. HeldYoung'
  <2> SUFFICES ASSUME NEW v \in Threads, NEW u \in Threads, NEW i \in DOMAIN garbage'[u],
                      garbage'[u][i].node \in held[v]
               PROVE  garbage'[u][i].delete_epoch >= last_active_epoch[v]
    BY DEF HeldYoung, AddGarbageNode
  <2>1. CASE u # t
    BY <1>3, <2>1 DEF Inv, HeldYoung
  <2>2. CASE u = t /\ i \in DOMAIN g
    BY <1>2, <2>2 DEF Inv, HeldYoung, g
  <2>3. CASE u = t /\ i = k
    BY <1>2, <1>4, <2>3 DEF Inv, EpochsBehind, TypeOK
  <2> QED BY <1>2, <2>1, <2>2, <2>3
<1>12. NoUseAfterFree'
  <2>1. \A m : IsFree(m)' => IsFree(m)
    <3> SUFFICES ASSUME NEW m, IsFree(m)' PROVE IsFree(m)
      OBVIOUS
    <3>1. m # n /\ m \notin linked /\ ~InGarbage(m)
      BY <1>5 DEF IsFree, AddGarbageNode
    <3>3. limbo'[t] = {} /\ \A u \in Threads : u # t => limbo'[u] = limbo[u]
      BY DEF AddGarbageNode, TypeOK
    <3>4. m \notin limbo[t]
      BY <3>1 DEF AddGarbageNode
    <3> QED BY <3>1, <3>3, <3>4 DEF IsFree, InLimbo
  <2> QED BY <2>1 DEF NoUseAfterFree, Inv, AddGarbageNode
<1>13. ListSorted'
  <2> SUFFICES ASSUME NEW u \in Threads, NEW i \in DOMAIN garbage'[u]
               PROVE  /\ garbage'[u][i].delete_epoch <= epoch
                      /\ \A j \in DOMAIN garbage'[u] :
                            i <= j => garbage'[u][i].delete_epoch <= garbage'[u][j].delete_epoch
    BY DEF ListSorted, AddGarbageNode
  <2>1. CASE u # t
    BY <1>3, <2>1 DEF Inv, ListSorted
  <2>2. CASE u = t
    <3>1. epoch \in Nat
      BY DEF TypeOK
    <3>2. \A j \in DOMAIN garbage'[t] : garbage'[t][j].delete_epoch <= epoch
      BY <1>2, <1>4, <3>1 DEF Inv, ListSorted, g
    <3>3. ASSUME NEW j \in DOMAIN garbage'[t], i <= j
          PROVE  garbage'[t][i].delete_epoch <= garbage'[t][j].delete_epoch
      <4>1. CASE j = k
        BY <1>2, <1>4, <2>2, <3>2, <4>1
      <4>2. CASE j # k
        <5>1. j \in DOMAIN g /\ j < k /\ i \in Nat /\ j \in Nat
          BY <1>1, <1>2, <2>2, <4>2 DEF g, TypeOK, e
        <5>2. i # k /\ i \in DOMAIN g
          BY <1>2, <1>4, <2>2, <3>3, <5>1
        <5> QED BY <1>2, <2>2, <3>3, <5>1, <5>2 DEF Inv, ListSorted, g
      <4> QED BY <4>1, <4>2
    <3> QED BY <2>2, <3>2, <3>3
  <2> QED BY <2>1, <2>2
<1> QED BY <1>7, <1>8, <1>9, <1>10, <1>11, <1>12, <1>13 DEF Inv

\* The node that is freed was retired before the epoch of every slot, so no
\* call holds it; what is left of the list keeps its place.
LEMMA InvPerformGC ==
    ASSUME TypeOK, Inv, NEW t \in Threads, PerformGC(t) PROVE Inv'
<1>1. CASE ~CanFree(t) /\ pc' = [pc EXCEPT ![t] = "in"] /\ UNCHANGED garbage
  <2> USE <1>1 DEF PerformGC, TypeOK, Inv
  <2>1. LinkedApart' /\ (\A n : IsFree(n)' = IsFree(n))
    BY SameNodes
  <2>2. EpochsBehind' BY DEF EpochsBehind
  <2>3. HeldInCall' BY DEF HeldInCall
  <2>4. SummaryBound' BY DEF SummaryBound
  <2>5. HeldYoung' BY DEF HeldYoung
  <2>6. NoUseAfterFree' BY <2>1 DEF NoUseAfterFree
  <2>7. ListSorted' BY DEF ListSorted
  <2> QED BY <2>1, <2>2, <2>3, <2>4, <2>5, <2>6, <2>7
<1>2. CASE CanFree(t) /\ garbage' = [garbage EXCEPT ![t] = Tail(@)] /\ UNCHANGED pc
  <2> DEFINE g == garbage[t]
  <2>1. g \in Seq(GarbageNode) /\ g # <<>> /\ garbage'[t] = Tail(g)
        /\ (\A u \in Threads : u # t => garbage'[u] = garbage[u])
    BY <1>2 DEF CanFree, TypeOK
  <2>2. /\ Head(g) = g[1] /\ 1 \in DOMAIN g
        /\ \A i \in DOMAIN garbage'[t] : i + 1 \in DOMAIN g /\ garbage'[t][i] = g[i + 1]
        /\ \A i \in DOMAIN g : i # 1 => i - 1 \in DOMAIN garbage'[t] /\ garbage'[t][i - 1] = g[i]
    <3> HIDE DEF g
    <3> QED BY <2>1, TailFacts
  <2>3. g[1].delete_epoch < min_epoch[t] /\ g[1].delete_epoch \in Nat
    BY <1>2, <2>2, EntryTypes DEF CanFree
  <2> HIDE DEF g
  <2>4. \A v \in Threads : g[1].node \notin held[v]
    <3> SUFFICES ASSUME NEW v \in Threads, g[1].node \in held[v] PROVE FALSE
      OBVIOUS
    <3>1. g[1].delete_epoch >= last_active_epoch[v]
      BY <2>2 DEF Inv, HeldYoung, g
    <3>2. v < next[t]
      BY ThreadsFact DEF PerformGC, Inv, SummaryBound
    <3>3. min_epoch[t] <= last_active_epoch[v]
      BY <3>2 DEF PerformGC, Inv, SummaryBound
    <3> QED BY <2>3, <3>1, <3>3 DEF TypeOK
  <2>5. \A m : InGarbage(m)' => InGarbage(m)
    <3> SUFFICES ASSUME NEW m, InGarbage(m)' PROVE InGarbage(m)
      OBVIOUS
    <3>1. PICK u \in Threads : \E i \in DOMAIN garbage'[u] : garbage'[u][i].node = m
      BY DEF InGarbage
    <3>2. PICK i \in DOMAIN garbage'[u] : garbage'[u][i].node = m
      BY <3>1
    <3>3. CASE u # t
      BY <2>1, <3>2, <3>3 DEF InGarbage
    <3>4. CASE u = t
      BY <2>2, <3>2, <3>4 DEF InGarbage, g
    <3> QED BY <3>3, <3>4
  <2>6. \A m : InGarbage(m) => InGarbage(m)' \/ m = g[1].node
    <3> SUFFICES ASSUME NEW m, InGarbage(m), m # g[1].node PROVE InGarbage(m)'
      OBVIOUS
    <3>1. PICK u \in Threads : \E i \in DOMAIN garbage[u] : garbage[u][i].node = m
      BY DEF InGarbage
    <3>2. PICK i \in DOMAIN garbage[u] : garbage[u][i].node = m
      BY <3>1
    <3>3. CASE u # t
      BY <2>1, <3>2, <3>3 DEF InGarbage
    <3>4. CASE u = t
      <4>1. i \in DOMAIN g /\ i # 1
        BY <3>2, <3>4 DEF g
      <4> QED BY <2>2, <3>2, <3>4, <4>1 DEF InGarbage, g
    <3> QED BY <3>3, <3>4
  <2>7. EpochsBehind'
    BY <1>2 DEF PerformGC, Inv, EpochsBehind
  <2>8. HeldInCall'
    BY <1>2 DEF PerformGC, Inv, HeldInCall
  <2>9. LinkedApart'
    BY <2>5 DEF PerformGC, Inv, LinkedApart
  <2>10. SummaryBound'
    BY <1>2 DEF PerformGC, Inv, SummaryBound
  <2>11. HeldYoung'
    <3> SUFFICES ASSUME NEW v \in Threads, NEW u \in Threads, NEW i \in DOMAIN garbage'[u],
                        garbage'[u][i].node \in held[v]
                 PROVE  garbage'[u][i].delete_epoch >= last_active_epoch[v]
      BY DEF HeldYoung, PerformGC
    <3>1. CASE u # t
      BY <2>1, <3>1 DEF Inv, HeldYoung
    <3>2. CASE u = t
      BY <2>2, <3>2 DEF Inv, HeldYoung, g
    <3> QED BY <3>1, <3>2
  <2>12. NoUseAfterFree'
    <3> SUFFICES ASSUME NEW v \in Threads, NEW m \in held[v], IsFree(m)' PROVE FALSE
      BY DEF NoUseAfterFree, PerformGC
    <3>1. m # g[1].node
      BY <2>4
    <3>2. IsFree(m)
      BY <2>6, <3>1 DEF IsFree, InLimbo, PerformGC
    <3> QED BY <3>2 DEF Inv, NoUseAfterFree
  <2>13. ListSorted'
    <3> SUFFICES ASSUME NEW u \in Threads, NEW i \in DOMAIN garbage'[u]
                 PROVE  /\ garbage'[u][i].delete_epoch <= epoch
                        /\ \A j \in DOMAIN garbage'[u] :
                              i <= j => garbage'[u][i].delete_epoch <= garbage'[u][j].delete_epoch
      BY DEF ListSorted, PerformGC
    <3>1. CASE u # t
      BY <2>1, <3>1 DEF Inv, ListSorted
    <3>2. CASE u = t
      <4>1. \A j \in DOMAIN garbage'[t] : j \in Nat
        BY <2>1 DEF GarbageNode
      <4>2. i + 1 \in DOMAIN g /\ garbage'[t][i] = g[i + 1] /\ i \in Nat
        BY <2>2, <3>2, <4>1
      <4>3. garbage'[t][i].delete_epoch <= epoch
        BY <4>2 DEF Inv, ListSorted, g
      <4>4. ASSUME NEW j \in DOMAIN garbage'[t], i <= j
            PROVE  garbage'[t][i].delete_epoch <= garbage'[t][j].delete_epoch
        <5>1. j + 1 \in DOMAIN g /\ garbage'[t][j] = g[j + 1] /\ i + 1 <= j + 1
          BY <2>2, <4>1, <4>2, <4>4
        <5> QED BY <4>2, <5>1 DEF Inv, ListSorted, g
      <4> QED BY <3>2, <4>3, <4>4
    <3> QED BY <3>1, <3>2
  <2> QED BY <2>7, <2>8, <2>9, <2>10, <2>11, <2>12, <2>13 DEF Inv
<1> QED BY <1>1, <1>2 DEF PerformGC

LEMMA InvNext == ASSUME TypeOK, Inv, [Next]_vars PROVE Inv'
<1>1. CASE UNCHANGED vars
  <2> USE <1>1 DEF vars
  <2>1. LinkedApart' /\ (\A n : IsFree(n)' = IsFree(n))
    BY SameNodes
  <2>2. NoUseAfterFree' BY <2>1 DEF Inv, NoUseAfterFree
  <2> QED BY <2>1, <2>2 DEF Inv, EpochsBehind, HeldInCall, SummaryBound, HeldYoung, ListSorted
<1> QED
  BY <1>1, InvIncreaseEpoch, InvUpdateThreadLocal, InvReadGlobalEpoch, InvUpdateLastActiveEpoch,
     InvGetNode, InvInstallNewNode, InvInstallNodeToReplace, InvAddGarbageNode,
     InvSummarizeGCEpoch, InvPerformGC DEF Next, Step

\* The inductive invariant.
THEOREM InvCorrect == Spec => []Inv
BY InvInit, InvNext, TypeCorrect, PTL DEF Spec

\* No use after free: no node that a call may still refer to goes back to the
\* allocator, whatever the interleaving of JoinEpoch, LeaveEpoch, AddGarbageNode
\* and PerformGC.
THEOREM Safe == Spec => []NoUseAfterFree
<1>1. Inv => NoUseAfterFree
  BY DEF Inv
<1> QED BY <1>1, InvCorrect, PTL

\* PerformGC leaves no node behind that it could have freed.
THEOREM Complete == Spec => []NothingLeftBehind
<1>1. ASSUME TypeOK, Inv PROVE NothingLeftBehind
  <2> SUFFICES ASSUME NEW t \in Threads, ~CanFree(t), NEW i \in DOMAIN garbage[t]
               PROVE  garbage[t][i].delete_epoch >= min_epoch[t]
    BY DEF NothingLeftBehind
  <2> DEFINE g == garbage[t]
  <2>1. g \in Seq(GarbageNode) /\ i \in DOMAIN g
    BY <1>1 DEF TypeOK
  <2>2. g # <<>> /\ Head(g) = g[1] /\ 1 \in DOMAIN g /\ i \in Nat /\ 1 <= i
    <3> HIDE DEF g
    <3> QED BY <2>1
  <2>3. garbage[t][1].delete_epoch >= min_epoch[t]
    BY <1>1, <2>1, <2>2, EntryTypes DEF CanFree, TypeOK
  <2>4. garbage[t][1].delete_epoch <= garbage[t][i].delete_epoch
    BY <1>1, <2>2 DEF Inv, ListSorted
  <2> QED BY <1>1, <2>1, <2>2, <2>3, <2>4, EntryTypes DEF TypeOK
<1> QED BY <1>1, InvCorrect, TypeCorrect, PTL
=============================================================================
