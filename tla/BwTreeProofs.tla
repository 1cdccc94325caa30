---------------------------- MODULE BwTreeProofs ----------------------------
(***************************************************************************)
(* Proofs about the Bw-tree: the abort record is a lock on the parent of   *)
(* the node being removed, and a remove record is final, provided the      *)
(* collector frees no record in use (FreedOnce, which TLC checks).         *)
(***************************************************************************)
EXTENDS BwTree, LayoutProofs

-----------------------------------------------------------------------------
(* Memory *)

\* A sequence is a sequence of its own elements.
LEMMA OwnElements ==
  \A h, S : h \in Seq(S) => h \in Seq(Range(h))
  <1> SUFFICES ASSUME NEW h, NEW S, h \in Seq(S) PROVE h \in Seq(Range(h))
    OBVIOUS
  <1>1. Len(h) \in Nat /\ DOMAIN h = 1..Len(h) /\ h \in [1..Len(h) -> S]
    OBVIOUS
  <1>2. \A i \in 1..Len(h) : h[i] \in Range(h)
    BY <1>1 DEF Range
  <1>3. h \in [1..Len(h) -> Range(h)]
    BY <1>1, <1>2
  <1> QED  BY <1>1, <1>3

\* operator new never returns an address in use.
LEMMA FreshIsFree ==
  \A h : h \in Seq(Range(h)) =>
    /\ FreshAddress(h) \in 1..(Len(h) + 1)
    /\ FreshAddress(h) \in DOMAIN h => h[FreshAddress(h)] = FreeCell
  <1> SUFFICES ASSUME NEW h, h \in Seq(Range(h))
               PROVE  /\ FreshAddress(h) \in 1..(Len(h) + 1)
                      /\ FreshAddress(h) \in DOMAIN h => h[FreshAddress(h)] = FreeCell
    OBVIOUS
  <1> DEFINE free == {a \in DOMAIN h : h[a] = FreeCell}
  <1>1. Len(h) \in Nat /\ DOMAIN h = 1..Len(h)
    OBVIOUS
  <1>2. CASE free = {}
    <2>1. FreshAddress(h) = Len(h) + 1
      BY <1>2 DEF FreshAddress
    <2>2. Len(h) + 1 \notin DOMAIN h
      BY <1>1
    <2> QED  BY <1>1, <2>1, <2>2
  <1>3. CASE free # {}
    <2>1. free \in SUBSET Nat
      BY <1>1
    <2>2. \E n \in free : \A m \in free : n <= m
      BY <1>3, <2>1, LeastNat
    <2>3. Min(free) \in free
      BY <2>2 DEF Min
    <2>4. FreshAddress(h) \in free
      BY <1>3, <2>3 DEF FreshAddress
    <2> QED  BY <1>1, <2>4
  <1> QED  BY <1>2, <1>3

\* What allocating and writing a record does to memory: the record is at a fresh
\* address, and every record in use is where it was.
Grows(h, g) ==
    \A a \in DOMAIN h : h[a] # FreeCell => a \in DOMAIN g /\ g[a] = h[a]

LEMMA PutGrows ==
  \A h, n : h \in Seq(Range(h)) =>
    /\ Put(h, n) \in Seq(Range(Put(h, n)))
    /\ FreshAddress(h) \in DOMAIN Put(h, n)
    /\ FreshAddress(h) \in Nat \ {0}
    /\ Put(h, n)[FreshAddress(h)] = n
    /\ Grows(h, Put(h, n))
  <1> SUFFICES ASSUME NEW h, NEW n, h \in Seq(Range(h))
               PROVE  /\ Put(h, n) \in Seq(Range(Put(h, n)))
                      /\ FreshAddress(h) \in DOMAIN Put(h, n)
                      /\ FreshAddress(h) \in Nat \ {0}
                      /\ Put(h, n)[FreshAddress(h)] = n
                      /\ Grows(h, Put(h, n))
    OBVIOUS
  <1> DEFINE a == FreshAddress(h)
             S == Range(h) \cup {n}
  <1>1. Len(h) \in Nat /\ DOMAIN h = 1..Len(h)
    OBVIOUS
  <1>2. a \in 1..(Len(h) + 1) /\ (a \in DOMAIN h => h[a] = FreeCell)
    BY FreshIsFree
  <1>3. h \in Seq(S) /\ n \in S
    BY <1>1
  <1> HIDE DEF a, S
  <1>4. CASE a > Len(h)
    <2>1. Put(h, n) = Append(h, n) /\ a = Len(h) + 1
      BY <1>1, <1>2, <1>4 DEF Put, a
    <2>2. /\ Append(h, n) \in Seq(S)
          /\ DOMAIN Append(h, n) = 1..(Len(h) + 1)
          /\ Append(h, n)[Len(h) + 1] = n
          /\ \A b \in 1..Len(h) : Append(h, n)[b] = h[b]
      BY <1>1, <1>3
    <2>3. Put(h, n) \in Seq(Range(Put(h, n)))
      BY <2>1, <2>2, OwnElements
    <2>4. Grows(h, Put(h, n))
      BY <1>1, <2>1, <2>2 DEF Grows
    <2>5. a \in DOMAIN Put(h, n) /\ a \in Nat \ {0} /\ Put(h, n)[a] = n
      BY <1>1, <2>1, <2>2
    <2> QED  BY <2>3, <2>4, <2>5 DEF a
  <1>5. CASE ~(a > Len(h))
    <2>1. a \in DOMAIN h /\ Put(h, n) = [h EXCEPT ![a] = n]
      BY <1>1, <1>2, <1>5 DEF Put, a
    <2>2. Put(h, n) \in Seq(S)
      BY <1>1, <1>3, <2>1
    <2>3. Put(h, n) \in Seq(Range(Put(h, n)))
      BY <2>2, OwnElements
    <2>4. Grows(h, Put(h, n))
      BY <1>2, <2>1 DEF Grows
    <2>5. a \in DOMAIN Put(h, n) /\ a \in Nat \ {0} /\ Put(h, n)[a] = n
      BY <1>1, <1>2, <2>1
    <2> QED  BY <2>3, <2>4, <2>5 DEF a
  <1> QED  BY <1>4, <1>5

-----------------------------------------------------------------------------
(* The records that threads link *)

\* Each constructor makes a record of its own kind.
LEMMA Constructed ==
  ASSUME NEW h, NEW a, NEW b, NEW x, NEW y, NEW z, NEW w
  PROVE  /\ LeafInsertNode(h, a, x, y).type = "Insert"
         /\ LeafDeleteNode(h, a, x, y).type = "Delete"
         /\ InnerInsertNode(h, a, x, y, z).type = "Insert"
         /\ InnerDeleteNode(h, a, x, y, z, w).type = "Delete"
         /\ SplitNode(h, a, x, y).type = "Split"
         /\ RemoveNode(h, a, x).type = "Remove"
         /\ MergeNode(h, a, x, b, y).type = "Merge"
         /\ InnerAbortNode(h, a).type = "Abort" /\ InnerAbortNode(h, a).child = a
  <1>1. LeafInsertNode(h, a, x, y).type = "Insert"
    BY DEF LeafInsertNode, DeltaNode, With
  <1>2. LeafDeleteNode(h, a, x, y).type = "Delete"
    BY DEF LeafDeleteNode, DeltaNode, With
  <1>3. InnerInsertNode(h, a, x, y, z).type = "Insert"
    BY DEF InnerInsertNode, DeltaNode, With
  <1>4. InnerDeleteNode(h, a, x, y, z, w).type = "Delete"
    BY DEF InnerDeleteNode, DeltaNode, With
  <1>5. SplitNode(h, a, x, y).type = "Split"
    BY DEF SplitNode, DeltaNode, With
  <1>6. RemoveNode(h, a, x).type = "Remove"
    BY DEF RemoveNode, DeltaNode, With
  <1>7. MergeNode(h, a, x, b, y).type = "Merge"
    BY DEF MergeNode, DeltaNode, With
  <1>8. InnerAbortNode(h, a).type = "Abort" /\ InnerAbortNode(h, a).child = a
    BY DEF InnerAbortNode, DeltaNode
  <1> QED  BY <1>1, <1>2, <1>3, <1>4, <1>5, <1>6, <1>7, <1>8

-----------------------------------------------------------------------------
(* The local work between two accesses to shared memory.  A thread that has  *)
(* a node, plain or removed, goes on to a context that is in order, and never *)
(* to one in which it would hold a lock.                                      *)

OnNode(h, m, c) ==
    /\ DOMAIN c = DOMAIN Idle
    /\ {c.cur, c.par} \subseteq [id : Nat, node : Nat]
    /\ c.cur # NoSnapshot /\ Held(h, m, c.cur)
    /\ c.par = NoSnapshot \/ (Held(h, m, c.par) /\ h[c.par.node].type # "Remove")
    /\ c.stack # <<>> => c.par # NoSnapshot

OnPlainNode(h, m, c) == OnNode(h, m, c) /\ h[c.cur.node].type # "Remove"

GoesOn(h, m, d) == ContextOK(h, m, d) /\ d.pc \notin {"idle", "drop", "unabort"}

\* d is c with another pc and other data.
Keeps(c, d) ==
    /\ DOMAIN d = DOMAIN Idle
    /\ d.cur = c.cur /\ d.par = c.par /\ d.stack = c.stack

LEMMA KeepsGoesOn ==
  \A h, m, c, d :
    /\ OnNode(h, m, c) /\ Keeps(c, d)
    /\ d.pc \in PCs \ {"idle", "drop", "unabort", "root"}
    /\ d.pc = "load" => c.stack = <<>>
    /\ d.pc \in NeedsParent => c.par # NoSnapshot
    /\ d.pc \in MayBeRemoved \/ h[c.cur.node].type # "Remove"
    => GoesOn(h, m, d)
  BY DEF GoesOn, ContextOK, OnNode, Keeps

LEMMA ToKeeps ==
  \A c, pc : DOMAIN c = DOMAIN Idle => Keeps(c, To(c, pc)) /\ To(c, pc).pc = pc
  BY Zenon DEF Keeps, To, Idle

LEMMA AbortGoesOn ==
  \A h, m, c : DOMAIN c = DOMAIN Idle => GoesOn(h, m, Abort(c))
  <1> SUFFICES ASSUME NEW h, NEW m, NEW c, DOMAIN c = DOMAIN Idle
               PROVE  GoesOn(h, m, Abort(c))
    OBVIOUS
  <1> DEFINE d == Abort(c)
  <1>1. /\ DOMAIN d = DOMAIN Idle /\ d.pc = "root" /\ d.stack = <<>>
        /\ d.cur = NoSnapshot /\ d.par = NoSnapshot
    BY DEF Abort, Idle
  <1> HIDE DEF d
  <1>2. NoSnapshot \in [id : Nat, node : Nat]
    BY DEF NoSnapshot, Invalid
  <1>3. ContextOK(h, m, d)
    BY <1>1, <1>2 DEF ContextOK, PCs, MayBeRemoved, NeedsNode, NeedsParent
  <1> QED  BY <1>1, <1>3 DEF GoesOn, d

LEMMA NavigateGoesOn ==
  \A h, m, c : OnPlainNode(h, m, c) /\ c.stack = <<>> => GoesOn(h, m, Navigate(h, c))
  <1> SUFFICES ASSUME NEW h, NEW m, NEW c, OnPlainNode(h, m, c), c.stack = <<>>
               PROVE  GoesOn(h, m, Navigate(h, c))
    OBVIOUS
  <1> DEFINE d == Navigate(h, c)
  <1>1. DOMAIN c = DOMAIN Idle
    BY DEF OnPlainNode, OnNode
  <1>2. \A r : Keeps(c, Answered(c, r)) /\ Answered(c, r).pc = "done"
    BY <1>1, Zenon DEF Keeps, Answered, Idle
  <1>3. \A x : /\ Keeps(c, [c EXCEPT !.pc = "apply", !.index = x])
               /\ [c EXCEPT !.pc = "apply", !.index = x].pc = "apply"
    BY <1>1, Zenon DEF Keeps, Idle
  <1>4. \A x, pc : /\ Keeps(c, [c EXCEPT !.pc = pc, !.want = x])
                   /\ [c EXCEPT !.pc = pc, !.want = x].pc = pc
    BY <1>1, Zenon DEF Keeps, Idle
  <1>5. Keeps(c, NavigateLeaf(h, c)) /\ NavigateLeaf(h, c).pc \in {"done", "apply"}
    BY <1>2, <1>3, Zenon DEF NavigateLeaf
  <1>6. Keeps(c, d) /\ d.pc \in {"done", "apply", "jump", "load"}
    BY <1>4, <1>5, Zenon DEF Navigate
  <1> HIDE DEF d
  <1>7. GoesOn(h, m, d)
    BY <1>6, KeepsGoesOn DEF OnPlainNode, PCs, NeedsParent, MayBeRemoved
  <1> QED  BY <1>7 DEF d

LEMMA LoadedGoesOn ==
  \A h, m, c : OnPlainNode(h, m, c) => GoesOn(h, m, Loaded(h, c))
  <1> SUFFICES ASSUME NEW h, NEW m, NEW c, OnPlainNode(h, m, c)
               PROVE  GoesOn(h, m, Loaded(h, c))
    OBVIOUS
  <1>1. DOMAIN c = DOMAIN Idle /\ OnNode(h, m, c) /\ h[c.cur.node].type # "Remove"
    BY DEF OnPlainNode, OnNode
  <1>2. CASE c.stack = <<>>
    BY <1>2, NavigateGoesOn DEF Loaded
  <1>3. CASE c.stack # <<>>
    <2>1. c.par # NoSnapshot
      BY <1>1, <1>3 DEF OnNode
    <2>2. GoesOn(h, m, To(c, "merge"))
      BY <1>1, <2>1, ToKeeps, KeepsGoesOn DEF PCs
    <2> QED  BY <1>1, <1>3, <2>2, AbortGoesOn DEF Loaded
  <1> QED  BY <1>2, <1>3

\* IsOnRootNode tells whether there is a parent, as no entry has the id 0.
LEMMA OnRoot ==
  \A h, m, c : m \in Seq(Nat) /\ OnNode(h, m, c) => (IsOnRootNode(c) <=> c.par = NoSnapshot)
  <1> SUFFICES ASSUME NEW h, NEW m, NEW c, m \in Seq(Nat), OnNode(h, m, c)
               PROVE  IsOnRootNode(c) <=> c.par = NoSnapshot
    OBVIOUS
  <1>1. 0 \notin DOMAIN m
    OBVIOUS
  <1> QED  BY <1>1 DEF OnNode, Held, IsOnRootNode, NoSnapshot, Invalid

LEMMA AdjustGoesOn ==
  \A h, m, c : m \in Seq(Nat) /\ OnPlainNode(h, m, c) => GoesOn(h, m, AdjustNodeSize(h, c))
  <1> SUFFICES ASSUME NEW h, NEW m, NEW c, m \in Seq(Nat), OnPlainNode(h, m, c)
               PROVE  GoesOn(h, m, AdjustNodeSize(h, c))
    OBVIOUS
  <1>1. DOMAIN c = DOMAIN Idle /\ OnNode(h, m, c) /\ h[c.cur.node].type # "Remove"
    BY DEF OnPlainNode, OnNode
  <1>2. GoesOn(h, m, Loaded(h, c))
    BY LoadedGoesOn
  <1>3. \A pc \in {"halve", "peek", "undefined", "failed"} : GoesOn(h, m, To(c, pc))
    <2> SUFFICES ASSUME NEW pc \in {"halve", "peek", "undefined", "failed"}
                 PROVE  GoesOn(h, m, To(c, pc))
      OBVIOUS
    <2>1. pc \in PCs \ {"idle", "drop", "unabort", "root", "load"} /\ pc \notin NeedsParent
      BY DEF PCs, NeedsParent
    <2> QED  BY <1>1, <2>1, ToKeeps, KeepsGoesOn
  <1>4. ~IsOnRootNode(c) => GoesOn(h, m, To(c, "remove"))
    <2>1. "remove" \in PCs \ {"idle", "drop", "unabort", "root", "load"}
      BY DEF PCs
    <2> QED  BY <1>1, <2>1, ToKeeps, KeepsGoesOn, OnRoot
  <1>5. /\ GoesOn(h, m, To(c, "halve")) /\ GoesOn(h, m, To(c, "peek"))
        /\ GoesOn(h, m, To(c, "undefined")) /\ GoesOn(h, m, Failed(c))
    BY <1>3 DEF Failed
  <1> QED  BY <1>2, <1>4, <1>5 DEF AdjustNodeSize

LEMMA TryConsolidateGoesOn ==
  \A h, m, c : m \in Seq(Nat) /\ OnPlainNode(h, m, c) => GoesOn(h, m, TryConsolidateNode(h, c))
  <1> SUFFICES ASSUME NEW h, NEW m, NEW c, m \in Seq(Nat), OnPlainNode(h, m, c)
               PROVE  GoesOn(h, m, TryConsolidateNode(h, c))
    OBVIOUS
  <1>1. DOMAIN c = DOMAIN Idle /\ OnNode(h, m, c) /\ h[c.cur.node].type # "Remove"
    BY DEF OnPlainNode, OnNode
  <1>2. GoesOn(h, m, To(c, "consolidate"))
    BY <1>1, ToKeeps, KeepsGoesOn DEF PCs, NeedsParent
  <1> QED  BY <1>2, AdjustGoesOn, Zenon DEF TryConsolidateNode

LEMMA FinishSplitGoesOn ==
  \A h, m, c : m \in Seq(Nat) /\ OnPlainNode(h, m, c) => GoesOn(h, m, FinishSplit(h, c))
  <1> SUFFICES ASSUME NEW h, NEW m, NEW c, m \in Seq(Nat), OnPlainNode(h, m, c)
               PROVE  GoesOn(h, m, FinishSplit(h, c))
    OBVIOUS
  <1>1. DOMAIN c = DOMAIN Idle /\ OnNode(h, m, c) /\ h[c.cur.node].type # "Remove"
    BY DEF OnPlainNode, OnNode
  <1>2. GoesOn(h, m, To(c, "grow"))
    BY <1>1, ToKeeps, KeepsGoesOn DEF PCs, NeedsParent
  <1>3. ~IsOnRootNode(c) => GoesOn(h, m, To(c, "post"))
    BY <1>1, OnRoot, ToKeeps, KeepsGoesOn DEF PCs
  <1> DEFINE item == h[c.cur.node].item
             parent == h[c.par.node]
             found == FindSeparator(h, c.par.node, item.key, parent.low.id).id
             d == [c EXCEPT !.pc = "clash", !.want = found]
  <1>4. GoesOn(h, m, d)
    <2>1. Keeps(c, d) /\ d.pc = "clash"
      BY <1>1, Zenon DEF Keeps, Idle
    <2> HIDE DEF d
    <2> QED  BY <1>1, <2>1, KeepsGoesOn DEF PCs, NeedsParent
  <1>5. GoesOn(h, m, TryConsolidateNode(h, c))
    BY TryConsolidateGoesOn
  <1>6. FinishSplit(h, c) =
          IF IsOnRootNode(c) THEN To(c, "grow")
          ELSE IF ~Under(parent.high, item.key) THEN TryConsolidateNode(h, c)
          ELSE IF found = Invalid THEN To(c, "post")
          ELSE IF found = item.id THEN TryConsolidateNode(h, c)
          ELSE d
    BY DEF FinishSplit
  <1> HIDE DEF d, item, parent, found
  <1> QED  BY <1>2, <1>3, <1>4, <1>5, <1>6

LEMMA JumpLeftGoesOn ==
  \A h, m, c : m \in Seq(Nat) /\ OnNode(h, m, c) => GoesOn(h, m, JumpToLeftSibling(h, c))
  <1> SUFFICES ASSUME NEW h, NEW m, NEW c, m \in Seq(Nat), OnNode(h, m, c)
               PROVE  GoesOn(h, m, JumpToLeftSibling(h, c))
    OBVIOUS
  <1>1. DOMAIN c = DOMAIN Idle
    BY DEF OnNode
  <1>2. GoesOn(h, m, Failed(c))
    BY <1>1, ToKeeps, KeepsGoesOn DEF Failed, PCs, NeedsParent, MayBeRemoved
  <1>3. GoesOn(h, m, Abort(c))
    BY <1>1, AbortGoesOn
  <1>4. ASSUME NEW x, c.par # NoSnapshot
        PROVE  GoesOn(h, m, [c EXCEPT !.pc = "left", !.stack = <<x>> \o @])
    <2> DEFINE d == [c EXCEPT !.pc = "left", !.stack = <<x>> \o @]
    <2>1. /\ DOMAIN d = DOMAIN Idle /\ d.pc = "left"
          /\ d.cur = c.cur /\ d.par = c.par
      BY <1>1, Zenon DEF Idle
    <2> HIDE DEF d
    <2>2. ContextOK(h, m, d)
      BY <1>4, <2>1 DEF ContextOK, OnNode, PCs, MayBeRemoved
    <2>3. GoesOn(h, m, d)
      BY <2>1, <2>2 DEF GoesOn
    <2> QED  BY <2>3 DEF d
  <1> QED  BY <1>2, <1>3, <1>4, OnRoot, Zenon DEF JumpToLeftSibling

LEMMA FinishGoesOn ==
  \A h, m, cc :
    m \in Seq(Nat) /\ OnNode(h, m, [cc EXCEPT !.cur.node = UnderAbort(h, @)])
    => GoesOn(h, m, FinishPartialSMO(h, cc))
  <1> SUFFICES ASSUME NEW h, NEW m, NEW cc, m \in Seq(Nat),
                      OnNode(h, m, [cc EXCEPT !.cur.node = UnderAbort(h, @)])
               PROVE  GoesOn(h, m, FinishPartialSMO(h, cc))
    OBVIOUS
  <1> DEFINE c == [cc EXCEPT !.cur.node = UnderAbort(h, @)]
             type == h[c.cur.node].type
             step == CASE type = "Remove" -> JumpToLeftSibling(h, c)
                       [] type = "Merge" -> IF IsOnRootNode(c) THEN Failed(c) ELSE To(c, "merged")
                       [] type = "Split" -> FinishSplit(h, c)
                       [] OTHER -> TryConsolidateNode(h, c)
  <1>1. FinishPartialSMO(h, cc) =
          IF type \in {"Remove", "Merge", "Split"} /\ IsReader(c) THEN To(c, "undefined")
          ELSE step
    BY DEF FinishPartialSMO
  <1>2. OnNode(h, m, c)
    OBVIOUS
  <1> HIDE DEF c
  <1>3. DOMAIN c = DOMAIN Idle
    BY <1>2 DEF OnNode
  <1>4. GoesOn(h, m, To(c, "undefined")) /\ GoesOn(h, m, Failed(c))
    BY <1>2, <1>3, ToKeeps, KeepsGoesOn DEF Failed, PCs, NeedsParent, MayBeRemoved
  <1>5. type = "Merge" => GoesOn(h, m, IF IsOnRootNode(c) THEN Failed(c) ELSE To(c, "merged"))
    BY <1>2, <1>3, <1>4, OnRoot, ToKeeps, KeepsGoesOn DEF PCs
  <1>6. type = "Split" => GoesOn(h, m, FinishSplit(h, c))
    BY <1>2, FinishSplitGoesOn DEF OnPlainNode
  <1>7. type # "Remove" => GoesOn(h, m, TryConsolidateNode(h, c))
    BY <1>2, TryConsolidateGoesOn DEF OnPlainNode
  <1>8. type = "Remove" => GoesOn(h, m, JumpToLeftSibling(h, c))
    BY <1>2, JumpLeftGoesOn
  <1>9. GoesOn(h, m, step)
    <2> HIDE DEF type
    <2>1. CASE type = "Remove"
      <3>1. step = JumpToLeftSibling(h, c)
        BY <2>1, Zenon
      <3> QED  BY <2>1, <3>1, <1>8
    <2>2. CASE type = "Merge"
      <3>1. step = IF IsOnRootNode(c) THEN Failed(c) ELSE To(c, "merged")
        BY <2>2, Zenon
      <3> QED  BY <2>2, <3>1, <1>5
    <2>3. CASE type = "Split"
      <3>1. step = FinishSplit(h, c)
        BY <2>3, Zenon
      <3> QED  BY <2>3, <3>1, <1>6
    <2>4. CASE type \notin {"Remove", "Merge", "Split"}
      <3>1. step = TryConsolidateNode(h, c)
        BY <2>4, Zenon
      <3> QED  BY <2>4, <3>1, <1>7
    <2> QED  BY <2>1, <2>2, <2>3, <2>4
  <1> HIDE DEF step, type
  <1> QED  BY <1>1, <1>4, <1>9

LEMMA FinishReadOptimizedGoesOn ==
  \A h, m, cc :
    LET c == [cc EXCEPT !.cur.node = UnderAbort(h, @)]
    IN  OnNode(h, m, c) /\ c.stack = <<>> => GoesOn(h, m, FinishPartialSMOReadOptimized(h, cc))
  <1> SUFFICES ASSUME NEW h, NEW m, NEW cc,
                      OnNode(h, m, [cc EXCEPT !.cur.node = UnderAbort(h, @)]),
                      [cc EXCEPT !.cur.node = UnderAbort(h, @)].stack = <<>>
               PROVE  GoesOn(h, m, FinishPartialSMOReadOptimized(h, cc))
    BY Zenon
  <1> DEFINE c == [cc EXCEPT !.cur.node = UnderAbort(h, @)]
  <1>1. FinishPartialSMOReadOptimized(h, cc) =
          IF h[c.cur.node].type = "Remove" THEN Abort(c) ELSE Navigate(h, c)
    BY DEF FinishPartialSMOReadOptimized
  <1>2. OnNode(h, m, c) /\ c.stack = <<>>
    OBVIOUS
  <1> HIDE DEF c
  <1>3. DOMAIN c = DOMAIN Idle
    BY <1>2 DEF OnNode
  <1> QED  BY <1>1, <1>2, <1>3, AbortGoesOn, NavigateGoesOn DEF OnPlainNode

-----------------------------------------------------------------------------
(* Steps *)

\* What the steps that neither lock nor unlock a parent do to memory and to the
\* mapping table: they add records, and an entry they change was neither locked
\* nor removed and is not locked afterwards.
Changes ==
    /\ MemoryOK' /\ Grows(heap, heap')
    /\ DOMAIN mapping_table \subseteq DOMAIN mapping_table'
    /\ \A i \in DOMAIN mapping_table' :
          \/ i \in DOMAIN mapping_table /\ mapping_table'[i] = mapping_table[i]
          \/ /\ i \in DOMAIN mapping_table => ~IsType(i, "Abort") /\ ~IsType(i, "Remove")
             /\ mapping_table'[i] # 0 =>
                   /\ mapping_table'[i] \in DOMAIN heap'
                   /\ heap'[mapping_table'[i]].type \in NodeKinds \ {"Abort"}

\* The step of RemovedIsFrozen: what no step does to a remove record.
Frozen ==
    \A i \in DOMAIN mapping_table : IsType(i, "Remove") =>
        \/ /\ mapping_table'[i] = mapping_table[i]
           /\ heap'[mapping_table[i]] = heap[mapping_table[i]]
        \/ IsRetired(mapping_table[i]) /\ mapping_table'[i] = 0

StepOK == LockInv' /\ Frozen

\* The record of a node in use stays as it is.
LEMMA InUseGrows ==
  \A h, g, a : Grows(h, g) /\ a \in DOMAIN h /\ h[a].type \in NodeKinds
               => a \in DOMAIN g /\ g[a] = h[a]
  <1>1. FreeCell.type \notin NodeKinds
    BY DEF FreeCell, NodeKinds
  <1> QED  BY <1>1 DEF Grows

LEMMA ContextGrows ==
  \A h, m, g, n, c :
    Grows(h, g) /\ DOMAIN m \subseteq DOMAIN n /\ ContextOK(h, m, c) => ContextOK(g, n, c)
  <1> SUFFICES ASSUME NEW h, NEW m, NEW g, NEW n, NEW c,
                      Grows(h, g), DOMAIN m \subseteq DOMAIN n, ContextOK(h, m, c)
               PROVE  ContextOK(g, n, c)
    OBVIOUS
  <1>1. \A s : Held(h, m, s) => Held(g, n, s) /\ g[s.node] = h[s.node]
    BY InUseGrows DEF Held
  <1> QED  BY <1>1 DEF ContextOK

\* The thread keeps what it holds: nothing, or its lock.
KeepsLock(t, d) ==
    \/ ~HoldsParent(t) /\ d.pc \notin {"drop", "unabort"}
    \/ HoldsParent(t) /\ d.pc = "unabort" /\ d.par = ctx[t].par /\ d.want = ctx[t].want

LEMMA ContextsStep ==
  ASSUME ContextsOK, NEW t \in Threads, Grows(heap, heap'),
         DOMAIN mapping_table \subseteq DOMAIN mapping_table',
         NEW d, Goes(t, d), ContextOK(heap', mapping_table', d)
  PROVE  /\ ContextsOK'
         /\ ctx'[t] = d
         /\ \A u \in Threads : u # t => ctx'[u] = ctx[u]
  <1>1. ctx'[t] = d /\ (\A u \in Threads : u # t => ctx'[u] = ctx[u])
    BY DEF Goes, ContextsOK
  <1>2. ctx' = [u \in Threads |-> ctx'[u]]
    BY DEF Goes, ContextsOK
  <1>3. ASSUME NEW u \in Threads PROVE ContextOK(heap', mapping_table', ctx'[u])
    <2>1. CASE u = t
      BY <1>1, <2>1
    <2>2. CASE u # t
      <3>1. ContextOK(heap, mapping_table, ctx[u]) /\ ctx'[u] = ctx[u]
        BY <1>1, <2>2 DEF ContextsOK
      <3> QED  BY <3>1, ContextGrows
    <2> QED  BY <2>1, <2>2
  <1> QED  BY <1>1, <1>2, <1>3 DEF ContextsOK

LEMMA LocksStay ==
  ASSUME LockInv, Changes, NEW t \in Threads
  PROVE  \A d : Goes(t, d) /\ ContextOK(heap', mapping_table', d) /\ KeepsLock(t, d) => StepOK
  <1> SUFFICES ASSUME NEW d, Goes(t, d), ContextOK(heap', mapping_table', d), KeepsLock(t, d)
               PROVE  StepOK
    OBVIOUS
  <1>1. /\ ContextsOK' /\ ctx'[t] = d
        /\ \A u \in Threads : u # t => ctx'[u] = ctx[u]
    BY ContextsStep DEF LockInv, Changes
  <1>2. ASSUME NEW i \in DOMAIN mapping_table', i \in DOMAIN mapping_table,
               mapping_table'[i] = mapping_table[i], mapping_table[i] # 0
        PROVE  InUse(mapping_table[i])' /\ heap'[mapping_table[i]] = heap[mapping_table[i]]
    <2>1. InUse(mapping_table[i])
      BY <1>2 DEF LockInv, EntriesInUse
    <2> QED  BY <1>2, <2>1, InUseGrows DEF InUse, Changes
  <1>3. EntriesInUse'
    <2> SUFFICES ASSUME NEW i \in DOMAIN mapping_table', mapping_table'[i] # 0
                 PROVE  InUse(mapping_table[i])'
      BY DEF EntriesInUse
    <2> QED  BY <1>2 DEF Changes, InUse
  <1>4. ASSUME NEW u \in Threads, HoldsParent(u)'
        PROVE  HoldsParent(u) /\ ctx'[u].par = ctx[u].par /\ ctx'[u].want = ctx[u].want
    <2>1. CASE u = t
      BY <1>1, <1>4, <2>1 DEF KeepsLock, HoldsParent
    <2>2. CASE u # t
      BY <1>1, <1>4, <2>2 DEF HoldsParent
    <2> QED  BY <2>1, <2>2
  <1>5. ASSUME NEW u \in Threads, HoldsParent(u)
        PROVE  HoldsParent(u)' /\ ctx'[u].par = ctx[u].par
    <2>1. CASE u = t
      BY <1>1, <1>5, <2>1 DEF KeepsLock, HoldsParent
    <2>2. CASE u # t
      BY <1>1, <1>5, <2>2 DEF HoldsParent
    <2> QED  BY <2>1, <2>2
  <1>6. ASSUME NEW u \in Threads, HoldsParent(u)'
        PROVE  OwnsParent(u)'
    <2> DEFINE c == ctx[u]
    <2>1. HoldsParent(u) /\ ctx'[u].par = c.par /\ ctx'[u].want = c.want
      BY <1>4, <1>6
    <2>2. /\ c.par.id \in DOMAIN mapping_table
          /\ IsType(c.par.id, "Abort") /\ mapping_table[c.par.id] = c.want
          /\ heap[c.want].child = c.par.node
          /\ heap[c.par.node].type \notin {"Abort", "Remove"}
      BY <2>1 DEF LockInv, AbortIsOwned, OwnsParent
    <2>3. c.par.id \in DOMAIN mapping_table' /\ mapping_table'[c.par.id] = mapping_table[c.par.id]
      BY <2>2 DEF Changes
    <2>4. mapping_table[c.par.id] # 0
      BY <2>2 DEF IsType
    <2>5. heap'[c.want] = heap[c.want]
      BY <1>2, <2>2, <2>3, <2>4
    <2>6. mapping_table'[c.par.id] # 0 /\ heap'[mapping_table'[c.par.id]].type = "Abort"
      BY <2>2, <2>3, <2>5 DEF IsType
    <2>7. heap'[c.par.node].type \notin {"Abort", "Remove"}
      <3>1. ContextOK(heap, mapping_table, c)
        BY DEF LockInv, ContextsOK
      <3>2. c.par # NoSnapshot
        BY <2>1, <3>1 DEF ContextOK, HoldsParent, NeedsParent
      <3>3. Held(heap, mapping_table, c.par)
        BY <3>1, <3>2 DEF ContextOK
      <3>4. c.par.node \in DOMAIN heap /\ heap[c.par.node].type \in NodeKinds
        BY <3>3 DEF Held
      <3>5. Grows(heap, heap')
        BY DEF Changes
      <3>6. heap'[c.par.node] = heap[c.par.node]
        BY <3>4, <3>5, InUseGrows
      <3> QED  BY <2>2, <3>6
    <2> QED  BY <2>1, <2>2, <2>3, <2>5, <2>6, <2>7 DEF OwnsParent, IsType
  <1>7. ASSUME NEW i \in DOMAIN mapping_table', IsType(i, "Abort")'
        PROVE  \E u \in Threads : HoldsParent(u)' /\ ctx'[u].par.id = i
    <2>1. mapping_table'[i] # 0 /\ heap'[mapping_table'[i]].type = "Abort"
      BY <1>7 DEF IsType
    <2>2. i \in DOMAIN mapping_table /\ mapping_table'[i] = mapping_table[i]
      BY <2>1 DEF Changes
    <2>3. IsType(i, "Abort")
      BY <1>2, <2>1, <2>2 DEF IsType
    <2>4. PICK u \in Threads : HoldsParent(u) /\ ctx[u].par.id = i
      BY <2>2, <2>3 DEF LockInv, AbortIsOwned
    <2> QED  BY <1>5, <2>4
  <1>8. ASSUME NEW u \in Threads, NEW v \in Threads, HoldsParent(u)', HoldsParent(v)',
               ctx'[u].par.id = ctx'[v].par.id
        PROVE  u = v
    <2>1. HoldsParent(u) /\ HoldsParent(v) /\ ctx[u].par.id = ctx[v].par.id
      BY <1>4, <1>8
    <2> QED  BY <2>1 DEF LockInv, AbortIsOwned
  <1>9. AbortIsOwned'
    BY <1>6, <1>7, <1>8 DEF AbortIsOwned
  <1>10. Frozen
    <2> SUFFICES ASSUME NEW i \in DOMAIN mapping_table, IsType(i, "Remove")
                 PROVE  /\ mapping_table'[i] = mapping_table[i]
                        /\ heap'[mapping_table[i]] = heap[mapping_table[i]]
      BY DEF Frozen
    <2>1. i \in DOMAIN mapping_table' /\ mapping_table'[i] = mapping_table[i]
      BY DEF Changes
    <2> QED  BY <1>2, <2>1 DEF IsType
  <1> QED  BY <1>1, <1>3, <1>9, <1>10 DEF LockInv, Changes, StepOK

LEMMA NothingChanges ==
  LockInv /\ UNCHANGED <<heap, mapping_table>> => Changes
  BY DEF LockInv, MemoryOK, Changes, Grows

\* A record is linked in place of one that is no abort and no remove record.
LEMMA InstallChanges ==
  ASSUME LockInv
  PROVE  \A s, n :
           /\ Held(heap, mapping_table, s) /\ heap[s.node].type # "Remove" /\ CanInstall(s)
           /\ InstallNodeToReplace(s, n) /\ n.type \in NodeKinds \ {"Abort"}
           => /\ Changes
              /\ DOMAIN mapping_table' = DOMAIN mapping_table
              /\ New \in DOMAIN heap' /\ New \in Nat \ {0} /\ heap'[New] = n
  <1> SUFFICES ASSUME NEW s, NEW n, Held(heap, mapping_table, s),
                      heap[s.node].type # "Remove", CanInstall(s),
                      InstallNodeToReplace(s, n), n.type \in NodeKinds \ {"Abort"}
               PROVE  /\ Changes
                      /\ DOMAIN mapping_table' = DOMAIN mapping_table
                      /\ New \in DOMAIN heap' /\ New \in Nat \ {0} /\ heap'[New] = n
    OBVIOUS
  <1>1. heap \in Seq(Range(heap)) /\ mapping_table \in Seq(Nat)
    BY DEF LockInv, MemoryOK
  <1>2. /\ heap' \in Seq(Range(heap')) /\ Grows(heap, heap')
        /\ New \in DOMAIN heap' /\ New \in Nat \ {0} /\ heap'[New] = n
    BY <1>1, PutGrows DEF InstallNodeToReplace, New
  <1>3. s.id \in DOMAIN mapping_table /\ mapping_table[s.id] = s.node
    BY DEF Held, CanInstall
  <1>4. mapping_table' = [mapping_table EXCEPT ![s.id] = New]
    BY DEF InstallNodeToReplace
  <1>5. mapping_table' \in Seq(Nat) /\ DOMAIN mapping_table' = DOMAIN mapping_table
    BY <1>1, <1>2, <1>3, <1>4
  <1>6. ~IsType(s.id, "Abort") /\ ~IsType(s.id, "Remove")
    BY <1>3 DEF IsType, Held
  <1>7. ASSUME NEW i \in DOMAIN mapping_table'
        PROVE  \/ i \in DOMAIN mapping_table /\ mapping_table'[i] = mapping_table[i]
               \/ /\ ~IsType(i, "Abort") /\ ~IsType(i, "Remove")
                  /\ mapping_table'[i] \in DOMAIN heap'
                  /\ heap'[mapping_table'[i]].type \in NodeKinds \ {"Abort"}
    <2>1. CASE i = s.id
      <3>1. mapping_table'[i] = New
        BY <1>3, <1>4, <2>1
      <3> QED  BY <1>2, <1>6, <2>1, <3>1
    <2>2. CASE i # s.id
      BY <1>4, <1>5, <2>2
    <2> QED  BY <2>1, <2>2
  <1>8. Changes
    BY <1>2, <1>5, <1>7 DEF Changes, MemoryOK
  <1> QED  BY <1>2, <1>5, <1>8

\* What a thread that loads an entry gets to see: never an abort record.
LEMMA LoadHeld ==
  ASSUME LockInv
  PROVE  \A i, s : HasNode(i) /\ s = [id |-> i, node |-> UnderAbort(heap, mapping_table[i])]
                   => /\ Held(heap, mapping_table, s)
                      /\ s \in [id : Nat, node : Nat] /\ s # NoSnapshot
  <1> SUFFICES ASSUME NEW i, NEW s, HasNode(i),
                      s = [id |-> i, node |-> UnderAbort(heap, mapping_table[i])]
               PROVE  /\ Held(heap, mapping_table, s)
                      /\ s \in [id : Nat, node : Nat] /\ s # NoSnapshot
    OBVIOUS
  <1> DEFINE a == mapping_table[i]
             b == UnderAbort(heap, a)
  <1>1. heap \in Seq(Range(heap)) /\ mapping_table \in Seq(Nat)
    BY DEF LockInv, MemoryOK
  <1>2. i \in DOMAIN mapping_table /\ a # 0 /\ i \in Nat \ {0}
    BY <1>1 DEF HasNode
  <1>3. a \in DOMAIN heap /\ heap[a].type \in NodeKinds
    BY <1>2 DEF LockInv, EntriesInUse, InUse
  <1>4. b \in DOMAIN heap /\ heap[b].type \in NodeKinds \ {"Abort"}
    <2>1. CASE heap[a].type # "Abort"
      BY <1>3, <2>1 DEF UnderAbort
    <2>2. CASE heap[a].type = "Abort"
      <3>1. b = heap[a].child
        BY <2>2 DEF UnderAbort
      <3>2. PICK t \in Threads : HoldsParent(t) /\ ctx[t].par.id = i
        BY <1>2, <2>2 DEF LockInv, AbortIsOwned, IsType
      <3>3. OwnsParent(t)
        BY <3>2 DEF LockInv, AbortIsOwned
      <3>4. b = ctx[t].par.node
        BY <3>1, <3>2, <3>3 DEF OwnsParent
      <3>5. ContextOK(heap, mapping_table, ctx[t])
        BY DEF LockInv, ContextsOK
      <3>6. Held(heap, mapping_table, ctx[t].par)
        BY <3>2, <3>5 DEF ContextOK, HoldsParent, NeedsParent
      <3> QED  BY <3>4, <3>6 DEF Held
    <2> QED  BY <2>1, <2>2
  <1>5. b \in Nat
    BY <1>1, <1>4
  <1>6. s.id = i /\ s.node = b /\ s \in [id : Nat, node : Nat] /\ s # NoSnapshot
    BY <1>2, <1>5 DEF NoSnapshot, Invalid
  <1>7. Held(heap, mapping_table, s)
    BY <1>2, <1>4, <1>6 DEF Held
  <1> QED  BY <1>6, <1>7

LEMMA FailedGoesOn ==
  \A h, m, c : ContextOK(h, m, c) => GoesOn(h, m, Failed(c))
  <1> SUFFICES ASSUME NEW h, NEW m, NEW c, ContextOK(h, m, c) PROVE GoesOn(h, m, Failed(c))
    OBVIOUS
  <1> DEFINE d == Failed(c)
  <1>1. Keeps(c, d) /\ d.pc = "failed"
    BY ToKeeps DEF Failed, ContextOK
  <1> HIDE DEF d
  <1>2. GoesOn(h, m, d)
    BY <1>1 DEF GoesOn, ContextOK, Keeps, PCs, MayBeRemoved, NeedsNode, NeedsParent
  <1> QED  BY <1>2 DEF d

\* A thread at a step that needs a node has one.
LEMMA ContextOnNode ==
  \A h, m, c : ContextOK(h, m, c) /\ c.pc \in NeedsNode
    => /\ OnNode(h, m, c)
       /\ c.pc \notin MayBeRemoved => OnPlainNode(h, m, c)
       /\ c.pc \in NeedsParent =>
             c.par # NoSnapshot /\ Held(h, m, c.par) /\ h[c.par.node].type # "Remove"
  BY DEF ContextOK, OnNode, OnPlainNode

LEMMA OnNodeGrows ==
  \A h, m, g, n, c : Grows(h, g) /\ DOMAIN m \subseteq DOMAIN n /\ OnNode(h, m, c)
    => OnNode(g, n, c) /\ g[c.cur.node] = h[c.cur.node]
  <1> SUFFICES ASSUME NEW h, NEW m, NEW g, NEW n, NEW c,
                      Grows(h, g), DOMAIN m \subseteq DOMAIN n, OnNode(h, m, c)
               PROVE  OnNode(g, n, c) /\ g[c.cur.node] = h[c.cur.node]
    OBVIOUS
  <1>1. \A s : Held(h, m, s) => Held(g, n, s) /\ g[s.node] = h[s.node]
    BY InUseGrows DEF Held
  <1> QED  BY <1>1 DEF OnNode

\* A thread that only works on its own goes on.
LEMMA OwnStep ==
  ASSUME LockInv, NEW t \in Threads, UNCHANGED <<heap, mapping_table>>, ~HoldsParent(t)
  PROVE  \A d : Goes(t, d) /\ GoesOn(heap, mapping_table, d) => StepOK
  <1>1. Changes
    BY NothingChanges
  <1>2. \A d : GoesOn(heap, mapping_table, d) =>
                 ContextOK(heap', mapping_table', d) /\ KeepsLock(t, d)
    BY DEF GoesOn, KeepsLock
  <1> QED  BY <1>1, <1>2, LocksStay

\* A thread that has linked a record goes on.
LEMMA InstallStep ==
  ASSUME LockInv, NEW t \in Threads, Changes, ~HoldsParent(t)
  PROVE  \A d : Goes(t, d) /\ GoesOn(heap', mapping_table', d) => StepOK
  <1>1. \A d : GoesOn(heap', mapping_table', d) =>
                 ContextOK(heap', mapping_table', d) /\ KeepsLock(t, d)
    BY DEF GoesOn, KeepsLock
  <1> QED  BY <1>1, LocksStay

LEMMA LoadRootStep ==
  ASSUME LockInv, NEW t \in Threads, LoadRoot(t)
  PROVE  StepOK
  <1> DEFINE c == ctx[t]
             d == [c EXCEPT !.pc = "load", !.want = root_id]
  <1>1. /\ ContextOK(heap, mapping_table, c) /\ c.pc = "root" /\ Goes(t, d)
        /\ UNCHANGED <<heap, mapping_table>>
    BY DEF LoadRoot, At, OnlyContext, tree, LockInv, ContextsOK
  <1>2. Keeps(c, d) /\ d.pc = "load"
    BY <1>1, Zenon DEF Keeps, ContextOK, Idle
  <1> HIDE DEF d
  <1>3. GoesOn(heap, mapping_table, d)
    BY <1>1, <1>2 DEF GoesOn, ContextOK, Keeps, PCs, MayBeRemoved, NeedsNode, NeedsParent
  <1> QED  BY <1>1, <1>3, OwnStep DEF HoldsParent

LEMMA LoadNodeIDStep ==
  ASSUME LockInv, NEW t \in Threads, LoadNodeID(t)
  PROVE  StepOK
  <1> DEFINE c == ctx[t]
             e == [c EXCEPT !.par = c.cur, !.cur = Snapshot(c.want)]
             f == [e EXCEPT !.cur.node = UnderAbort(heap, @)]
             s == [id |-> c.want, node |-> UnderAbort(heap, mapping_table[c.want])]
  <1>1. /\ ContextOK(heap, mapping_table, c) /\ c.pc = "load"
        /\ Goes(t, IF HasNode(c.want) THEN FinishPartialSMO(heap, e) ELSE Failed(c))
        /\ UNCHANGED <<heap, mapping_table>>
    BY DEF LoadNodeID, At, OnlyContext, tree, LockInv, ContextsOK
  <1>2. CASE ~HasNode(c.want)
    BY <1>1, <1>2, FailedGoesOn, OwnStep DEF HoldsParent
  <1>3. CASE HasNode(c.want)
    <2>1. DOMAIN f = DOMAIN Idle /\ f.cur = s /\ f.par = c.cur /\ f.stack = c.stack
      BY <1>1, Zenon DEF ContextOK, Idle, Snapshot
    <2>2. Held(heap, mapping_table, s) /\ s \in [id : Nat, node : Nat] /\ s # NoSnapshot
      BY <1>3, LoadHeld
    <2>3. mapping_table \in Seq(Nat)
      BY DEF LockInv, MemoryOK
    <2> HIDE DEF f, s
    <2>4. OnNode(heap, mapping_table, f)
      BY <1>1, <2>1, <2>2 DEF OnNode, ContextOK, MayBeRemoved
    <2>5. GoesOn(heap, mapping_table, FinishPartialSMO(heap, e))
      BY <2>3, <2>4, FinishGoesOn DEF f
    <2> QED  BY <1>1, <1>3, <2>5, OwnStep DEF HoldsParent
  <1> QED  BY <1>2, <1>3

LEMMA LoadReadOptimizedStep ==
  ASSUME LockInv, NEW t \in Threads, LoadNodeIDReadOptimized(t)
  PROVE  StepOK
  <1> DEFINE c == ctx[t]
             e == [c EXCEPT !.cur = Snapshot(c.want)]
             f == [e EXCEPT !.cur.node = UnderAbort(heap, @)]
             s == [id |-> c.want, node |-> UnderAbort(heap, mapping_table[c.want])]
  <1>1. /\ ContextOK(heap, mapping_table, c) /\ c.pc = "load"
        /\ Goes(t, IF HasNode(c.want) THEN FinishPartialSMOReadOptimized(heap, e) ELSE Failed(c))
        /\ UNCHANGED <<heap, mapping_table>>
    BY DEF LoadNodeIDReadOptimized, At, OnlyContext, tree, LockInv, ContextsOK
  <1>2. CASE ~HasNode(c.want)
    BY <1>1, <1>2, FailedGoesOn, OwnStep DEF HoldsParent
  <1>3. CASE HasNode(c.want)
    <2>1. DOMAIN f = DOMAIN Idle /\ f.cur = s /\ f.par = c.par /\ f.stack = c.stack
      BY <1>1, Zenon DEF ContextOK, Idle, Snapshot
    <2>2. Held(heap, mapping_table, s) /\ s \in [id : Nat, node : Nat] /\ s # NoSnapshot
      BY <1>3, LoadHeld
    <2> HIDE DEF f, s
    <2>3. OnNode(heap, mapping_table, f) /\ f.stack = <<>>
      BY <1>1, <2>1, <2>2 DEF OnNode, ContextOK
    <2>4. GoesOn(heap, mapping_table, FinishPartialSMOReadOptimized(heap, e))
      BY <2>3, FinishReadOptimizedGoesOn DEF f
    <2> QED  BY <1>1, <1>3, <2>4, OwnStep DEF HoldsParent
  <1> QED  BY <1>2, <1>3

LEMMA JumpToNodeIDStep ==
  ASSUME LockInv, NEW t \in Threads, JumpToNodeID(t)
  PROVE  StepOK
  <1> DEFINE c == ctx[t]
             e == [c EXCEPT !.cur = Snapshot(c.want)]
             f == [e EXCEPT !.cur.node = UnderAbort(heap, @)]
             s == [id |-> c.want, node |-> UnderAbort(heap, mapping_table[c.want])]
             other == heap[e.cur.node].leaf = heap[c.cur.node].leaf /\ c.cur.id # c.want
  <1>1. /\ ContextOK(heap, mapping_table, c) /\ c.pc = "jump"
        /\ Goes(t, IF HasNode(c.want) /\ other THEN FinishPartialSMO(heap, e) ELSE Failed(c))
        /\ UNCHANGED <<heap, mapping_table>>
    BY DEF JumpToNodeID, At, OnlyContext, tree, LockInv, ContextsOK
  <1> HIDE DEF other
  <1>2. CASE ~(HasNode(c.want) /\ other)
    BY <1>1, <1>2, FailedGoesOn, OwnStep DEF HoldsParent
  <1>3. CASE HasNode(c.want) /\ other
    <2>1. DOMAIN f = DOMAIN Idle /\ f.cur = s /\ f.par = c.par /\ f.stack = c.stack
      BY <1>1, Zenon DEF ContextOK, Idle, Snapshot
    <2>2. Held(heap, mapping_table, s) /\ s \in [id : Nat, node : Nat] /\ s # NoSnapshot
      BY <1>3, LoadHeld
    <2>3. mapping_table \in Seq(Nat)
      BY DEF LockInv, MemoryOK
    <2> HIDE DEF f, s
    <2>4. OnNode(heap, mapping_table, f)
      BY <1>1, <2>1, <2>2 DEF OnNode, ContextOK
    <2>5. GoesOn(heap, mapping_table, FinishPartialSMO(heap, e))
      BY <2>3, <2>4, FinishGoesOn DEF f
    <2> QED  BY <1>1, <1>3, <2>5, OwnStep DEF HoldsParent
  <1> QED  BY <1>2, <1>3

LEMMA FindLeftStep ==
  ASSUME LockInv, NEW t \in Threads, FindLeft(t)
  PROVE  StepOK
  <1> DEFINE c == ctx[t]
             d == [c EXCEPT !.pc = "jump",
                            !.want = FindLeftSibling(heap, c.par.node, Head(c.stack).low)]
  <1>1. /\ ContextOK(heap, mapping_table, c) /\ c.pc = "left"
        /\ \E x \in {Abort(c), Failed(c), To(c, "find"), d} : Goes(t, x)
        /\ UNCHANGED <<heap, mapping_table>>
    BY Zenon DEF FindLeft, At, OnlyContext, tree, LockInv, ContextsOK
  <1>2. OnNode(heap, mapping_table, c) /\ c.par # NoSnapshot /\ DOMAIN c = DOMAIN Idle
    BY <1>1, ContextOnNode DEF NeedsNode, NeedsParent, ContextOK
  <1>3. Keeps(c, d) /\ d.pc = "jump"
    BY <1>2, Zenon DEF Keeps, Idle
  <1> HIDE DEF d
  <1>4. GoesOn(heap, mapping_table, d)
    BY <1>2, <1>3, KeepsGoesOn DEF PCs, NeedsParent, MayBeRemoved
  <1>5. GoesOn(heap, mapping_table, To(c, "find"))
    BY <1>2, ToKeeps, KeepsGoesOn DEF PCs, MayBeRemoved
  <1>6. GoesOn(heap, mapping_table, Abort(c)) /\ GoesOn(heap, mapping_table, Failed(c))
    BY <1>1, <1>2, AbortGoesOn, FailedGoesOn
  <1> QED  BY <1>1, <1>4, <1>5, <1>6, OwnStep DEF HoldsParent

\* The snapshot of the record just linked.
LEMMA NewSnapshot ==
  \A h, m, s, a, r :
    /\ s \in [id : Nat, node : Nat] /\ s.id \in DOMAIN m
    /\ a \in DOMAIN h /\ a \in Nat \ {0} /\ h[a].type \in NodeKinds \ {"Abort"}
    /\ r = [s EXCEPT !.node = a]
    => /\ r \in [id : Nat, node : Nat] /\ r # NoSnapshot /\ r.node = a /\ r.id = s.id
       /\ Held(h, m, r)
  <1> SUFFICES ASSUME NEW h, NEW m, NEW s, NEW a, NEW r,
                      s \in [id : Nat, node : Nat], s.id \in DOMAIN m,
                      a \in DOMAIN h, a \in Nat \ {0}, h[a].type \in NodeKinds \ {"Abort"},
                      r = [s EXCEPT !.node = a]
               PROVE  /\ r \in [id : Nat, node : Nat] /\ r # NoSnapshot
                      /\ r.node = a /\ r.id = s.id /\ Held(h, m, r)
    OBVIOUS
  <1>1. r = [id |-> s.id, node |-> a]
    OBVIOUS
  <1>2. r \in [id : Nat, node : Nat] /\ r # NoSnapshot /\ r.node = a /\ r.id = s.id
    BY <1>1 DEF NoSnapshot
  <1>3. Held(h, m, r)
    BY <1>2 DEF Held
  <1> QED  BY <1>2, <1>3

\* The thread has another parent record.
LEMMA NewParentGoesOn ==
  \A h, m, c, d :
    /\ OnNode(h, m, c) /\ DOMAIN d = DOMAIN Idle
    /\ d.cur = c.cur /\ d.stack = c.stack
    /\ d.par \in [id : Nat, node : Nat] /\ d.par # NoSnapshot
    /\ Held(h, m, d.par) /\ h[d.par.node].type # "Remove"
    /\ d.pc \in PCs \ {"idle", "drop", "unabort", "root", "load"}
    /\ d.pc \in MayBeRemoved \/ h[c.cur.node].type # "Remove"
    => GoesOn(h, m, d)
  BY DEF GoesOn, ContextOK, OnNode

\* What a step that links a record in place of the parent does.
LEMMA ParentInstalled ==
  ASSUME LockInv, NEW t \in Threads, ctx[t].pc \in NeedsParent, CanInstall(ctx[t].par)
  PROVE  \A n, p :
           /\ InstallNodeToReplace(ctx[t].par, n) /\ n.type \in NodeKinds \ {"Abort", "Remove"}
           /\ p = [ctx[t].par EXCEPT !.node = New]
           => /\ Changes
              /\ OnNode(heap', mapping_table', ctx[t])
              /\ heap'[ctx[t].cur.node] = heap[ctx[t].cur.node]
              /\ p \in [id : Nat, node : Nat] /\ p # NoSnapshot
              /\ Held(heap', mapping_table', p) /\ heap'[p.node].type # "Remove"
  <1> DEFINE c == ctx[t]
  <1> SUFFICES ASSUME NEW n, NEW p, InstallNodeToReplace(c.par, n),
                      n.type \in NodeKinds \ {"Abort", "Remove"},
                      p = [c.par EXCEPT !.node = New]
               PROVE  /\ Changes
                      /\ OnNode(heap', mapping_table', c)
                      /\ heap'[c.cur.node] = heap[c.cur.node]
                      /\ p \in [id : Nat, node : Nat] /\ p # NoSnapshot
                      /\ Held(heap', mapping_table', p) /\ heap'[p.node].type # "Remove"
    OBVIOUS
  <1>1. ContextOK(heap, mapping_table, c)
    BY DEF LockInv, ContextsOK
  <1>2. /\ OnNode(heap, mapping_table, c) /\ Held(heap, mapping_table, c.par)
        /\ heap[c.par.node].type # "Remove"
    BY <1>1, ContextOnNode DEF NeedsNode
  <1>3. /\ Changes
        /\ DOMAIN mapping_table' = DOMAIN mapping_table
        /\ New \in DOMAIN heap' /\ New \in Nat \ {0} /\ heap'[New] = n
    BY <1>2, InstallChanges
  <1>4. OnNode(heap', mapping_table', c) /\ heap'[c.cur.node] = heap[c.cur.node]
    BY <1>2, <1>3, OnNodeGrows DEF Changes
  <1>5. c.par \in [id : Nat, node : Nat] /\ c.par.id \in DOMAIN mapping_table'
    BY <1>1, <1>2, <1>3 DEF ContextOK, Held
  <1>6. /\ p \in [id : Nat, node : Nat] /\ p # NoSnapshot /\ p.node = New
        /\ Held(heap', mapping_table', p)
    BY <1>3, <1>5, NewSnapshot
  <1> QED  BY <1>3, <1>4, <1>6

LEMMA FindLeftInMergedStep ==
  ASSUME LockInv, NEW t \in Threads, FindLeftInMerged(t)
  PROVE  StepOK
  <1> DEFINE c == ctx[t]
             n == CollectAllSepsOnInner(heap, c.par.node, heap[c.par.node].depth + 1)
             to == [c EXCEPT !.pc = "jump",
                             !.want = FindLeftSibling(heap, c.par.node, Head(c.stack).low)]
             d == [to EXCEPT !.par.node = New]
             p == [c.par EXCEPT !.node = New]
  <1>1. /\ ContextOK(heap, mapping_table, c) /\ c.pc = "find" /\ ~HoldsParent(t)
        /\ \/ CanInstall(c.par) /\ InstallNodeToReplace(c.par, n) /\ Goes(t, d)
           \/ Goes(t, to) /\ UNCHANGED <<heap, mapping_table>>
    BY Zenon DEF FindLeftInMerged, At, tree, LockInv, ContextsOK, HoldsParent
  <1>2. OnNode(heap, mapping_table, c) /\ DOMAIN c = DOMAIN Idle
    BY <1>1, ContextOnNode DEF NeedsNode, NeedsParent, ContextOK
  <1>3. Keeps(c, to) /\ to.pc = "jump"
    BY <1>2, Zenon DEF Keeps, Idle
  <1>4. /\ DOMAIN d = DOMAIN Idle /\ d.pc = "jump" /\ d.par = p
        /\ d.cur = c.cur /\ d.stack = c.stack
    BY <1>2, Zenon DEF Idle
  <1>5. n.type = "Base"
    BY DEF CollectAllSepsOnInner, ElasticNode
  <1> HIDE DEF to, d, n
  <1>6. CASE CanInstall(c.par) /\ InstallNodeToReplace(c.par, n) /\ Goes(t, d)
    <2>1. /\ Changes
          /\ OnNode(heap', mapping_table', c)
          /\ p \in [id : Nat, node : Nat] /\ p # NoSnapshot
          /\ Held(heap', mapping_table', p) /\ heap'[p.node].type # "Remove"
      BY <1>1, <1>5, <1>6, ParentInstalled DEF NeedsParent, NodeKinds
    <2> HIDE DEF p
    <2>2. GoesOn(heap', mapping_table', d)
      BY <1>4, <2>1, NewParentGoesOn DEF PCs, MayBeRemoved
    <2> QED  BY <1>1, <1>6, <2>1, <2>2, InstallStep
  <1>7. CASE Goes(t, to) /\ UNCHANGED <<heap, mapping_table>>
    <2>1. GoesOn(heap, mapping_table, to)
      BY <1>2, <1>3, KeepsGoesOn DEF PCs, NeedsParent, MayBeRemoved
    <2> QED  BY <1>1, <1>7, <2>1, OwnStep
  <1> QED  BY <1>1, <1>6, <1>7

\* What a step that links a record in place of the current node does.
LEMMA NodeInstalled ==
  ASSUME LockInv, NEW t \in Threads, ctx[t].pc \in NeedsNode \ MayBeRemoved, CanInstall(ctx[t].cur)
  PROVE  \A n, e :
           /\ InstallNodeToReplace(ctx[t].cur, n) /\ n.type \in NodeKinds \ {"Abort", "Remove"}
           /\ DOMAIN e = DOMAIN Idle /\ e.par = ctx[t].par
           /\ e.stack # <<>> => e.par # NoSnapshot
           /\ e.cur = [ctx[t].cur EXCEPT !.node = New]
           => Changes /\ OnPlainNode(heap', mapping_table', e)
  <1> DEFINE c == ctx[t]
  <1> SUFFICES ASSUME NEW n, NEW e, InstallNodeToReplace(c.cur, n),
                      n.type \in NodeKinds \ {"Abort", "Remove"},
                      DOMAIN e = DOMAIN Idle, e.par = c.par, e.stack # <<>> => e.par # NoSnapshot,
                      e.cur = [c.cur EXCEPT !.node = New]
               PROVE  Changes /\ OnPlainNode(heap', mapping_table', e)
    OBVIOUS
  <1>1. ContextOK(heap, mapping_table, c)
    BY DEF LockInv, ContextsOK
  <1>2. /\ OnNode(heap, mapping_table, c) /\ Held(heap, mapping_table, c.cur)
        /\ heap[c.cur.node].type # "Remove"
    BY <1>1, ContextOnNode DEF OnNode, OnPlainNode
  <1>3. /\ Changes
        /\ DOMAIN mapping_table' = DOMAIN mapping_table
        /\ New \in DOMAIN heap' /\ New \in Nat \ {0} /\ heap'[New] = n
    BY <1>2, InstallChanges
  <1>4. OnNode(heap', mapping_table', c)
    BY <1>2, <1>3, OnNodeGrows DEF Changes
  <1>5. c.cur \in [id : Nat, node : Nat] /\ c.cur.id \in DOMAIN mapping_table'
    BY <1>1, <1>2, <1>3 DEF ContextOK, Held
  <1>6. /\ e.cur \in [id : Nat, node : Nat] /\ e.cur # NoSnapshot /\ e.cur.node = New
        /\ Held(heap', mapping_table', e.cur)
    <2>1. PICK s, a, r : s = c.cur /\ a = New /\ r = [s EXCEPT !.node = a]
      OBVIOUS
    <2>2. /\ s \in [id : Nat, node : Nat] /\ s.id \in DOMAIN mapping_table'
          /\ a \in DOMAIN heap' /\ a \in Nat \ {0}
          /\ heap'[a].type \in NodeKinds \ {"Abort"}
      <3>1. s = c.cur /\ a = New
        BY <2>1
      <3> QED  BY <1>3, <1>5, <3>1
    <2>3. r = [s EXCEPT !.node = a]
      BY <2>1, Zenon
    <2>4. /\ r \in [id : Nat, node : Nat] /\ r # NoSnapshot /\ r.node = a
          /\ Held(heap', mapping_table', r)
      BY <2>2, <2>3, NewSnapshot
    <2>5. r = e.cur /\ a = New
      BY <2>1, Zenon
    <2> QED  BY <2>4, <2>5
  <1>7. OnNode(heap', mapping_table', e)
    BY <1>4, <1>6 DEF OnNode
  <1> QED  BY <1>3, <1>6, <1>7 DEF OnPlainNode

LEMMA PostMergeNodeStep ==
  ASSUME LockInv, NEW t \in Threads, PostMergeNode(t)
  PROVE  StepOK
  <1> DEFINE c == ctx[t]
             n == MergeNode(heap, c.cur.node, heap[c.cur.node].high.key, Head(c.stack).right,
                            Head(c.stack).id)
             d == [c EXCEPT !.pc = "merged", !.cur.node = New, !.stack = Tail(@)]
  <1>1. /\ ContextOK(heap, mapping_table, c) /\ c.pc = "merge" /\ ~HoldsParent(t)
        /\ \/ CanInstall(c.cur) /\ InstallNodeToReplace(c.cur, n) /\ Goes(t, d)
           \/ Goes(t, Abort(c)) /\ UNCHANGED <<heap, mapping_table>>
    BY Zenon DEF PostMergeNode, At, tree, LockInv, ContextsOK, HoldsParent
  <1>2. /\ OnNode(heap, mapping_table, c) /\ DOMAIN c = DOMAIN Idle
        /\ c.par # NoSnapshot /\ c.pc \in NeedsNode \ MayBeRemoved
    BY <1>1, ContextOnNode DEF NeedsNode, NeedsParent, MayBeRemoved, ContextOK
  <1>3. /\ DOMAIN d = DOMAIN Idle /\ d.pc = "merged" /\ d.par = c.par
        /\ d.cur = [c.cur EXCEPT !.node = New]
    BY <1>2, Zenon DEF Idle
  <1>4. n.type = "Merge"
    BY Constructed
  <1> HIDE DEF d, n
  <1>5. CASE CanInstall(c.cur) /\ InstallNodeToReplace(c.cur, n) /\ Goes(t, d)
    <2>1. Changes /\ OnPlainNode(heap', mapping_table', d)
      BY <1>2, <1>3, <1>4, <1>5, NodeInstalled DEF NodeKinds
    <2>2. Keeps(d, d) /\ d.par # NoSnapshot
      BY <1>2, <1>3 DEF Keeps
    <2>3. GoesOn(heap', mapping_table', d)
      BY <1>3, <2>1, <2>2, KeepsGoesOn DEF OnPlainNode, PCs
    <2> QED  BY <1>1, <1>5, <2>1, <2>3, InstallStep
  <1>6. CASE Goes(t, Abort(c)) /\ UNCHANGED <<heap, mapping_table>>
    BY <1>1, <1>2, <1>6, AbortGoesOn, OwnStep
  <1> QED  BY <1>1, <1>5, <1>6

LEMMA PostInnerDeleteNodeStep ==
  ASSUME LockInv, NEW t \in Threads, PostInnerDeleteNode(t)
  PROVE  StepOK
  <1> DEFINE c == ctx[t]
             n == heap[c.cur.node]
             f == FindSeparator(heap, c.par.node, n.item.key, heap[c.par.node].low.id)
             gone == GetNode(n.item.id)
             delete == InnerDeleteNode(heap, c.par.node, n.item, Pair(n.low.key, c.cur.id),
                                       heap[n.right].high, f.location)
             d == [c EXCEPT !.pc = "tidy", !.par.node = New]
             p == [c.par EXCEPT !.node = New]
  <1>1. /\ ContextOK(heap, mapping_table, c) /\ c.pc = "merged" /\ ~HoldsParent(t)
        /\ \/ \E x \in {Abort(c), TryConsolidateNode(heap, c)} :
                 Goes(t, x) /\ UNCHANGED <<heap, mapping_table>>
           \/ /\ CanInstall(c.par) /\ InstallNodeToReplace(c.par, delete)
              /\ \E x \in {d, Failed(c)} : Goes(t, x)
    BY Zenon DEF PostInnerDeleteNode, At, tree, LockInv, ContextsOK, HoldsParent
  <1>2. OnPlainNode(heap, mapping_table, c) /\ DOMAIN c = DOMAIN Idle /\ c.pc \in NeedsParent
    BY <1>1, ContextOnNode DEF NeedsNode, NeedsParent, MayBeRemoved, ContextOK
  <1>3. /\ DOMAIN d = DOMAIN Idle /\ d.pc = "tidy" /\ d.par = p
        /\ d.cur = c.cur /\ d.stack = c.stack
    BY <1>2, Zenon DEF Idle
  <1>4. delete.type = "Delete"
    BY Constructed
  <1> HIDE DEF d, delete
  <1>5. CASE \E x \in {Abort(c), TryConsolidateNode(heap, c)} :
               Goes(t, x) /\ UNCHANGED <<heap, mapping_table>>
    <2>1. mapping_table \in Seq(Nat)
      BY DEF LockInv, MemoryOK
    <2> QED  BY <1>1, <1>2, <1>5, <2>1, AbortGoesOn, TryConsolidateGoesOn, OwnStep
  <1>6. CASE /\ CanInstall(c.par) /\ InstallNodeToReplace(c.par, delete)
             /\ \E x \in {d, Failed(c)} : Goes(t, x)
    <2>1. /\ Changes
          /\ OnNode(heap', mapping_table', c) /\ heap'[c.cur.node] = heap[c.cur.node]
          /\ p \in [id : Nat, node : Nat] /\ p # NoSnapshot
          /\ Held(heap', mapping_table', p) /\ heap'[p.node].type # "Remove"
      BY <1>2, <1>4, <1>6, ParentInstalled DEF NodeKinds
    <2> HIDE DEF p
    <2>2. GoesOn(heap', mapping_table', d)
      BY <1>2, <1>3, <2>1, NewParentGoesOn DEF PCs, OnPlainNode
    <2>3. GoesOn(heap', mapping_table', Failed(c))
      BY <1>1, <2>1, ContextGrows, FailedGoesOn DEF Changes
    <2> QED  BY <1>1, <1>6, <2>1, <2>2, <2>3, InstallStep
  <1> QED  BY <1>1, <1>5, <1>6

LEMMA PostInnerInsertNodeStep ==
  ASSUME LockInv, NEW t \in Threads, PostInnerInsertNode(t)
  PROVE  StepOK
  <1> DEFINE c == ctx[t]
             n == heap[c.cur.node]
             f == FindSeparator(heap, c.par.node, n.item.key, heap[c.par.node].low.id)
             insert == InnerInsertNode(heap, c.par.node, n.item, heap[n.child].high, f.location)
             d == [c EXCEPT !.pc = "tidy", !.par.node = New]
             p == [c.par EXCEPT !.node = New]
  <1>1. /\ ContextOK(heap, mapping_table, c) /\ c.pc = "post" /\ ~HoldsParent(t)
        /\ \/ Goes(t, Abort(c)) /\ UNCHANGED <<heap, mapping_table>>
           \/ CanInstall(c.par) /\ InstallNodeToReplace(c.par, insert) /\ Goes(t, d)
    BY Zenon DEF PostInnerInsertNode, At, LockInv, ContextsOK, HoldsParent
  <1>2. OnPlainNode(heap, mapping_table, c) /\ DOMAIN c = DOMAIN Idle /\ c.pc \in NeedsParent
    BY <1>1, ContextOnNode DEF NeedsNode, NeedsParent, MayBeRemoved, ContextOK
  <1>3. /\ DOMAIN d = DOMAIN Idle /\ d.pc = "tidy" /\ d.par = p
        /\ d.cur = c.cur /\ d.stack = c.stack
    BY <1>2, Zenon DEF Idle
  <1>4. insert.type = "Insert"
    BY Constructed
  <1> HIDE DEF d, insert
  <1>5. CASE Goes(t, Abort(c)) /\ UNCHANGED <<heap, mapping_table>>
    BY <1>1, <1>2, <1>5, AbortGoesOn, OwnStep
  <1>6. CASE CanInstall(c.par) /\ InstallNodeToReplace(c.par, insert) /\ Goes(t, d)
    <2>1. /\ Changes
          /\ OnNode(heap', mapping_table', c) /\ heap'[c.cur.node] = heap[c.cur.node]
          /\ p \in [id : Nat, node : Nat] /\ p # NoSnapshot
          /\ Held(heap', mapping_table', p) /\ heap'[p.node].type # "Remove"
      BY <1>2, <1>4, <1>6, ParentInstalled DEF NodeKinds
    <2> HIDE DEF p
    <2>2. GoesOn(heap', mapping_table', d)
      BY <1>2, <1>3, <2>1, NewParentGoesOn DEF PCs, OnPlainNode
    <2> QED  BY <1>1, <1>6, <2>1, <2>2, InstallStep
  <1> QED  BY <1>1, <1>5, <1>6

\* A new id, with or without a node.
LEMMA AppendChanges ==
  ASSUME LockInv
  PROVE  \A a : /\ MemoryOK' /\ Grows(heap, heap')
                /\ mapping_table' = Append(mapping_table, a)
                /\ a # 0 => a \in DOMAIN heap' /\ heap'[a].type \in NodeKinds \ {"Abort"}
                => Changes
  <1> SUFFICES ASSUME NEW a, MemoryOK', Grows(heap, heap'),
                      mapping_table' = Append(mapping_table, a),
                      a # 0 => a \in DOMAIN heap' /\ heap'[a].type \in NodeKinds \ {"Abort"}
               PROVE  Changes
    OBVIOUS
  <1>1. mapping_table \in Seq(Nat) /\ Len(mapping_table) \in Nat
    BY DEF LockInv, MemoryOK
  <1>2. /\ DOMAIN mapping_table = 1..Len(mapping_table)
        /\ DOMAIN mapping_table' = 1..(Len(mapping_table) + 1)
        /\ mapping_table'[Len(mapping_table) + 1] = a
        /\ \A i \in 1..Len(mapping_table) : mapping_table'[i] = mapping_table[i]
    <2>1. mapping_table' \in Seq(Nat) /\ DOMAIN mapping_table = 1..Len(mapping_table)
      BY <1>1 DEF MemoryOK
    <2>2. PICK S : mapping_table \in Seq(S) /\ a \in S
      <3>1. mapping_table \in Seq(Nat \cup {a}) /\ a \in Nat \cup {a}
        BY <1>1
      <3> QED  BY <3>1
    <2> QED  BY <2>1, <2>2
  <1>3. DOMAIN mapping_table \subseteq DOMAIN mapping_table'
    BY <1>1, <1>2
  <1>4. ASSUME NEW i \in DOMAIN mapping_table'
        PROVE  \/ i \in DOMAIN mapping_table /\ mapping_table'[i] = mapping_table[i]
               \/ i \notin DOMAIN mapping_table /\ mapping_table'[i] = a
    <2>1. i \in 1..Len(mapping_table) \/ i = Len(mapping_table) + 1
      BY <1>1, <1>2
    <2>2. Len(mapping_table) + 1 \notin 1..Len(mapping_table)
      BY <1>1
    <2> QED  BY <1>2, <2>1, <2>2
  <1> QED  BY <1>3, <1>4 DEF Changes

LEMMA InstallRootNodeStep ==
  ASSUME LockInv, NEW t \in Threads, InstallRootNode(t)
  PROVE  StepOK
  <1> DEFINE c == ctx[t]
             first == Pair(0, c.cur.id)
             root == ElasticNode(FALSE, <<first, heap[c.cur.node].item>>, first,
                                 Pair(0, Invalid), 0, 2)
  <1>1. /\ ContextOK(heap, mapping_table, c) /\ c.pc = "grow" /\ ~HoldsParent(t)
        /\ Goes(t, Abort(c))
        /\ \/ heap' = Put(heap, root) /\ mapping_table' = Append(mapping_table, New)
           \/ heap' = heap /\ mapping_table' = Append(mapping_table, 0)
    BY Zenon DEF InstallRootNode, At, LockInv, ContextsOK, HoldsParent
  <1>2. root.type = "Base"
    BY DEF ElasticNode
  <1> HIDE DEF root
  <1>3. heap \in Seq(Range(heap)) /\ mapping_table \in Seq(Nat)
    BY DEF LockInv, MemoryOK
  <1>4. ASSUME heap' = Put(heap, root), mapping_table' = Append(mapping_table, New)
        PROVE  Changes
    <2>1. /\ heap' \in Seq(Range(heap')) /\ Grows(heap, heap')
          /\ New \in DOMAIN heap' /\ New \in Nat /\ heap'[New] = root
      BY <1>3, <1>4, PutGrows DEF New
    <2>2. mapping_table' \in Seq(Nat)
      BY <1>3, <1>4, <2>1
    <2> QED  BY <1>2, <1>4, <2>1, <2>2, AppendChanges DEF MemoryOK, NodeKinds
  <1>5. ASSUME heap' = heap, mapping_table' = Append(mapping_table, 0)
        PROVE  Changes
    <2>1. mapping_table' \in Seq(Nat) /\ heap' \in Seq(Range(heap')) /\ Grows(heap, heap')
      BY <1>3, <1>5 DEF Grows
    <2> QED  BY <1>5, <2>1, AppendChanges DEF MemoryOK
  <1>6. GoesOn(heap', mapping_table', Abort(c))
    BY <1>1, AbortGoesOn DEF ContextOK
  <1> QED  BY <1>1, <1>4, <1>5, <1>6, InstallStep

LEMMA CheckClashStep ==
  ASSUME LockInv, NEW t \in Threads, CheckClash(t)
  PROVE  StepOK
  <1> DEFINE c == ctx[t]
  <1>1. /\ ContextOK(heap, mapping_table, c) /\ c.pc = "clash" /\ ~HoldsParent(t)
        /\ \E x \in {Abort(c), Failed(c)} : Goes(t, x)
        /\ UNCHANGED <<heap, mapping_table>>
    BY Zenon DEF CheckClash, At, OnlyContext, tree, LockInv, ContextsOK, HoldsParent
  <1>2. GoesOn(heap, mapping_table, Abort(c)) /\ GoesOn(heap, mapping_table, Failed(c))
    BY <1>1, AbortGoesOn, FailedGoesOn DEF ContextOK
  <1> QED  BY <1>1, <1>2, OwnStep

LEMMA ConsolidateNodeStep ==
  ASSUME LockInv, NEW t \in Threads, ConsolidateNode(t)
  PROVE  StepOK
  <1> DEFINE c == ctx[t]
             n == Consolidated(heap, c.cur.node)
             e == [c EXCEPT !.cur.node = New]
  <1>1. /\ ContextOK(heap, mapping_table, c) /\ c.pc \in {"consolidate", "tidy"}
        /\ ~HoldsParent(t)
        /\ \/ /\ CanInstall(c.cur) /\ InstallNodeToReplace(c.cur, n)
              /\ Goes(t, AfterConsolidation(heap', e))
           \/ Goes(t, AfterConsolidation(heap, c)) /\ UNCHANGED <<heap, mapping_table>>
    BY Zenon DEF ConsolidateNode, At, tree, LockInv, ContextsOK, HoldsParent
  <1>2. /\ OnPlainNode(heap, mapping_table, c) /\ DOMAIN c = DOMAIN Idle
        /\ c.pc \in NeedsNode \ MayBeRemoved /\ (c.stack # <<>> => c.par # NoSnapshot)
    BY <1>1, ContextOnNode DEF NeedsNode, NeedsParent, MayBeRemoved, ContextOK
  <1>3. /\ DOMAIN e = DOMAIN Idle /\ e.par = c.par /\ e.stack = c.stack
        /\ e.cur = [c.cur EXCEPT !.node = New]
    BY <1>2, Zenon DEF Idle
  <1>4. n.type = "Base"
    BY DEF Consolidated, CollectAllSepsOnInner, CollectAllValuesOnLeaf, ElasticNode
  <1>5. \A h, m, x : m \in Seq(Nat) /\ OnPlainNode(h, m, x)
                     => GoesOn(h, m, AfterConsolidation(h, x))
    BY TryConsolidateGoesOn, AdjustGoesOn DEF AfterConsolidation
  <1> HIDE DEF e, n
  <1>6. CASE /\ CanInstall(c.cur) /\ InstallNodeToReplace(c.cur, n)
             /\ Goes(t, AfterConsolidation(heap', e))
    <2>1. Changes /\ OnPlainNode(heap', mapping_table', e)
      BY <1>2, <1>3, <1>4, <1>6, NodeInstalled DEF NodeKinds
    <2>2. mapping_table' \in Seq(Nat)
      BY <2>1 DEF Changes, MemoryOK
    <2>3. GoesOn(heap', mapping_table', AfterConsolidation(heap', e))
      BY <1>5, <2>1, <2>2
    <2> QED  BY <1>1, <1>6, <2>1, <2>3, InstallStep
  <1>7. CASE Goes(t, AfterConsolidation(heap, c)) /\ UNCHANGED <<heap, mapping_table>>
    <2>1. mapping_table \in Seq(Nat)
      BY DEF LockInv, MemoryOK
    <2> QED  BY <1>1, <1>2, <1>5, <1>7, <2>1, OwnStep
  <1> QED  BY <1>1, <1>6, <1>7

LEMMA CheckSplitChildStep ==
  ASSUME LockInv, NEW t \in Threads, CheckSplitChild(t)
  PROVE  StepOK
  <1> DEFINE c == ctx[t]
  <1>1. /\ ContextOK(heap, mapping_table, c) /\ c.pc = "peek" /\ ~HoldsParent(t)
        /\ \E x \in {Loaded(heap, c), To(c, "halve")} : Goes(t, x)
        /\ UNCHANGED <<heap, mapping_table>>
    BY Zenon DEF CheckSplitChild, At, OnlyContext, tree, LockInv, ContextsOK, HoldsParent
  <1>2. OnPlainNode(heap, mapping_table, c) /\ DOMAIN c = DOMAIN Idle
    BY <1>1, ContextOnNode DEF NeedsNode, NeedsParent, MayBeRemoved, ContextOK
  <1>3. GoesOn(heap, mapping_table, To(c, "halve"))
    BY <1>2, ToKeeps, KeepsGoesOn DEF OnPlainNode, PCs, NeedsParent
  <1> QED  BY <1>1, <1>2, <1>3, LoadedGoesOn, OwnStep

LEMMA SplitNodeInTwoStep ==
  ASSUME LockInv, NEW t \in Threads, SplitNodeInTwo(t)
  PROVE  StepOK
  <1> DEFINE c == ctx[t]
             n == heap[c.cur.node]
             sibling == IF n.leaf THEN LeafSplitSibling(n, LEAF_NODE_SIZE_LOWER_THRESHOLD)
                        ELSE InnerSplitSibling(n)
             id == Len(mapping_table) + 1
             middle == Put(heap, sibling)
             split == SplitNode(heap, c.cur.node, Pair(sibling.low.key, id), sibling)
             top == FreshAddress(middle)
             replaced == [mapping_table EXCEPT ![c.cur.id] = top]
  <1>1. /\ ContextOK(heap, mapping_table, c) /\ c.pc = "halve" /\ ~HoldsParent(t)
        /\ \/ /\ CanInstall(c.cur) /\ heap' = Put(middle, split)
              /\ mapping_table' = Append(replaced, New)
              /\ Goes(t, Abort(c))
           \/ /\ heap' = heap /\ mapping_table' = Append(mapping_table, 0)
              /\ Goes(t, Loaded(heap, c))
    BY Zenon DEF SplitNodeInTwo, At, LockInv, ContextsOK, HoldsParent
  <1>2. OnPlainNode(heap, mapping_table, c) /\ DOMAIN c = DOMAIN Idle
    BY <1>1, ContextOnNode DEF NeedsNode, NeedsParent, MayBeRemoved, ContextOK
  <1>3. heap \in Seq(Range(heap)) /\ mapping_table \in Seq(Nat)
    BY DEF LockInv, MemoryOK
  <1>4. Held(heap, mapping_table, c.cur) /\ n.type # "Remove"
    BY <1>2 DEF OnPlainNode, OnNode
  <1>5. sibling.type \in NodeKinds \ {"Abort", "Remove"}
    <2>1. n.type \in NodeKinds \ {"Abort", "Remove"}
      BY <1>4 DEF Held
    <2>2. InnerSplitSibling(n).type = "Base"
      BY DEF InnerSplitSibling, ElasticNode
    <2>3. \/ LeafSplitSibling(n, LEAF_NODE_SIZE_LOWER_THRESHOLD) = n
          \/ LeafSplitSibling(n, LEAF_NODE_SIZE_LOWER_THRESHOLD).type = "Base"
      BY DEF LeafSplitSibling, ElasticNode
    <2> QED  BY <2>1, <2>2, <2>3 DEF NodeKinds
  <1>6. split.type = "Split"
    BY Constructed
  <1> HIDE DEF sibling, split
  <1>7. ASSUME CanInstall(c.cur), heap' = Put(middle, split),
               mapping_table' = Append(replaced, New)
        PROVE  Changes
    <2>1. /\ middle \in Seq(Range(middle)) /\ Grows(heap, middle)
          /\ New \in DOMAIN middle /\ New \in Nat \ {0} /\ middle[New] = sibling
      BY <1>3, PutGrows DEF New
    <2> HIDE DEF middle
    <2>2. /\ heap' \in Seq(Range(heap')) /\ Grows(middle, heap')
          /\ top \in DOMAIN heap' /\ top \in Nat \ {0} /\ heap'[top] = split
      BY <1>7, <2>1, PutGrows
    <2>3. New \in DOMAIN heap' /\ heap'[New] = sibling
      BY <1>5, <2>1, <2>2, InUseGrows
    <2>4. FreeCell.type \notin NodeKinds
      BY DEF FreeCell, NodeKinds
    <2>5. Grows(heap, heap')
      BY <2>1, <2>2 DEF Grows
    <2> HIDE DEF top
    <2>6. c.cur.id \in DOMAIN mapping_table /\ mapping_table[c.cur.id] = c.cur.node
      BY <1>4, <1>7 DEF Held, CanInstall
    <2>7. replaced \in Seq(Nat) /\ Len(replaced) = Len(mapping_table)
      BY <1>3, <2>2, <2>6
    <2>8. replaced[c.cur.id] = top /\ \A i \in DOMAIN mapping_table :
             i # c.cur.id => replaced[i] = mapping_table[i]
      BY <1>3, <2>6
    <2> HIDE DEF replaced
    <2>9. /\ mapping_table' \in Seq(Nat)
          /\ DOMAIN mapping_table' = 1..(Len(mapping_table) + 1)
          /\ DOMAIN mapping_table = 1..Len(mapping_table)
          /\ Len(mapping_table) \in Nat
          /\ mapping_table'[Len(mapping_table) + 1] = New
          /\ \A i \in 1..Len(mapping_table) : mapping_table'[i] = replaced[i]
      BY <1>3, <1>7, <2>1, <2>7
    <2>10. ~IsType(c.cur.id, "Abort") /\ ~IsType(c.cur.id, "Remove")
      BY <1>4, <2>6 DEF IsType, Held
    <2>11. ASSUME NEW i \in DOMAIN mapping_table'
           PROVE  \/ i \in DOMAIN mapping_table /\ mapping_table'[i] = mapping_table[i]
                  \/ /\ i \in DOMAIN mapping_table => ~IsType(i, "Abort") /\ ~IsType(i, "Remove")
                     /\ mapping_table'[i] \in DOMAIN heap'
                     /\ heap'[mapping_table'[i]].type \in NodeKinds \ {"Abort"}
      <3>1. CASE i = Len(mapping_table) + 1
        <4>1. i \notin DOMAIN mapping_table /\ mapping_table'[i] = New
          BY <2>9, <3>1
        <4> QED  BY <1>5, <2>3, <4>1
      <3>2. CASE i = c.cur.id
        <4>1. mapping_table'[i] = top
          BY <2>6, <2>8, <2>9, <3>2
        <4> QED  BY <1>6, <2>2, <2>10, <3>2, <4>1 DEF NodeKinds
      <3>3. CASE i # Len(mapping_table) + 1 /\ i # c.cur.id
        <4>1. i \in DOMAIN mapping_table
          BY <2>9, <3>3
        <4> QED  BY <2>8, <2>9, <3>3, <4>1
      <3> QED  BY <3>1, <3>2, <3>3
    <2>12. DOMAIN mapping_table \subseteq DOMAIN mapping_table'
      BY <2>9
    <2> QED  BY <2>2, <2>5, <2>9, <2>11, <2>12 DEF Changes, MemoryOK
  <1>8. ASSUME heap' = heap, mapping_table' = Append(mapping_table, 0)
        PROVE  Changes
    <2>1. mapping_table' \in Seq(Nat) /\ heap' \in Seq(Range(heap')) /\ Grows(heap, heap')
      BY <1>3, <1>8 DEF Grows
    <2> QED  BY <1>8, <2>1, AppendChanges DEF MemoryOK
  <1>9. CASE /\ CanInstall(c.cur) /\ heap' = Put(middle, split)
             /\ mapping_table' = Append(replaced, New) /\ Goes(t, Abort(c))
    <2>1. GoesOn(heap', mapping_table', Abort(c))
      BY <1>2, AbortGoesOn
    <2> QED  BY <1>1, <1>7, <1>9, <2>1, InstallStep
  <1>10. CASE /\ heap' = heap /\ mapping_table' = Append(mapping_table, 0)
              /\ Goes(t, Loaded(heap, c))
    <2>1. Changes
      BY <1>8, <1>10
    <2>2. OnNode(heap', mapping_table', c) /\ heap'[c.cur.node] = heap[c.cur.node]
      <3>1. DOMAIN mapping_table \subseteq DOMAIN mapping_table'
        BY <2>1 DEF Changes
      <3>2. OnNode(heap, mapping_table, c)
        BY <1>2 DEF OnPlainNode
      <3> QED  BY <1>10, <3>1, <3>2 DEF OnNode, Held
    <2>3. OnPlainNode(heap', mapping_table', c)
      BY <1>4, <2>2 DEF OnPlainNode
    <2>4. GoesOn(heap', mapping_table', Loaded(heap', c))
      BY <2>3, LoadedGoesOn
    <2> QED  BY <1>1, <1>10, <2>1, <2>4, InstallStep
  <1> QED  BY <1>1, <1>9, <1>10

LEMMA PostRemoveNodeStep ==
  ASSUME LockInv, NEW t \in Threads, PostRemoveNode(t)
  PROVE  StepOK
  <1> DEFINE c == ctx[t]
             n == RemoveNode(heap, c.cur.node, c.cur.id)
             d == To(c, "unabort")
  <1>1. /\ ContextOK(heap, mapping_table, c) /\ c.pc = "drop" /\ HoldsParent(t)
        /\ Goes(t, d)
        /\ \/ CanInstall(c.cur) /\ InstallNodeToReplace(c.cur, n)
           \/ UNCHANGED <<heap, mapping_table>>
    BY Zenon DEF PostRemoveNode, At, LockInv, ContextsOK, HoldsParent
  <1>2. /\ OnPlainNode(heap, mapping_table, c) /\ DOMAIN c = DOMAIN Idle
        /\ Held(heap, mapping_table, c.cur) /\ heap[c.cur.node].type # "Remove"
    BY <1>1, ContextOnNode DEF NeedsNode, NeedsParent, MayBeRemoved, ContextOK, OnPlainNode, OnNode
  <1>3. Keeps(c, d) /\ d.pc = "unabort" /\ d.want = c.want
    BY <1>2, Zenon DEF Keeps, To, Idle
  <1>4. n.type = "Remove"
    BY Constructed
  <1> HIDE DEF d, n
  <1>5. Changes
    BY <1>1, <1>2, <1>4, InstallChanges, NothingChanges DEF NodeKinds
  <1>6. ContextOK(heap, mapping_table, d)
    BY <1>1, <1>3 DEF ContextOK, Keeps, PCs, MayBeRemoved, NeedsNode, NeedsParent
  <1>7. ContextOK(heap', mapping_table', d)
    BY <1>5, <1>6, ContextGrows DEF Changes
  <1>8. KeepsLock(t, d)
    BY <1>1, <1>3 DEF KeepsLock, Keeps
  <1> QED  BY <1>1, <1>5, <1>7, <1>8, LocksStay

\* A thread that locks or unlocks entry i0, and changes no other, leaves the locks
\* of the others alone.
LEMMA LockMoves ==
  ASSUME LockInv, NEW t \in Threads, NEW i0 \in DOMAIN mapping_table,
         MemoryOK', Grows(heap, heap'), DOMAIN mapping_table' = DOMAIN mapping_table,
         \A i \in DOMAIN mapping_table : i # i0 => mapping_table'[i] = mapping_table[i],
         mapping_table'[i0] # 0 => InUse(mapping_table[i0])',
         ~IsType(i0, "Remove"),
         HoldsParent(t) => ctx[t].par.id = i0,
         \A u \in Threads : u # t /\ HoldsParent(u) => ctx[u].par.id # i0
  PROVE  \A d : /\ Goes(t, d) /\ ContextOK(heap', mapping_table', d)
                /\ d.pc \in {"drop", "unabort"} => d.par.id = i0 /\ OwnsParent(t)'
                /\ IsType(i0, "Abort")' => d.pc \in {"drop", "unabort"}
                => StepOK
  <1> SUFFICES ASSUME NEW d, Goes(t, d), ContextOK(heap', mapping_table', d),
                      d.pc \in {"drop", "unabort"} => d.par.id = i0 /\ OwnsParent(t)',
                      IsType(i0, "Abort")' => d.pc \in {"drop", "unabort"}
               PROVE  StepOK
    OBVIOUS
  <1>1. /\ ContextsOK' /\ ctx'[t] = d
        /\ \A u \in Threads : u # t => ctx'[u] = ctx[u]
    BY ContextsStep DEF LockInv
  <1>2. ASSUME NEW i \in DOMAIN mapping_table, i # i0, mapping_table[i] # 0
        PROVE  /\ mapping_table'[i] = mapping_table[i] /\ InUse(mapping_table[i])'
               /\ heap'[mapping_table[i]] = heap[mapping_table[i]]
    <2>1. InUse(mapping_table[i]) /\ mapping_table'[i] = mapping_table[i]
      BY <1>2 DEF LockInv, EntriesInUse
    <2> QED  BY <1>2, <2>1, InUseGrows DEF InUse
  <1>3. EntriesInUse'
    <2> SUFFICES ASSUME NEW i \in DOMAIN mapping_table', mapping_table'[i] # 0
                 PROVE  InUse(mapping_table[i])'
      BY DEF EntriesInUse
    <2> QED  BY <1>2
  <1>4. ASSUME NEW u \in Threads, u # t, HoldsParent(u)'
        PROVE  /\ HoldsParent(u) /\ ctx'[u] = ctx[u] /\ ctx[u].par.id # i0
               /\ OwnsParent(u)'
    <2> DEFINE c == ctx[u]
    <2>1. HoldsParent(u) /\ ctx'[u] = c /\ c.par.id # i0
      BY <1>1, <1>4 DEF HoldsParent
    <2>2. /\ c.par.id \in DOMAIN mapping_table
          /\ IsType(c.par.id, "Abort") /\ mapping_table[c.par.id] = c.want
          /\ heap[c.want].child = c.par.node
          /\ heap[c.par.node].type \notin {"Abort", "Remove"}
      BY <2>1 DEF LockInv, AbortIsOwned, OwnsParent
    <2>3. /\ mapping_table'[c.par.id] = mapping_table[c.par.id]
          /\ heap'[c.want] = heap[c.want]
      BY <1>2, <2>1, <2>2 DEF IsType
    <2>4. heap'[c.par.node] = heap[c.par.node]
      <3>1. ContextOK(heap, mapping_table, c)
        BY DEF LockInv, ContextsOK
      <3>2. Held(heap, mapping_table, c.par)
        BY <2>1, <3>1 DEF ContextOK, HoldsParent, NeedsParent
      <3>3. c.par.node \in DOMAIN heap /\ heap[c.par.node].type \in NodeKinds
        BY <3>2 DEF Held
      <3> QED  BY <3>3, InUseGrows
    <2>5. mapping_table'[c.par.id] # 0 /\ heap'[mapping_table'[c.par.id]].type = "Abort"
      BY <2>2, <2>3 DEF IsType
    <2> QED  BY <2>1, <2>2, <2>3, <2>4, <2>5 DEF OwnsParent, IsType
  <1>5. HoldsParent(t)' => OwnsParent(t)' /\ ctx'[t].par.id = i0
    BY <1>1 DEF HoldsParent
  <1>6. ASSUME NEW i \in DOMAIN mapping_table', IsType(i, "Abort")'
        PROVE  \E u \in Threads : HoldsParent(u)' /\ ctx'[u].par.id = i
    <2>1. mapping_table'[i] # 0 /\ heap'[mapping_table'[i]].type = "Abort"
      BY <1>6 DEF IsType
    <2>2. CASE i = i0
      <3>1. d.pc \in {"drop", "unabort"}
        BY <1>6, <2>2
      <3> QED  BY <1>1, <2>2, <3>1 DEF HoldsParent
    <2>3. CASE i # i0
      <3>1. IsType(i, "Abort")
        BY <1>2, <2>1, <2>3 DEF IsType
      <3>2. PICK u \in Threads : HoldsParent(u) /\ ctx[u].par.id = i
        BY <3>1 DEF LockInv, AbortIsOwned
      <3>3. u # t
        BY <2>3, <3>2
      <3> QED  BY <1>1, <3>2, <3>3 DEF HoldsParent
    <2> QED  BY <2>2, <2>3
  <1>7. ASSUME NEW u \in Threads, NEW v \in Threads, HoldsParent(u)', HoldsParent(v)',
               ctx'[u].par.id = ctx'[v].par.id
        PROVE  u = v
    <2>1. CASE u # t /\ v # t
      <3>1. HoldsParent(u) /\ HoldsParent(v) /\ ctx[u].par.id = ctx[v].par.id
        BY <1>4, <1>7, <2>1
      <3> QED  BY <3>1 DEF LockInv, AbortIsOwned
    <2>2. CASE u = t \/ v = t
      BY <1>4, <1>5, <1>7, <2>2
    <2> QED  BY <2>1, <2>2
  <1>8. AbortIsOwned'
    BY <1>4, <1>5, <1>6, <1>7 DEF AbortIsOwned
  <1>9. Frozen
    BY <1>2 DEF Frozen, IsType
  <1> QED  BY <1>1, <1>3, <1>8, <1>9 DEF LockInv, StepOK

LEMMA PostAbortOnParentStep ==
  ASSUME LockInv, NEW t \in Threads, PostAbortOnParent(t)
  PROVE  StepOK
  <1> DEFINE c == ctx[t]
             n == InnerAbortNode(heap, c.par.node)
             d == [c EXCEPT !.pc = "drop", !.want = New]
  <1>1. /\ ContextOK(heap, mapping_table, c) /\ c.pc = "remove" /\ ~HoldsParent(t)
        /\ \/ CanInstall(c.par) /\ InstallNodeToReplace(c.par, n) /\ Goes(t, d)
           \/ Goes(t, Abort(c)) /\ UNCHANGED <<heap, mapping_table>>
    BY Zenon DEF PostAbortOnParent, At, LockInv, ContextsOK, HoldsParent
  <1>2. /\ DOMAIN c = DOMAIN Idle
        /\ Held(heap, mapping_table, c.par) /\ heap[c.par.node].type # "Remove"
    BY <1>1, ContextOnNode DEF NeedsNode, NeedsParent, ContextOK
  <1>3. Keeps(c, d) /\ d.pc = "drop" /\ d.want = New
    BY <1>2, Zenon DEF Keeps, Idle
  <1>4. n.type = "Abort" /\ n.child = c.par.node
    BY Constructed
  <1> HIDE DEF d, n
  <1>5. CASE CanInstall(c.par) /\ InstallNodeToReplace(c.par, n) /\ Goes(t, d)
    <2>0. PICK i0 : i0 = c.par.id
      OBVIOUS
    <2>1. heap \in Seq(Range(heap)) /\ mapping_table \in Seq(Nat)
      BY DEF LockInv, MemoryOK
    <2>2. i0 \in DOMAIN mapping_table /\ mapping_table[i0] = c.par.node
      BY <1>2, <1>5, <2>0 DEF Held, CanInstall
    <2>3. /\ heap' \in Seq(Range(heap')) /\ Grows(heap, heap')
          /\ New \in DOMAIN heap' /\ New \in Nat \ {0} /\ heap'[New] = n
      BY <1>5, <2>1, PutGrows DEF InstallNodeToReplace, New
    <2>4. mapping_table' = [mapping_table EXCEPT ![i0] = New]
      BY <1>5, <2>0 DEF InstallNodeToReplace
    <2>5. /\ mapping_table' \in Seq(Nat) /\ DOMAIN mapping_table' = DOMAIN mapping_table
          /\ mapping_table'[i0] = New
          /\ \A i \in DOMAIN mapping_table : i # i0 => mapping_table'[i] = mapping_table[i]
      BY <2>1, <2>2, <2>3, <2>4
    <2>6. ~IsType(i0, "Remove") /\ ~IsType(i0, "Abort")
      BY <1>2, <2>2 DEF IsType, Held
    <2>7. ASSUME NEW u \in Threads, HoldsParent(u) PROVE ctx[u].par.id # i0
      BY <2>6, <2>7 DEF LockInv, AbortIsOwned, OwnsParent
    <2>8. InUse(mapping_table[i0])'
      BY <1>4, <2>3, <2>5 DEF InUse, NodeKinds
    <2>9. ContextOK(heap', mapping_table', d)
      <3>1. ContextOK(heap, mapping_table, d)
        BY <1>1, <1>3 DEF ContextOK, Keeps, PCs, MayBeRemoved, NeedsNode, NeedsParent
      <3> QED  BY <2>3, <2>5, <3>1, ContextGrows
    <2>10. ctx'[t] = d
      BY <1>5 DEF Goes, LockInv, ContextsOK
    <2>11. d.par = c.par
      BY <1>3 DEF Keeps
    <2>12. heap'[c.par.node] = heap[c.par.node]
      <3>1. c.par.node \in DOMAIN heap /\ heap[c.par.node].type \in NodeKinds
        BY <1>2 DEF Held
      <3>2. Grows(heap, heap')
        BY <2>3
      <3> QED  BY <3>1, <3>2, InUseGrows
    <2>13. OwnsParent(t)'
      <3>1. mapping_table'[i0] # 0 /\ heap'[mapping_table'[i0]].type = "Abort"
        BY <1>4, <2>3, <2>5
      <3>2. heap'[c.par.node].type \notin {"Abort", "Remove"}
        BY <1>2, <2>12 DEF Held
      <3>3. heap'[New].child = c.par.node
        BY <1>4, <2>3
      <3>4. /\ ctx'[t].par.id = i0 /\ ctx'[t].par.node = c.par.node /\ ctx'[t].want = New
        BY <1>3, <2>0, <2>10, <2>11
      <3> QED  BY <2>2, <2>5, <3>1, <3>2, <3>3, <3>4 DEF OwnsParent, IsType
    <2>14. d.par.id = i0 /\ d.pc \in {"drop", "unabort"}
      BY <1>3, <2>0, <2>11
    <2>15. MemoryOK'
      BY <2>3, <2>5 DEF MemoryOK
    <2> QED  BY <1>1, <1>5, <2>2, <2>3, <2>5, <2>6, <2>7, <2>8, <2>9, <2>13, <2>14, <2>15,
                LockMoves
  <1>6. CASE Goes(t, Abort(c)) /\ UNCHANGED <<heap, mapping_table>>
    BY <1>1, <1>2, <1>6, AbortGoesOn, OwnStep
  <1> QED  BY <1>1, <1>5, <1>6

LEMMA RemoveAbortOnParentStep ==
  ASSUME LockInv, NEW t \in Threads, RemoveAbortOnParent(t)
  PROVE  StepOK /\ Goes(t, Abort(ctx[t]))
  <1> DEFINE c == ctx[t]
  <1>0. PICK i0 : i0 = c.par.id
    OBVIOUS
  <1>1. /\ ContextOK(heap, mapping_table, c) /\ c.pc = "unabort" /\ HoldsParent(t)
        /\ mapping_table' = [mapping_table EXCEPT ![i0] = IF @ = c.want THEN c.par.node ELSE @]
        /\ Goes(t, IF GetNode(i0) = c.want THEN Abort(c) ELSE Failed(c))
        /\ heap' = heap
    BY <1>0, Zenon DEF RemoveAbortOnParent, At, LockInv, ContextsOK, HoldsParent
  <1>2. OwnsParent(t)
    BY <1>1 DEF LockInv, AbortIsOwned
  <1>3. /\ i0 \in DOMAIN mapping_table /\ IsType(i0, "Abort") /\ mapping_table[i0] = c.want
        /\ heap[c.par.node].type \notin {"Abort", "Remove"}
    BY <1>0, <1>2 DEF OwnsParent
  <1>4. mapping_table' = [mapping_table EXCEPT ![i0] = c.par.node] /\ Goes(t, Abort(c))
    BY <1>1, <1>3 DEF GetNode
  <1>5. /\ DOMAIN c = DOMAIN Idle /\ c.par \in [id : Nat, node : Nat]
        /\ c.par.node \in DOMAIN heap /\ heap[c.par.node].type \in NodeKinds
    BY <1>1, ContextOnNode DEF NeedsNode, NeedsParent, ContextOK, Held
  <1>6. heap \in Seq(Range(heap)) /\ mapping_table \in Seq(Nat)
    BY DEF LockInv, MemoryOK
  <1>7. /\ mapping_table' \in Seq(Nat) /\ DOMAIN mapping_table' = DOMAIN mapping_table
        /\ mapping_table'[i0] = c.par.node
        /\ \A i \in DOMAIN mapping_table : i # i0 => mapping_table'[i] = mapping_table[i]
    BY <1>3, <1>4, <1>5, <1>6
  <1>8. MemoryOK' /\ Grows(heap, heap')
    BY <1>1, <1>6, <1>7 DEF MemoryOK, Grows
  <1>9. InUse(mapping_table[i0])' /\ ~IsType(i0, "Remove") /\ ~IsType(i0, "Abort")'
    BY <1>1, <1>3, <1>5, <1>7 DEF InUse, IsType
  <1>10. \A u \in Threads : u # t /\ HoldsParent(u) => ctx[u].par.id # i0
    BY <1>0, <1>1 DEF LockInv, AbortIsOwned
  <1>11. ContextOK(heap', mapping_table', Abort(c)) /\ Abort(c).pc \notin {"drop", "unabort"}
    BY <1>5, AbortGoesOn DEF GoesOn
  <1>12. StepOK
    BY <1>0, <1>3, <1>4, <1>7, <1>8, <1>9, <1>10, <1>11, LockMoves
  <1> QED  BY <1>4, <1>12

\* A call that begins, takes effect or returns holds no snapshot.
LEMMA FreshContext ==
  \A h, m, d : /\ DOMAIN d = DOMAIN Idle /\ d.pc \in {"idle", "root", "done"}
               /\ d.cur = NoSnapshot /\ d.par = NoSnapshot /\ d.stack = <<>>
               => ContextOK(h, m, d)
  <1>1. NoSnapshot \in [id : Nat, node : Nat]
    BY DEF NoSnapshot, Invalid
  <1> QED  BY <1>1 DEF ContextOK, PCs, MayBeRemoved, NeedsNode, NeedsParent

LEMMA FreshStep ==
  ASSUME LockInv, NEW t \in Threads, Changes, ~HoldsParent(t)
  PROVE  \A d : /\ Goes(t, d) /\ DOMAIN d = DOMAIN Idle /\ d.pc \in {"idle", "root", "done"}
                /\ d.cur = NoSnapshot /\ d.par = NoSnapshot /\ d.stack = <<>>
                => StepOK
  <1> SUFFICES ASSUME NEW d, Goes(t, d), DOMAIN d = DOMAIN Idle,
                      d.pc \in {"idle", "root", "done"},
                      d.cur = NoSnapshot, d.par = NoSnapshot, d.stack = <<>>
               PROVE  StepOK
    OBVIOUS
  <1>1. ContextOK(heap', mapping_table', d)
    BY FreshContext
  <1>2. KeepsLock(t, d)
    BY DEF KeepsLock
  <1> QED  BY <1>1, <1>2, LocksStay

LEMMA PostStep ==
  ASSUME LockInv, NEW t \in Threads, ctx[t].pc = "apply"
  PROVE  \A n, pairs : Post(t, n, pairs) /\ n.type \in NodeKinds \ {"Abort"} => StepOK
  <1> SUFFICES ASSUME NEW n, NEW pairs, Post(t, n, pairs), n.type \in NodeKinds \ {"Abort"}
               PROVE  StepOK
    OBVIOUS
  <1> DEFINE c == ctx[t]
             d == [Idle EXCEPT !.pc = "done", !.op = c.op, !.kv = c.kv, !.res = D!Yes]
             e == [Idle EXCEPT !.pc = "root", !.op = c.op, !.kv = c.kv]
  <1>1. /\ ContextOK(heap, mapping_table, c) /\ ~HoldsParent(t)
        /\ \/ CanInstall(c.cur) /\ InstallNodeToReplace(c.cur, n) /\ Goes(t, d)
           \/ Goes(t, e) /\ UNCHANGED <<heap, mapping_table>>
    BY Zenon DEF Post, LockInv, ContextsOK, HoldsParent
  <1>2. Held(heap, mapping_table, c.cur) /\ heap[c.cur.node].type # "Remove"
    BY <1>1, ContextOnNode DEF NeedsNode, NeedsParent, MayBeRemoved, OnPlainNode, OnNode
  <1>3. /\ DOMAIN d = DOMAIN Idle /\ d.pc = "done" /\ d.stack = <<>>
        /\ d.cur = NoSnapshot /\ d.par = NoSnapshot
    BY Zenon DEF Idle
  <1>4. /\ DOMAIN e = DOMAIN Idle /\ e.pc = "root" /\ e.stack = <<>>
        /\ e.cur = NoSnapshot /\ e.par = NoSnapshot
    BY Zenon DEF Idle
  <1> HIDE DEF d, e
  <1>5. Changes
    BY <1>1, <1>2, InstallChanges, NothingChanges
  <1> QED  BY <1>1, <1>3, <1>4, <1>5, FreshStep

LEMMA InsertStep ==
  ASSUME LockInv, NEW t \in Threads, Insert(t)
  PROVE  StepOK
  <1> DEFINE c == ctx[t]
             n == LeafInsertNode(heap, c.cur.node, c.kv, c.index)
  <1>1. c.pc = "apply" /\ Post(t, n, content \cup {c.kv})
    BY Zenon DEF Insert, At
  <1>2. n.type = "Insert"
    BY Constructed
  <1> HIDE DEF n
  <1> QED  BY <1>1, <1>2, PostStep DEF NodeKinds

LEMMA DeleteStep ==
  ASSUME LockInv, NEW t \in Threads, Delete(t)
  PROVE  StepOK
  <1> DEFINE c == ctx[t]
             n == LeafDeleteNode(heap, c.cur.node, c.kv, c.index)
  <1>1. c.pc = "apply" /\ Post(t, n, content \ {c.kv})
    BY Zenon DEF Delete, At
  <1>2. n.type = "Delete"
    BY Constructed
  <1> HIDE DEF n
  <1> QED  BY <1>1, <1>2, PostStep DEF NodeKinds

LEMMA ReturnStep ==
  ASSUME LockInv, NEW t \in Threads, Return(t)
  PROVE  StepOK
  <1>1. ~HoldsParent(t) /\ Goes(t, Idle) /\ UNCHANGED <<heap, mapping_table>>
    BY DEF Return, At, HoldsParent, tree
  <1>2. /\ Idle.pc = "idle" /\ Idle.stack = <<>>
        /\ Idle.cur = NoSnapshot /\ Idle.par = NoSnapshot
    BY DEF Idle
  <1> QED  BY <1>1, <1>2, NothingChanges, FreshStep

LEMMA BeginStep ==
  ASSUME LockInv, NEW t \in Threads, Begin(t)
  PROVE  StepOK
  <1>1. PICK x : Goes(t, [Idle EXCEPT !.pc = "root", !.op = x.op, !.kv = x.kv])
    BY Zenon DEF Begin
  <1> DEFINE d == [Idle EXCEPT !.pc = "root", !.op = x.op, !.kv = x.kv]
  <1>2. ~HoldsParent(t) /\ Goes(t, d) /\ UNCHANGED <<heap, mapping_table>>
    BY <1>1, Zenon DEF Begin, At, HoldsParent, tree
  <1>3. /\ DOMAIN d = DOMAIN Idle /\ d.pc = "root" /\ d.stack = <<>>
        /\ d.cur = NoSnapshot /\ d.par = NoSnapshot
    BY Zenon DEF Idle
  <1> HIDE DEF d
  <1> QED  BY <1>2, <1>3, NothingChanges, FreshStep

LEMMA StutteringStep ==
  ASSUME LockInv, UNCHANGED vars
  PROVE  StepOK
  <1>1. LockInv'
    BY DEF vars, LockInv, MemoryOK, EntriesInUse, InUse, ContextsOK, AbortIsOwned, HoldsParent,
           OwnsParent, IsType
  <1>2. Frozen
    BY DEF Frozen, vars
  <1> QED  BY <1>1, <1>2 DEF StepOK

\* The collector runs beside calls that began after what it frees was retired.
\* It is the step that needs FreedOnce: it frees nothing that an entry, a snapshot
\* or a lock refers to.
LEMMA CollectStep ==
  ASSUME LockInv, FreedOnce, Collect
  PROVE  StepOK
  <1> DEFINE retired == {g.node : g \in Collectable}
             freed == UNION {FreeEpochDeltaChain(heap, a) : a \in retired}
             cell == IF Quiet THEN FreeCell ELSE LostCell
  <1>1. /\ heap' = [a \in DOMAIN heap |-> IF a \in freed THEN cell ELSE heap[a]]
        /\ mapping_table' = [i \in DOMAIN mapping_table |->
                               IF mapping_table[i] \in retired THEN 0 ELSE mapping_table[i]]
        /\ ctx' = ctx
    BY Zenon DEF Collect, InvalidateNodeID
  <1>2. heap \in Seq(Range(heap)) /\ mapping_table \in Seq(Nat)
    BY DEF LockInv, MemoryOK
  <1> DEFINE handed == BagToSet(garbage)
             Freed(g) == [of |-> g, chain |-> FreeEpochDeltaChain(heap, g.node)]
             all == UNION {f.chain : f \in {Freed(g) : g \in handed}}
             chain == [g \in handed |-> FreeEpochDeltaChain(heap, g.node)]
  <1>3. /\ \A f, g \in handed : f # g => chain[f] \cap chain[g] = {}
        /\ \A i \in LiveIds, g \in handed : Chain(mapping_table[i]) \cap chain[g] = {}
        /\ \A t \in Threads, g \in Collectable : MayRead(t) \cap chain[g] = {}
    <2>1. /\ \A f, g \in {Freed(x) : x \in handed} : f # g => f.chain \cap g.chain = {}
          /\ \A i \in LiveIds : Chain(mapping_table[i]) \cap all = {}
          /\ \A t \in Threads, f \in {Freed(x) : x \in handed} :
                f.of.users = {} => MayRead(t) \cap f.chain = {}
      BY Zenon DEF FreedOnce
    <2>2. \A g \in handed : /\ Freed(g).of = g /\ Freed(g).chain = chain[g]
                             /\ Freed(g) \in {Freed(x) : x \in handed}
      OBVIOUS
    <2>3. \A g \in Collectable : g \in handed /\ g.users = {}
      BY DEF Collectable
    <2>4. \A g \in handed : chain[g] \subseteq all
      BY <2>2
    <2> HIDE DEF Freed, chain, handed, all
    <2>5. \A f, g \in handed : f # g => Freed(f) # Freed(g)
      BY <2>2
    <2>6. \A f, g \in handed : f # g => chain[f] \cap chain[g] = {}
      BY <2>1, <2>2, <2>5
    <2>7. \A i \in LiveIds, g \in handed : Chain(mapping_table[i]) \cap chain[g] = {}
      BY <2>1, <2>4
    <2>8. \A t \in Threads, g \in Collectable : MayRead(t) \cap chain[g] = {}
      BY <2>1, <2>2, <2>3
    <2> QED  BY <2>6, <2>7, <2>8
  <1>4. Collectable \subseteq handed /\ retired \subseteq {g.node : g \in handed}
    BY DEF Collectable
  <1>5. \A g \in handed : chain[g] = FreeEpochDeltaChain(heap, g.node) /\ g.node \in chain[g]
    <2>1. \A a : a \in FreeEpochDeltaChain(heap, a)
      BY Zenon DEF FreeEpochDeltaChain
    <2> QED  BY <2>1
  <1> HIDE DEF chain
  <1>6. \A x \in freed : \E g \in Collectable : x \in chain[g]
    <2> SUFFICES ASSUME NEW x \in freed PROVE \E g \in Collectable : x \in chain[g]
      OBVIOUS
    <2>1. PICK g \in Collectable : x \in FreeEpochDeltaChain(heap, g.node)
      OBVIOUS
    <2> QED  BY <1>4, <1>5, <2>1
  <1>7. retired \subseteq freed
    <2>1. \A g \in Collectable : g.node \in FreeEpochDeltaChain(heap, g.node)
      BY <1>4, <1>5
    <2> QED  BY <2>1
  <1> HIDE DEF freed
  <1>8. ASSUME NEW i \in DOMAIN mapping_table, mapping_table[i] # 0,
               mapping_table[i] \notin retired
        PROVE  mapping_table[i] \notin freed
    <2> SUFFICES ASSUME NEW g \in Collectable, mapping_table[i] \in chain[g] PROVE FALSE
      BY <1>6
    <2>1. CASE i \in LiveIds
      <3>1. mapping_table[i] \in Chain(mapping_table[i])
        BY DEF Chain
      <3> QED  BY <1>3, <1>4, <2>1, <3>1
    <2>2. CASE i \notin LiveIds
      <3>1. PICK f \in handed : f.node = mapping_table[i]
        BY <1>8, <2>2 DEF LiveIds, IsRetired
      <3>2. f # g
        BY <1>8, <3>1
      <3> QED  BY <1>3, <1>4, <1>5, <3>1, <3>2
    <2> QED  BY <2>1, <2>2
  <1>9. \A t \in Threads : MayRead(t) \cap freed = {}
    BY <1>3, <1>6
  <1>10. MemoryOK'
    <2> DEFINE S == Range(heap) \cup {cell}
    <2>1. Len(heap) \in Nat /\ DOMAIN heap = 1..Len(heap) /\ \A a \in DOMAIN heap : heap[a] \in S
      BY <1>2
    <2>2. cell \in S
      OBVIOUS
    <2> HIDE DEF S, cell
    <2>3. heap' \in [1..Len(heap) -> S]
      BY <1>1, <2>1, <2>2
    <2>4. heap' \in Seq(S)
      BY <2>1, <2>3
    <2>5. heap' \in Seq(Range(heap'))
      BY <2>4, OwnElements
    <2>6. Len(mapping_table) \in Nat /\ DOMAIN mapping_table = 1..Len(mapping_table)
      BY <1>2
    <2>7. mapping_table' \in [1..Len(mapping_table) -> Nat]
      BY <1>1, <1>2, <2>6
    <2>8. mapping_table' \in Seq(Nat)
      BY <2>6, <2>7
    <2> QED  BY <2>5, <2>8 DEF MemoryOK
  <1>11. /\ DOMAIN heap' = DOMAIN heap /\ DOMAIN mapping_table' = DOMAIN mapping_table
         /\ \A a \in DOMAIN heap : a \notin freed => heap'[a] = heap[a]
         /\ \A i \in DOMAIN mapping_table :
               mapping_table'[i] = IF mapping_table[i] \in retired THEN 0 ELSE mapping_table[i]
    BY <1>1
  <1> HIDE DEF cell, retired
  <1>12. ASSUME NEW i \in DOMAIN mapping_table, mapping_table[i] # 0,
                mapping_table[i] \notin retired
         PROVE  /\ mapping_table'[i] = mapping_table[i] /\ InUse(mapping_table[i])'
                /\ heap'[mapping_table[i]] = heap[mapping_table[i]]
    <2>1. mapping_table[i] \in DOMAIN heap /\ heap[mapping_table[i]].type \in NodeKinds
      BY <1>12 DEF LockInv, EntriesInUse, InUse
    <2>2. mapping_table'[i] = mapping_table[i]
      BY <1>11, <1>12
    <2>3. heap'[mapping_table[i]] = heap[mapping_table[i]]
      BY <1>8, <1>11, <1>12, <2>1
    <2> QED  BY <1>11, <2>1, <2>2, <2>3 DEF InUse
  <1>13. \A i \in DOMAIN mapping_table' :
           /\ i \in DOMAIN mapping_table
           /\ mapping_table'[i] # 0 => mapping_table[i] # 0 /\ mapping_table[i] \notin retired
    BY <1>11
  <1>14. EntriesInUse'
    <2> SUFFICES ASSUME NEW i \in DOMAIN mapping_table', mapping_table'[i] # 0
                 PROVE  InUse(mapping_table[i])'
      BY DEF EntriesInUse
    <2> QED  BY <1>12, <1>13
  <1>15. ASSUME NEW t \in Threads, NEW s \in {ctx[t].cur, ctx[t].par},
                Held(heap, mapping_table, s)
         PROVE  Held(heap', mapping_table', s) /\ heap'[s.node] = heap[s.node]
    <2>1. s.node \in DOMAIN heap /\ s.node # 0
      BY <1>2, <1>15 DEF Held
    <2>2. s.node \in Chain(s.node)
      BY DEF Chain
    <2>3. s.node \in MayRead(t)
      BY <2>1, <2>2 DEF MayRead
    <2>4. heap'[s.node] = heap[s.node]
      BY <1>9, <1>11, <2>1, <2>3
    <2> QED  BY <1>11, <1>15, <2>4 DEF Held
  <1>16. ContextsOK'
    <2>1. ASSUME NEW t \in Threads PROVE ContextOK(heap', mapping_table', ctx[t])
      <3>1. ContextOK(heap, mapping_table, ctx[t])
        BY DEF LockInv, ContextsOK
      <3>2. ctx[t].cur = NoSnapshot \/ (/\ Held(heap', mapping_table', ctx[t].cur)
                                        /\ heap'[ctx[t].cur.node] = heap[ctx[t].cur.node])
        BY <1>15, <3>1 DEF ContextOK
      <3>3. ctx[t].par = NoSnapshot \/ (/\ Held(heap', mapping_table', ctx[t].par)
                                        /\ heap'[ctx[t].par.node] = heap[ctx[t].par.node])
        BY <1>15, <3>1 DEF ContextOK
      <3> QED  BY <3>1, <3>2, <3>3 DEF ContextOK
    <2> QED  BY <1>1, <2>1 DEF LockInv, ContextsOK
  <1>17. ASSUME NEW t \in Threads, HoldsParent(t) PROVE OwnsParent(t)'
    <2> DEFINE c == ctx[t]
    <2>1. OwnsParent(t)
      BY <1>17 DEF LockInv, AbortIsOwned
    <2>2. /\ c.par.id \in DOMAIN mapping_table /\ mapping_table[c.par.id] = c.want
          /\ c.want # 0 /\ heap[c.want].type = "Abort" /\ heap[c.want].child = c.par.node
          /\ heap[c.par.node].type \notin {"Abort", "Remove"}
      BY <2>1 DEF OwnsParent, IsType
    <2>3. c.want \in Chain(c.want)
      BY DEF Chain
    <2>4. c.want \in MayRead(t)
      BY <1>17, <2>2, <2>3 DEF MayRead
    <2>5. c.want \notin retired
      BY <1>7, <1>9, <2>4
    <2>6. /\ mapping_table'[c.par.id] = c.want /\ heap'[c.want] = heap[c.want]
      BY <1>12, <2>2, <2>5
    <2>7. heap'[c.par.node] = heap[c.par.node]
      <3>1. ContextOK(heap, mapping_table, c) /\ c.pc \in NeedsParent
        BY <1>17 DEF LockInv, ContextsOK, HoldsParent, NeedsParent
      <3> QED  BY <1>15, <3>1 DEF ContextOK
    <2> QED  BY <1>1, <1>11, <2>2, <2>6, <2>7 DEF OwnsParent, IsType
  <1>18. ASSUME NEW i \in DOMAIN mapping_table', IsType(i, "Abort")'
         PROVE  IsType(i, "Abort")
    BY <1>12, <1>13, <1>18 DEF IsType
  <1>19. AbortIsOwned'
    <2>1. \A t \in Threads : HoldsParent(t)' <=> HoldsParent(t)
      BY <1>1 DEF HoldsParent
    <2>2. \A i \in DOMAIN mapping_table' : IsType(i, "Abort")' =>
             \E t \in Threads : HoldsParent(t) /\ ctx[t].par.id = i
      BY <1>13, <1>18 DEF LockInv, AbortIsOwned
    <2>3. \A t, u \in Threads :
             HoldsParent(t) /\ HoldsParent(u) /\ ctx[t].par.id = ctx[u].par.id => t = u
      BY DEF LockInv, AbortIsOwned
    <2> QED  BY <1>1, <1>17, <2>1, <2>2, <2>3 DEF AbortIsOwned
  <1>20. Frozen
    <2> SUFFICES ASSUME NEW i \in DOMAIN mapping_table, IsType(i, "Remove"),
                        mapping_table[i] \in retired
                 PROVE  IsRetired(mapping_table[i]) /\ mapping_table'[i] = 0
      BY <1>12 DEF Frozen, IsType
    <2> QED  BY <1>4, <1>11 DEF IsRetired
  <1> QED  BY <1>10, <1>14, <1>16, <1>19, <1>20 DEF LockInv, StepOK

LEMMA NextStep ==
  LockInv /\ FreedOnce /\ [Next]_vars => StepOK
  <1> SUFFICES ASSUME LockInv, FreedOnce, [Next]_vars PROVE StepOK
    OBVIOUS
  <1>1. CASE UNCHANGED vars
    BY <1>1, StutteringStep
  <1>2. CASE Collect
    BY <1>2, CollectStep
  <1>3. CASE Finished
    BY <1>3, StutteringStep DEF Finished
  <1>4. ASSUME NEW t \in Threads, Begin(t) PROVE StepOK
    BY <1>4, BeginStep
  <1>5. ASSUME NEW t \in Threads, Step(t) PROVE StepOK
    BY <1>5, LoadRootStep, LoadNodeIDStep, LoadReadOptimizedStep, JumpToNodeIDStep,
       FindLeftStep, FindLeftInMergedStep, PostMergeNodeStep, PostInnerDeleteNodeStep,
       PostInnerInsertNodeStep, InstallRootNodeStep, CheckClashStep, ConsolidateNodeStep,
       CheckSplitChildStep, SplitNodeInTwoStep, PostAbortOnParentStep, PostRemoveNodeStep,
       RemoveAbortOnParentStep, InsertStep, DeleteStep, ReturnStep, Zenon DEF Step
  <1> QED  BY <1>1, <1>2, <1>3, <1>4, <1>5 DEF Next

LEMMA InitLocks ==
  Init => LockInv
  <1> SUFFICES ASSUME Init PROVE LockInv
    OBVIOUS
  <1> DEFINE low == Pair(0, 2)
             none == Pair(0, Invalid)
             root == ElasticNode(FALSE, <<low>>, low, none, 0, 1)
             leaf == ElasticNode(TRUE, <<>>, none, none, 0, 0)
  <1>1. heap = <<root, leaf>> /\ mapping_table = <<1, 2>> /\ ctx = [t \in Threads |-> Idle]
    BY DEF Init, InitNodeLayout
  <1>2. root.type = "Base" /\ leaf.type = "Base"
    BY DEF ElasticNode
  <1> HIDE DEF root, leaf
  <1>3. heap \in Seq({root, leaf}) /\ mapping_table \in Seq(Nat)
    BY <1>1
  <1>4. MemoryOK
    BY <1>3, OwnElements DEF MemoryOK
  <1>5. \A i \in DOMAIN mapping_table :
          mapping_table[i] \in DOMAIN heap /\ heap[mapping_table[i]].type = "Base"
    BY <1>1, <1>2
  <1>6. EntriesInUse
    BY <1>5 DEF EntriesInUse, InUse, NodeKinds
  <1>7. /\ Idle.pc = "idle" /\ Idle.stack = <<>>
        /\ Idle.cur = NoSnapshot /\ Idle.par = NoSnapshot
    BY DEF Idle
  <1>8. ContextsOK
    BY <1>1, <1>7, FreshContext DEF ContextsOK
  <1>9. AbortIsOwned
    BY <1>1, <1>5, <1>7 DEF AbortIsOwned, HoldsParent, IsType
  <1> QED  BY <1>4, <1>6, <1>8, <1>9 DEF LockInv

LEMMA LocksInductive ==
  Spec /\ []FreedOnce => []LockInv
  BY InitLocks, NextStep, PTL DEF Spec, StepOK

-----------------------------------------------------------------------------
(* Theorems.  FreedOnce, that the collector frees no record of an entry that *)
(* is still in use, is the hypothesis of each.                               *)

\* The abort record is a lock (bwtree.h:6842 and the functions around it): a thread that
\* removes a node owns the entry of the parent, on the node it found there, every
\* abort record in the mapping table is the one of such a thread, and no two
\* threads hold the same parent, whatever the tree and the number of threads.
THEOREM LocksAreOwned ==
  Spec /\ []FreedOnce => []AbortIsOwned
  <1>1. LockInv => AbortIsOwned
    BY DEF LockInv
  <1> QED  BY <1>1, LocksInductive, PTL

\* A remove record is final: from the step that posts it to the one in which the
\* collector clears the retired entry, no compare-and-swap of any thread replaces
\* it.  A context that could try has been sent to the left sibling or to the root.
THEOREM RemovedStays ==
  Spec /\ []FreedOnce => RemovedIsFrozen
  <1>1. LockInv /\ FreedOnce /\ [Next]_vars => [Frozen]_vars
    BY NextStep DEF StepOK
  <1>2. Spec => [][Next]_vars
    BY PTL DEF Spec
  <1>3. RemovedIsFrozen <=> [][Frozen]_vars
    BY PTL DEF RemovedIsFrozen, Frozen
  <1> QED  BY <1>1, <1>2, <1>3, LocksInductive, PTL

\* "This CAS must succeed": the thread that unlocks the parent always finds its
\* own abort record there and starts its traversal again.
THEOREM UnlockSucceeds ==
  Spec /\ []FreedOnce =>
    [][\A t \in Threads : RemoveAbortOnParent(t) => Goes(t, Abort(ctx[t]))]_vars
  <1>1. LockInv /\ [Next]_vars =>
          [\A t \in Threads : RemoveAbortOnParent(t) => Goes(t, Abort(ctx[t]))]_vars
    BY RemoveAbortOnParentStep
  <1>2. Spec => [][Next]_vars
    BY PTL DEF Spec
  <1> QED  BY <1>1, <1>2, LocksInductive, PTL

\* The half of QuiescentClean that is about locks: when every call has returned no
\* entry is locked: no parent is left behind that every later call would abort
\* on for ever.
THEOREM NoLockAtRest ==
  Spec /\ []FreedOnce => [](Quiet => \A i \in DOMAIN mapping_table : ~IsType(i, "Abort"))
  <1>1. LockInv => (Quiet => \A i \in DOMAIN mapping_table : ~IsType(i, "Abort"))
    BY DEF LockInv, AbortIsOwned, Quiet, HoldsParent
  <1> QED  BY <1>1, LocksInductive, PTL
=============================================================================
