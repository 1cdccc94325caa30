--------------------------- MODULE ProviderProofs ---------------------------
(***************************************************************************)
(* Proofs about the provider's registry, for every number of threads,      *)
(* names, addresses and requests.  IInv (module Provider) is inductive:    *)
(* InitIInv and NextIInv; the invariants the runs check follow from it.    *)
(***************************************************************************)
EXTENDS Provider, TLAPS

\* The parts of the inductive invariant, and of the actions.
USE ProviderConstants
USE DEF TypeOK, LockInv, RequestInv, AttachInv, NamesInv, IdsInv, HeapInv, RemoveInv, SharedInv,
        Attaching, InWrite2, AdminWrites, Users, PCs,
        Goto, Accept, Return, Finish, registry, lock, locals

\* A provider that has just been registered satisfies the invariant.
LEMMA InitIInv == Init => IInv
  BY DEF Init, IInv, Reads, Requests, Codes

\* Every step of every request keeps the invariant.
LEMMA NextIInv == IInv /\ [Next]_vars => IInv'
  <1> SUFFICES ASSUME IInv, [Next]_vars PROVE IInv'
    OBVIOUS
  <1> USE DEF IInv
  <1>1. ASSUME NEW u \in ULTs, AttachFails(u) PROVE IInv'
    BY <1>1 DEF AttachFails, Codes
  <1>2. ASSUME NEW u \in ULTs, AttachOpen(u) PROVE IInv'
    BY <1>2 DEF AttachOpen, Reads, Requests
  <1>3. ASSUME NEW u \in ULTs, RemoveCall(u) PROVE IInv'
    BY <1>3 DEF RemoveCall, Reads, Requests
  <1>4. ASSUME NEW u \in ULTs, RemoveAllCall(u) PROVE IInv'
    BY <1>4 DEF RemoveAllCall, Reads, Requests
  <1>5. ASSUME NEW u \in ULTs, CountCall(u) PROVE IInv'
    BY <1>5 DEF CountCall, Reads, Requests
  <1>6. ASSUME NEW u \in ULTs, ListCall(u) PROVE IInv'
    BY <1>6 DEF ListCall, Reads, Requests
  <1>7. ASSUME NEW u \in ULTs, ListRpcCall(u) PROVE IInv'
    BY <1>7 DEF ListRpcCall, Reads, Requests
  <1>8. ASSUME NEW u \in ULTs, OpenCall(u) PROVE IInv'
    BY <1>8 DEF OpenCall, Reads, Requests
  <1>9. ASSUME NEW u \in ULTs, AccessCall(u) PROVE IInv'
    BY <1>9 DEF AccessCall, Reads, Requests
  <1>10. ASSUME NEW u \in ULTs, Rdlock(u) PROVE IInv'
    <2>1. TypeOK'
      BY <1>10 DEF Rdlock
    <2>2. (LockInv /\ RequestInv)'
      BY <1>10 DEF Rdlock
    <2>3. (AttachInv /\ RemoveInv)'
      BY <1>10 DEF Rdlock
    <2>4. (NamesInv /\ IdsInv /\ SharedInv)'
      BY <1>10 DEF Rdlock
    <2>5. HeapInv'
      BY <1>10 DEF Rdlock
    <2> QED  BY <2>1, <2>2, <2>3, <2>4, <2>5
  <1>11. ASSUME NEW u \in ULTs, Wrlock(u) PROVE IInv'
    BY <1>11 DEF Wrlock
  <1>12. ASSUME NEW u \in ULTs, Rdunlock(u) PROVE IInv'
    <2>1. TypeOK'
      BY <1>12 DEF Rdunlock, Requests, Reads
    <2>2. (LockInv /\ RequestInv)'
      BY <1>12 DEF Rdunlock, Requests, Reads
    <2>3. (AttachInv /\ RemoveInv)'
      BY <1>12 DEF Rdunlock, Requests, Reads
    <2>4. (NamesInv /\ IdsInv /\ SharedInv)'
      BY <1>12 DEF Rdunlock, Requests, Reads
    <2>5. HeapInv'
      BY <1>12 DEF Rdunlock, Requests, Reads
    <2> QED  BY <2>1, <2>2, <2>3, <2>4, <2>5
  <1>13. ASSUME NEW u \in ULTs, Wrunlock(u) PROVE IInv'
    <2>1. TypeOK'
      BY <1>13 DEF Wrunlock, Requests, Reads
    <2>2. (LockInv /\ RequestInv)'
      BY <1>13 DEF Wrunlock, Requests, Reads
    <2>3. (AttachInv /\ RemoveInv)'
      BY <1>13 DEF Wrunlock, Requests, Reads
    <2>4. (NamesInv /\ IdsInv /\ SharedInv)'
      BY <1>13 DEF Wrunlock, Requests, Reads
    <2>5. HeapInv'
      BY <1>13 DEF Wrunlock, Requests, Reads
    <2> QED  BY <2>1, <2>2, <2>3, <2>4, <2>5
  <1>14. ASSUME NEW u \in ULTs, AttachNames(u) PROVE IInv'
    BY <1>14 DEF AttachNames
  <1>15. ASSUME NEW u \in ULTs, AttachDatabase(u) PROVE IInv'
    BY <1>15 DEF AttachDatabase, Codes
  <1>16. ASSUME NEW u \in ULTs, RemoveUnknown(u) PROVE IInv'
    BY <1>16 DEF RemoveUnknown, Codes
  <1>17. ASSUME NEW u \in ULTs, RemoveNames(u) PROVE IInv'
    BY <1>17 DEF RemoveNames
  <1>18. ASSUME NEW u \in ULTs, RemoveDatabase(u) PROVE IInv'
    BY <1>18 DEF RemoveDatabase, Codes
  <1>19. ASSUME NEW u \in ULTs, RemoveAllDelete(u) PROVE IInv'
    BY <1>19 DEF RemoveAllDelete
  <1>20. ASSUME NEW u \in ULTs, RemoveAllClear(u) PROVE IInv'
    BY <1>20 DEF RemoveAllClear, Codes
  <1>21. ASSUME NEW u \in ULTs, Count(u) PROVE IInv'
    BY <1>21 DEF Count, Codes
  <1>22. ASSUME NEW u \in ULTs, List(u) PROVE IInv'
    BY <1>22 DEF List, Codes, BoundNames
  <1>23. ASSUME NEW u \in ULTs, ListRpc(u) PROVE IInv'
    <2>a. PICK c \in 0..Cardinality(Names) :
               res' = [res EXCEPT ![u] = {name2id[n] : n \in FirstNames(c)}]
      BY <1>23, Zenon DEF ListRpc
    <2>b. \A n \in FirstNames(c) : n \in Names /\ name2id[n] # None
      BY Zenon DEF FirstNames, BoundNames
    <2>c. {name2id[n] : n \in FirstNames(c)} \subseteq Addrs
      BY <2>b
    <2>d. res' \in [ULTs -> SUBSET Addrs]
      BY <2>a, <2>c
    <2>1. TypeOK'
      BY <1>23, <2>d DEF ListRpc, Codes
    <2>2. (LockInv /\ RequestInv)'
      BY <1>23 DEF ListRpc
    <2>3. (AttachInv /\ RemoveInv)'
      BY <1>23 DEF ListRpc
    <2>4. (NamesInv /\ IdsInv /\ SharedInv)'
      BY <1>23 DEF ListRpc
    <2>5. HeapInv'
      BY <1>23 DEF ListRpc
    <2> QED  BY <2>1, <2>2, <2>3, <2>4, <2>5
  <1>24. ASSUME NEW u \in ULTs, Open(u) PROVE IInv'
    <2>a. req[u] = "open"
      BY <1>24 DEF Open
    <2>b. nm[u] \in Names
      BY <2>a
    <2>c. name2id \in [Names -> Addrs \cup {None}]
      OBVIOUS
    <2>d. name2id[nm[u]] \in Addrs \cup {None}
      BY ONLY <2>b, <2>c
    <2>e. id' \in [ULTs -> Addrs \cup {None}]
      BY <1>24, <2>d DEF Open
    <2>f. ret' \in [ULTs -> Codes]
      BY <1>24 DEF Open, Codes
    <2>1. TypeOK'
      BY <1>24, <2>e, <2>f DEF Open
    <2>2. (LockInv /\ RequestInv)'
      BY <1>24 DEF Open
    <2>3. (AttachInv /\ RemoveInv)'
      BY <1>24 DEF Open
    <2>4. (NamesInv /\ IdsInv /\ SharedInv)'
      BY <1>24 DEF Open
    <2>5. HeapInv'
      BY <1>24 DEF Open
    <2> QED  BY <2>1, <2>2, <2>3, <2>4, <2>5
  <1>25. ASSUME NEW u \in ULTs, FindDatabase(u) PROVE IInv'
    BY <1>25 DEF FindDatabase, Codes
  <1>26. ASSUME NEW u \in ULTs, FoundUnlock(u) PROVE IInv'
    BY <1>26 DEF FoundUnlock
  <1>27. ASSUME NEW u \in ULTs, UseDatabase(u) PROVE IInv'
    <2>1. TypeOK'
      BY <1>27 DEF UseDatabase, Requests, Reads
    <2>2. (LockInv /\ RequestInv)'
      BY <1>27 DEF UseDatabase, Requests, Reads
    <2>3. (AttachInv /\ RemoveInv)'
      BY <1>27 DEF UseDatabase, Requests, Reads
    <2>4. (NamesInv /\ IdsInv /\ SharedInv)'
      BY <1>27 DEF UseDatabase, Requests, Reads
    <2>5. HeapInv'
      BY <1>27 DEF UseDatabase, Requests, Reads
    <2> QED  BY <2>1, <2>2, <2>3, <2>4, <2>5
  <1>28. ASSUME NEW u \in ULTs, MigrateRemovesSource(u) PROVE IInv'
    BY <1>28 DEF MigrateRemovesSource, Reads, Requests
  <1>29. ASSUME NEW u \in ULTs, ReceiveCall(u) PROVE IInv'
    BY <1>29 DEF ReceiveCall, Reads, Requests
  <1>30. ASSUME NEW u \in ULTs, PreMigration(u) PROVE IInv'
    BY <1>30 DEF PreMigration, Codes
  <1>31. ASSUME NEW u \in ULTs, PostMigration(u) PROVE IInv'
    BY <1>31 DEF PostMigration, Reads, Requests
  <1>32. CASE UNCHANGED vars
    BY <1>32 DEF vars
  <1> QED
    BY <1>1, <1>2, <1>3, <1>4, <1>5, <1>6, <1>7, <1>8, <1>9, <1>10, <1>11, <1>12, <1>13, <1>14,
       <1>15, <1>16, <1>17, <1>18, <1>19, <1>20, <1>21, <1>22, <1>23, <1>24, <1>25, <1>26, <1>27,
       <1>28, <1>29, <1>30, <1>31, <1>32
    DEF Next, Arrival, Step, Quiescent

\* Type correctness of the registry, of the lock and of every request's locals.
THEOREM TypeCorrect == Spec => []TypeOK
  <1>1. IInv => TypeOK  BY DEF IInv
  <1> QED  BY <1>1, InitIInv, NextIInv, PTL DEF Spec

\* Whatever the interleaving, a holder of the read lock sees the three maps agree
\* and no pointer to a deleted datastore in them.
THEOREM ReadersAreSafe == Spec => []ReaderSeesConsistentRegistry
  <1>1. IInv => ReaderSeesConsistentRegistry
    BY DEF IInv, ReaderSeesConsistentRegistry, Consistent
  <1> QED  BY <1>1, InitIInv, NextIInv, PTL DEF Spec

\* No datastore is leaked, and none is left registered after its deletion.
THEOREM RegistryOwnsHeap == Spec => []NoLeakNoDangling
  <1>1. IInv => NoLeakNoDangling
    BY DEF IInv, NoLeakNoDangling, BeingAttached
  <1> QED  BY <1>1, InitIInv, NextIInv, PTL DEF Spec

\* An id gets a name only while it has none: attach is given an address that no
\* removal has left in id2name.
LEMMA NameStep ==
  IInv /\ [Next]_vars =>
    \A a \in Addrs :
      id2name[a] # None /\ id2name'[a] # None => id2name'[a] = id2name[a]
  <1> SUFFICES ASSUME IInv, [Next]_vars, NEW a \in Addrs,
                      id2name[a] # None, id2name'[a] # None
               PROVE  id2name'[a] = id2name[a]
    OBVIOUS
  <1>1. ASSUME NEW u \in ULTs, AttachNames(u) PROVE id2name[id[u]] = None
    BY <1>1 DEF AttachNames, IInv
  <1>2. ASSUME NEW u \in ULTs, AttachNames(u) PROVE id2name'[a] = id2name[a]
    BY <1>1, <1>2 DEF AttachNames, IInv
  <1>3. ASSUME NEW u \in ULTs, RemoveNames(u) PROVE id2name'[a] = id2name[a]
    BY <1>3 DEF RemoveNames, IInv
  <1>4. ASSUME NEW u \in ULTs, RemoveAllClear(u) PROVE id2name'[a] = id2name[a]
    BY <1>4 DEF RemoveAllClear
  <1>5. CASE UNCHANGED id2name
    BY <1>5
  <1>6. ASSUME NEW u \in ULTs, Arrival(u) PROVE UNCHANGED id2name
    BY <1>6, Zenon DEF Arrival, AttachFails, AttachOpen, RemoveCall, RemoveAllCall,
       CountCall, ListCall, ListRpcCall, OpenCall, AccessCall, ReceiveCall
  <1>7. ASSUME NEW u \in ULTs, Step(u)
        PROVE \/ AttachNames(u) \/ RemoveNames(u) \/ RemoveAllClear(u)
              \/ UNCHANGED id2name
    BY <1>7, Zenon DEF Step, Rdlock, Wrlock, Rdunlock, Wrunlock, AttachDatabase,
       RemoveUnknown, RemoveDatabase, RemoveAllDelete, Count, List, ListRpc, Open,
       FindDatabase, FoundUnlock, UseDatabase, MigrateRemovesSource,
       PreMigration, PostMigration
  <1>8. UNCHANGED vars => UNCHANGED id2name
    BY DEF vars
  <1> QED
    BY <1>2, <1>3, <1>4, <1>5, <1>6, <1>7, <1>8, Zenon DEF Next, Quiescent

\* The name of an id never changes while the id is registered.
THEOREM IdsAreStable == Spec => NameOfIdIsStable
  <1> DEFINE Stable ==
        \A a \in Addrs :
          id2name[a] # None /\ id2name'[a] # None => id2name'[a] = id2name[a]
  <1>1. IInv /\ [Next]_vars => [Stable]_vars
    BY NameStep
  <1>2. Spec => [][Stable]_vars
    BY <1>1, InitIInv, NextIInv, PTL DEF Spec
  <1> QED  BY <1>2 DEF NameOfIdIsStable

\* What a listing has found stays true until it lets go of the read lock.
LEMMA ListStep == IInv /\ ListIsComplete /\ [Next]_vars => ListIsComplete'
  <1> SUFFICES ASSUME IInv, ListIsComplete, [Next]_vars, NEW v \in ULTs,
                      req'[v] = "list", pc'[v] = "rdunlock"
               PROVE  /\ res'[v] \subseteq databases'
                      /\ {a \in databases' : id2name'[a] \notin shared'} \subseteq res'[v]
    BY DEF ListIsComplete
  <1> USE DEF IInv
  <1>1. CASE \E u \in ULTs : List(u) /\ u = v
    BY <1>1 DEF List, BoundNames
  <1>2. CASE /\ req[v] = "list" /\ pc[v] = "rdunlock" /\ res'[v] = res[v]
             /\ databases' = databases /\ id2name' = id2name /\ shared' = shared
    BY <1>2 DEF ListIsComplete
  <1> DEFINE Still == UNCHANGED <<databases, id2name, shared>>
             Same == req[v] = "list" /\ pc[v] = "rdunlock" /\ res'[v] = res[v]
  <1>3. ASSUME NEW u \in ULTs, Arrival(u) PROVE Still /\ Same
    BY <1>3 DEF Arrival, AttachFails, AttachOpen, RemoveCall, RemoveAllCall,
       CountCall, ListCall, ListRpcCall, OpenCall, AccessCall, ReceiveCall
  <1>4. ASSUME NEW u \in ULTs, AttachNames(u) \/ AttachDatabase(u) \/ RemoveNames(u)
                                  \/ RemoveDatabase(u) \/ RemoveAllClear(u)
        PROVE  FALSE
    <2>1. writer = u /\ v # u
      BY <1>4 DEF AttachNames, AttachDatabase, RemoveNames, RemoveDatabase, RemoveAllClear
    <2>2. pc'[v] = pc[v]
      BY <1>4, <2>1 DEF AttachNames, AttachDatabase, RemoveNames, RemoveDatabase, RemoveAllClear
    <2> QED BY <2>1, <2>2
  <1>5. ASSUME NEW u \in ULTs, Step(u),
               ~(AttachNames(u) \/ AttachDatabase(u) \/ RemoveNames(u)
                    \/ RemoveDatabase(u) \/ RemoveAllClear(u))
        PROVE  Still
    BY <1>5, Zenon DEF Step, Rdlock, Wrlock, Rdunlock, Wrunlock, RemoveUnknown, RemoveAllDelete,
       Count, List, ListRpc, Open, FindDatabase, FoundUnlock, UseDatabase, MigrateRemovesSource,
       PreMigration, PostMigration
  <1>6. ASSUME NEW u \in ULTs, Step(u), ~(List(u) /\ u = v),
               ~(AttachNames(u) \/ AttachDatabase(u) \/ RemoveNames(u)
                    \/ RemoveDatabase(u) \/ RemoveAllClear(u))
        PROVE  Same
    BY <1>6 DEF Step, Rdlock, Wrlock, Rdunlock, Wrunlock, RemoveUnknown, RemoveAllDelete,
       Count, List, ListRpc, Open, FindDatabase, FoundUnlock, UseDatabase, MigrateRemovesSource,
       PreMigration, PostMigration
  <1>7. UNCHANGED vars => Still /\ Same
    BY DEF vars
  <1> QED
    BY <1>1, <1>2, <1>3, <1>4, <1>5, <1>6, <1>7 DEF Next, Quiescent

\* The listing of databases is complete, but for names that were shared.
THEOREM ListingIsComplete == Spec => []ListIsComplete
  <1>1. Init => ListIsComplete
    BY DEF Init, ListIsComplete
  <1> QED  BY <1>1, ListStep, InitIInv, NextIInv, PTL DEF Spec
=============================================================================
