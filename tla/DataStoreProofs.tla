--------------------------- MODULE DataStoreProofs --------------------------
(***************************************************************************)
(* Proofs about one database under concurrent handlers, for any number of  *)
(* threads, keys, values and calls: calls on MapDataStore, on BerkeleyDB   *)
(* and on LevelDB without no_overwrite take effect in one step each.       *)
(***************************************************************************)
EXTENDS DataStore, FiniteSetTheorems, TLAPS

USE DataStoreConstants
USE DEF Goto, IsMap, IsDisk, lock, args, walk, seen

-----------------------------------------------------------------------------
(* Types.                                                                  *)

LEMMA InitTypes == Init => TypeOK
  BY DEF Init, TypeOK, Empty

\* What taking effect does to the types.
LEMMA EffectTypes ==
  ASSUME TypeOK, NEW t \in Threads, key[t] \in Keys,
         NEW w \in Values \cup {None}, NEW a \in Values \cup Answers \cup {None},
         NEW p \in {"unlock", "done"}, pc' = [pc EXCEPT ![t] = p], Effect(t, w, a)
  PROVE  TypeOK'
  <1>1. /\ kv' \in [Keys -> Values \cup {None}]
        /\ ans' \in [Threads -> Values \cup Answers \cup {None}]
        /\ ever' \in [Threads -> SUBSET Keys] /\ always' \in [Threads -> SUBSET Keys]
    BY DEF TypeOK, Effect
  <1> QED  BY <1>1 DEF TypeOK, Effect

\* A call that fails keeps them too.
LEMMA FailTypes ==
  ASSUME TypeOK, NEW t \in Threads, NEW a \in Answers, pc' = [pc EXCEPT ![t] = "done"],
         Fail(t, a)
  PROVE  TypeOK'
  BY DEF TypeOK, Fail

\* Every step of a call keeps the types.
LEMMA StepTypes == ASSUME TypeOK, CallInv, NEW t \in Threads, Step(t) PROVE TypeOK'
  <1>1. CASE MapWrlock(t)
    BY <1>1 DEF MapWrlock, TypeOK, CallInv
  <1>2. CASE MapRdlock(t)
    BY <1>2 DEF MapRdlock, TypeOK, CallInv
  <1>3. CASE MapFind(t)
    BY <1>3 DEF MapFind, TypeOK, CallInv
  <1>4. CASE MapPut(t)
    <2>1. key[t] \in Keys /\ val[t] \in Values /\ kv[key[t]] \in Values \cup {None}
      BY <1>4 DEF MapPut, TypeOK, CallInv
    <2>2. pc' = [pc EXCEPT ![t] = "unlock"]
      BY <1>4 DEF MapPut
    <2>3. Effect(t, kv[key[t]], "KEYEXISTS") \/ Effect(t, val[t], "SUCCESS")
      BY <1>4 DEF MapPut
    <2> QED  BY <2>1, <2>2, <2>3, EffectTypes DEF Answers
  <1>5. CASE MapErase(t)
    <2>1. key[t] \in Keys /\ val[t] \in Values /\ kv[key[t]] \in Values \cup {None}
      BY <1>5 DEF MapErase, TypeOK, CallInv
    <2>2. pc' = [pc EXCEPT ![t] = "unlock"]
      BY <1>5 DEF MapErase
    <2>3. Effect(t, None, "SUCCESS") \/ Effect(t, None, "ERASE")
      BY <1>5 DEF MapErase
    <2> QED  BY <2>1, <2>2, <2>3, EffectTypes DEF Answers
  <1>6. CASE MapGet(t)
    <2>1. key[t] \in Keys /\ val[t] \in Values /\ kv[key[t]] \in Values \cup {None}
      BY <1>6 DEF MapGet, TypeOK, CallInv
    <2>2. pc' = [pc EXCEPT ![t] = "unlock"]
      BY <1>6 DEF MapGet
    <2>3. Effect(t, kv[key[t]], kv[key[t]]) \/ Effect(t, kv[key[t]], "UNKNOWN_KEY")
      BY <1>6 DEF MapGet
    <2> QED  BY <2>1, <2>2, <2>3, EffectTypes DEF Answers
  <1>7. CASE MapExists(t)
    <2>1. key[t] \in Keys /\ val[t] \in Values /\ kv[key[t]] \in Values \cup {None}
      BY <1>7 DEF MapExists, TypeOK, CallInv
    <2>2. pc' = [pc EXCEPT ![t] = "unlock"]
      BY <1>7 DEF MapExists
    <2>3. Effect(t, kv[key[t]], "THERE") \/ Effect(t, kv[key[t]], "NOT_THERE")
      BY <1>7 DEF MapExists
    <2> QED  BY <2>1, <2>2, <2>3, EffectTypes DEF Answers
  <1>8. CASE MapUnlock(t)
    BY <1>8 DEF MapUnlock, TypeOK, CallInv
  <1>9. CASE LevelDBExists(t)
    <2>1. key[t] \in Keys /\ val[t] \in Values /\ kv[key[t]] \in Values \cup {None}
      BY <1>9 DEF LevelDBExists, TypeOK, CallInv
    <2>2. CASE kv[key[t]] = None
      BY <1>9, <2>2 DEF LevelDBExists, TypeOK
    <2>3. CASE kv[key[t]] # None
      <3>1. Effect(t, kv[key[t]], "KEYEXISTS") /\ pc' = [pc EXCEPT ![t] = "done"]
        BY <1>9, <2>3 DEF LevelDBExists
      <3> QED  BY <2>1, <3>1, EffectTypes DEF Answers
    <2> QED  BY <2>2, <2>3
  <1>10. CASE LevelDBPut(t)
    <2>1. key[t] \in Keys /\ val[t] \in Values /\ kv[key[t]] \in Values \cup {None}
      BY <1>10 DEF LevelDBPut, TypeOK, CallInv
    <2>2. pc' = [pc EXCEPT ![t] = "done"]
      BY <1>10 DEF LevelDBPut
    <2>3. Effect(t, val[t], "SUCCESS")
      BY <1>10 DEF LevelDBPut
    <2> QED  BY <2>1, <2>2, <2>3, EffectTypes DEF Answers
  <1>11. CASE BerkeleyDBPut(t)
    <2>1. key[t] \in Keys /\ val[t] \in Values /\ kv[key[t]] \in Values \cup {None}
      BY <1>11 DEF BerkeleyDBPut, TypeOK, CallInv
    <2>2. pc' = [pc EXCEPT ![t] = "done"]
      BY <1>11 DEF BerkeleyDBPut
    <2>3. Effect(t, kv[key[t]], "KEYEXISTS") \/ Effect(t, val[t], "SUCCESS")
      BY <1>11 DEF BerkeleyDBPut
    <2> QED  BY <2>1, <2>2, <2>3, EffectTypes DEF Answers
  <1>12. CASE DiskPutFails(t)
    BY <1>12, FailTypes DEF DiskPutFails, Answers
  <1>13. CASE DiskErase(t)
    <2>1. key[t] \in Keys /\ val[t] \in Values /\ kv[key[t]] \in Values \cup {None}
      BY <1>13 DEF DiskErase, TypeOK, CallInv
    <2>2. pc' = [pc EXCEPT ![t] = "done"]
      BY <1>13 DEF DiskErase
    <2>3. Effect(t, None, "SUCCESS") \/ Effect(t, None, "ERASE")
      BY <1>13 DEF DiskErase
    <2> QED  BY <2>1, <2>2, <2>3, EffectTypes DEF Answers
  <1>14. CASE DiskEraseFails(t)
    BY <1>14, FailTypes DEF DiskEraseFails, Answers
  <1>15. CASE DiskGet(t)
    <2>1. key[t] \in Keys /\ val[t] \in Values /\ kv[key[t]] \in Values \cup {None}
      BY <1>15 DEF DiskGet, TypeOK, CallInv
    <2>2. pc' = [pc EXCEPT ![t] = "done"]
      BY <1>15 DEF DiskGet
    <2>3. Effect(t, kv[key[t]], kv[key[t]]) \/ Effect(t, kv[key[t]], "UNKNOWN_KEY")
      BY <1>15 DEF DiskGet
    <2> QED  BY <2>1, <2>2, <2>3, EffectTypes DEF Answers
  <1>16. CASE DiskExists(t)
    <2>1. key[t] \in Keys /\ val[t] \in Values /\ kv[key[t]] \in Values \cup {None}
      BY <1>16 DEF DiskExists, TypeOK, CallInv
    <2>2. pc' = [pc EXCEPT ![t] = "done"]
      BY <1>16 DEF DiskExists
    <2>3. Effect(t, kv[key[t]], "THERE") \/ Effect(t, kv[key[t]], "NOT_THERE")
      BY <1>16 DEF DiskExists
    <2> QED  BY <2>1, <2>2, <2>3, EffectTypes DEF Answers
  <1>17. CASE DiskListBegin(t)
    BY <1>17 DEF DiskListBegin, TypeOK, CallInv
  <1>18. CASE ListEnds(t)
    BY <1>18 DEF ListEnds, ListDone, TypeOK, CallInv
  <1>19. CASE ListPush(t)
    BY <1>19 DEF ListPush, TypeOK, CallInv
  <1>20. CASE ListSkip(t)
    BY <1>20 DEF ListSkip, Before, TypeOK, CallInv
  <1>21. CASE ListBreak(t)
    BY <1>21 DEF ListBreak, After, ListDone, TypeOK, CallInv
  <1>22. CASE ListShort(t)
    BY <1>22 DEF ListShort, TypeOK, CallInv, vars
  <1>23. CASE Return(t)
    BY <1>23 DEF Return, TypeOK, CallInv, Empty
  <1>24. CASE LevelDBExistsFails(t)
    BY <1>24 DEF LevelDBExistsFails, TypeOK
  <1>25. CASE DiskGetFails(t)
    BY <1>25, FailTypes DEF DiskGetFails, Answers
  <1>26. CASE DiskExistsFails(t)
    BY <1>26, FailTypes DEF DiskExistsFails, Answers
  <1>27. CASE ListFails(t)
    BY <1>27 DEF ListFails, ListDone, TypeOK
  <1> QED  BY <1>1, <1>2, <1>3, <1>4, <1>5, <1>6, <1>7, <1>8, <1>9, <1>10, <1>11,
           <1>12, <1>13, <1>14, <1>15, <1>16, <1>17, <1>18, <1>19, <1>20, <1>21,
           <1>22, <1>23, <1>24, <1>25, <1>26, <1>27 DEF Step

-----------------------------------------------------------------------------
(* The lock, the calls, and what has been found under the lock.            *)

\* Every step of a call keeps the lock and the answers in order.
LEMMA StepInv == ASSUME IInv, NEW t \in Threads, Step(t) PROVE (LockInv /\ CallInv /\ FoundInv)'
  <1> USE DEF IInv, TypeOK, LockInv, CallInv, FoundInv, Holding
  <1>1. CASE MapWrlock(t)
    BY <1>1 DEF MapWrlock
  <1>2. CASE MapRdlock(t)
    BY <1>2 DEF MapRdlock
  <1>3. CASE MapFind(t)
    <2>1. LockInv' /\ CallInv'
      BY <1>3 DEF MapFind
    <2>2. found'[t] <=> kv'[key'[t]] # None
      <3>1. found' = [found EXCEPT ![t] = kv[key[t]] # None] /\ kv' = kv /\ key' = key
        BY <1>3 DEF MapFind
      <3>2. t \in DOMAIN found
        OBVIOUS
      <3> QED  BY ONLY <3>1, <3>2, Zenon
    <2>3. \A u \in Threads : u # t => found'[u] = found[u] /\ pc'[u] = pc[u]
      BY <1>3 DEF MapFind
    <2>4. pc'[t] = "found" /\ pc[t] = "locked"
      BY <1>3 DEF MapFind
    <2>5. ans' = ans /\ fn' = fn /\ kv' = kv /\ key' = key /\ failed' = failed
      BY <1>3 DEF MapFind
    <2>6. FoundInv'
      BY <2>2, <2>3, <2>4, <2>5
    <2> QED  BY <2>1, <2>6
  <1>4. CASE MapPut(t)
    <2>1. LockInv' /\ CallInv'
      BY <1>4 DEF MapPut, Effect
    <2>2. \A u \in Threads : u # t => pc[u] # "found"
      BY <1>4 DEF MapPut
    <2>3. ans'[t] # None /\ fn'[t] = "put" /\ pc'[t] = "unlock"
      BY <1>4 DEF MapPut, Effect, Answers
    <2>4. \A u \in Threads : u # t => ans'[u] = ans[u] /\ fn'[u] = fn[u] /\ pc'[u] = pc[u]
      BY <1>4 DEF MapPut, Effect
    <2>5. failed' = failed
      BY <1>4 DEF MapPut, Effect
    <2>6. FoundInv'
      BY <2>2, <2>3, <2>4, <2>5
    <2> QED  BY <2>1, <2>6
  <1>5. CASE MapErase(t)
    BY <1>5 DEF MapErase, Effect, Answers
  <1>6. CASE MapGet(t)
    BY <1>6 DEF MapGet, Effect, Answers
  <1>7. CASE MapExists(t)
    BY <1>7 DEF MapExists, Effect, Answers
  <1>8. CASE MapUnlock(t)
    BY <1>8 DEF MapUnlock
  <1>9. CASE LevelDBExists(t)
    BY <1>9 DEF LevelDBExists, Effect, Answers
  <1>10. CASE LevelDBPut(t)
    BY <1>10 DEF LevelDBPut, Effect, Answers
  <1>11. CASE BerkeleyDBPut(t)
    BY <1>11 DEF BerkeleyDBPut, Effect, Answers
  <1>12. CASE DiskPutFails(t)
    BY <1>12 DEF DiskPutFails, Fail, Answers
  <1>13. CASE DiskErase(t)
    BY <1>13 DEF DiskErase, Effect, Answers
  <1>14. CASE DiskEraseFails(t)
    BY <1>14 DEF DiskEraseFails, Fail, Answers
  <1>15. CASE DiskGet(t)
    BY <1>15 DEF DiskGet, Effect, Answers
  <1>16. CASE DiskExists(t)
    BY <1>16 DEF DiskExists, Effect, Answers
  <1>17. CASE DiskListBegin(t)
    BY <1>17 DEF DiskListBegin
  <1>18. CASE ListEnds(t)
    BY <1>18 DEF ListEnds, ListDone
  <1>19. CASE ListPush(t)
    BY <1>19 DEF ListPush
  <1>20. CASE ListSkip(t)
    BY <1>20 DEF ListSkip, Before
  <1>21. CASE ListBreak(t)
    BY <1>21 DEF ListBreak, After, ListDone
  <1>22. CASE ListShort(t)
    BY <1>22 DEF ListShort, vars
  <1>23. CASE Return(t)
    BY <1>23 DEF Return
  <1>24. CASE LevelDBExistsFails(t)
    BY <1>24 DEF LevelDBExistsFails
  <1>25. CASE DiskGetFails(t)
    BY <1>25 DEF DiskGetFails, Fail, Answers
  <1>26. CASE DiskExistsFails(t)
    BY <1>26 DEF DiskExistsFails, Fail, Answers
  <1>27. CASE ListFails(t)
    BY <1>27 DEF ListFails, ListDone
  <1> QED  BY <1>1, <1>2, <1>3, <1>4, <1>5, <1>6, <1>7, <1>8, <1>9, <1>10, <1>11,
           <1>12, <1>13, <1>14, <1>15, <1>16, <1>17, <1>18, <1>19, <1>20, <1>21,
           <1>22, <1>23, <1>24, <1>25, <1>26, <1>27 DEF Step

LEMMA InitInv == Init => IInv
  <1> SUFFICES ASSUME Init PROVE IInv
    OBVIOUS
  <1>1. TypeOK
    BY InitTypes
  <1>2. LockInv /\ CallInv /\ FoundInv
    BY DEF Init, LockInv, CallInv, FoundInv, Holding
  <1> QED  BY <1>1, <1>2 DEF IInv

\* The inductive step.
LEMMA NextInv == IInv /\ [Next]_vars => IInv'
  <1> SUFFICES ASSUME IInv, [Next]_vars PROVE IInv'
    OBVIOUS
  <1>1. ASSUME NEW t \in Threads, CallKey(t) PROVE IInv'
    <2>1. TypeOK'
      BY <1>1 DEF CallKey, IInv, TypeOK
    <2>2. (LockInv /\ CallInv /\ FoundInv)'
      BY <1>1 DEF CallKey, IInv, TypeOK, LockInv, CallInv, FoundInv, Holding
    <2> QED  BY <2>1, <2>2 DEF IInv
  <1>2. ASSUME NEW t \in Threads, CallList(t) PROVE IInv'
    <2>1. TypeOK'
      BY <1>2 DEF CallList, IInv, TypeOK, Present
    <2>2. (LockInv /\ CallInv /\ FoundInv)'
      BY <1>2 DEF CallList, IInv, TypeOK, LockInv, CallInv, FoundInv, Holding
    <2> QED  BY <2>1, <2>2 DEF IInv
  <1>3. ASSUME NEW t \in Threads, Step(t) PROVE IInv'
    BY <1>3, StepTypes, StepInv DEF IInv
  <1>4. CASE UNCHANGED vars
    BY <1>4 DEF vars, IInv, TypeOK, LockInv, CallInv, FoundInv
  <1> QED  BY <1>1, <1>2, <1>3, <1>4 DEF Next, Quiescent

-----------------------------------------------------------------------------
\* The state of the lock, of the calls and of the walks stays well-typed; in
\* particular an iterator is always at a key of the database or before the first.
THEOREM TypeCorrect == Spec => []TypeOK
  <1>1. IInv => TypeOK
    BY DEF IInv
  <1> QED  BY <1>1, InitInv, NextInv, PTL DEF Spec

-----------------------------------------------------------------------------
(* Refinement.                                                             *)

\* No database considered is a LevelDB opened with no_overwrite.
PutIsAtomic == \A c \in Configs : ~(c.backend = "leveldb" /\ c.no_overwrite)

\* The call of a thread, as KVStore sees it.
AbsCall == [t \in Threads |-> IF pc[t] = "idle" \/ fn[t] = "list" THEN None
                             ELSE <<fn[t], key[t], val[t]>>]

\* The calls that failed, as KVStore sees them.
AbsFailed == {t \in failed : fn[t] # "list"}

\* A step of a thread that takes effect is a step of KVStore.
LEMMA EffectMaps ==
  ASSUME IInv, NEW t \in Threads, pc[t] \in {"called", "found"},
         NEW o, fn[t] = o, o # "list",
         NEW p \in {"unlock", "done"}, pc' = [pc EXCEPT ![t] = p], NEW w, NEW a, Effect(t, w, a)
  PROVE  /\ key[t] \in Keys /\ val[t] \in Values
         /\ KV!Effect(t, o, key[t], val[t], w, a)
  <1>1. key[t] \in Keys /\ val[t] \in Values /\ ans[t] = None
    BY DEF IInv, CallInv, FoundInv
  <1>2. AbsCall' = AbsCall /\ AbsCall[t] = <<fn[t], key[t], val[t]>>
    BY DEF AbsCall, IInv, TypeOK, Effect
  <1>3. AbsFailed' = AbsFailed
    BY DEF AbsFailed, Effect
  <1> QED  BY <1>1, <1>2, <1>3 DEF KV!Effect, AbsCall, AbsFailed, Effect

\* So is a step that fails.
LEMMA FailMaps ==
  ASSUME IInv, NEW t \in Threads, pc[t] = "called", NEW o, fn[t] = o, o # "list",
         pc' = [pc EXCEPT ![t] = "done"], NEW a, Fail(t, a)
  PROVE  /\ key[t] \in Keys /\ val[t] \in Values
         /\ KV!Fail(t, o, key[t], val[t], a)
  <1>1. key[t] \in Keys /\ val[t] \in Values /\ ans[t] = None
    BY DEF IInv, CallInv, FoundInv
  <1>2. AbsCall' = AbsCall /\ AbsCall[t] = <<fn[t], key[t], val[t]>>
    BY DEF AbsCall, IInv, TypeOK, Fail
  <1>3. AbsFailed' = AbsFailed \cup {t}
    BY DEF AbsFailed, Fail
  <1> QED  BY <1>1, <1>2, <1>3 DEF KV!Fail, AbsCall, AbsFailed, Fail

LEMMA InitMaps == Init => KV!Init
  <1> SUFFICES ASSUME Init PROVE KV!Init
    OBVIOUS
  <1>1. db.no_overwrite \in BOOLEAN
    BY DEF Init
  <1>2. AbsCall = [t \in Threads |-> None]
    BY DEF Init, AbsCall
  <1>3. AbsFailed = {}
    BY DEF Init, AbsFailed
  <1> QED  BY <1>1, <1>2, <1>3 DEF Init, KV!Init, AbsCall, AbsFailed

\* A step that changes nothing KVStore sees.
LEMMA StutterMaps ==
  ASSUME UNCHANGED <<db, kv, ans>>, AbsCall' = AbsCall, AbsFailed' = AbsFailed
  PROVE  UNCHANGED KV!vars
  BY DEF KV!vars, AbsCall, AbsFailed

\* The steps of one call, mapped.
LEMMA StepMaps ==
  ASSUME IInv, PutIsAtomic, NEW t \in Threads, Step(t)
  PROVE  KV!Next \/ UNCHANGED KV!vars
  <1> USE DEF IInv
  <1>a. ASSUME \/ fn[t] = "put" /\ KV!Put(t, key[t], val[t])
               \/ fn[t] = "get" /\ KV!Get(t, key[t], val[t])
               \/ fn[t] = "exists" /\ KV!Exists(t, key[t], val[t])
               \/ fn[t] = "erase" /\ KV!Erase(t, key[t], val[t]),
               key[t] \in Keys, val[t] \in Values
        PROVE  KV!Next
    BY <1>a DEF KV!Next
  <1>b. db.no_overwrite => db.backend # "leveldb"
    BY DEF PutIsAtomic, TypeOK
  <1>1. CASE MapPut(t)
    <2>1. fn[t] = "put" /\ pc[t] \in {"called", "found"} /\ pc' = [pc EXCEPT ![t] = "unlock"]
      BY <1>1, <1>b DEF MapPut
    <2>2. \/ db.no_overwrite /\ kv[key[t]] # None /\ Effect(t, kv[key[t]], "KEYEXISTS")
          \/ ~(db.no_overwrite /\ kv[key[t]] # None) /\ Effect(t, val[t], "SUCCESS")
      BY <1>1 DEF MapPut, FoundInv
    <2>3. /\ key[t] \in Keys /\ val[t] \in Values
          /\ \A w, a : Effect(t, w, a) => KV!Effect(t, "put", key[t], val[t], w, a)
      BY <2>1, <2>2, EffectMaps
    <2>4. KV!Put(t, key[t], val[t])
      BY ONLY <2>2, <2>3 DEF KV!Put
    <2> QED  BY <2>1, <2>3, <2>4, <1>a
  <1>2. CASE MapGet(t)
    <2>1. fn[t] = "get" /\ pc[t] \in {"called", "found"} /\ pc' = [pc EXCEPT ![t] = "unlock"]
      BY <1>2, <1>b DEF MapGet
    <2>2. \/ kv[key[t]] # None /\ Effect(t, kv[key[t]], kv[key[t]])
          \/ kv[key[t]] = None /\ Effect(t, kv[key[t]], "UNKNOWN_KEY")
      BY <1>2 DEF MapGet, FoundInv
    <2>3. /\ key[t] \in Keys /\ val[t] \in Values
          /\ \A w, a : Effect(t, w, a) => KV!Effect(t, "get", key[t], val[t], w, a)
      BY <2>1, <2>2, EffectMaps
    <2>4. KV!Get(t, key[t], val[t])
      BY ONLY <2>2, <2>3 DEF KV!Get
    <2> QED  BY <2>1, <2>3, <2>4, <1>a
  <1>3. CASE MapExists(t)
    <2>1. fn[t] = "exists" /\ pc[t] \in {"called", "found"} /\ pc' = [pc EXCEPT ![t] = "unlock"]
      BY <1>3, <1>b DEF MapExists
    <2>2. \/ kv[key[t]] # None /\ Effect(t, kv[key[t]], "THERE")
          \/ kv[key[t]] = None /\ Effect(t, kv[key[t]], "NOT_THERE")
      BY <1>3 DEF MapExists, FoundInv
    <2>3. /\ key[t] \in Keys /\ val[t] \in Values
          /\ \A w, a : Effect(t, w, a) => KV!Effect(t, "exists", key[t], val[t], w, a)
      BY <2>1, <2>2, EffectMaps
    <2>4. KV!Exists(t, key[t], val[t])
      BY ONLY <2>2, <2>3 DEF KV!Exists
    <2> QED  BY <2>1, <2>3, <2>4, <1>a
  <1>4. CASE BerkeleyDBPut(t)
    <2>1. fn[t] = "put" /\ pc[t] \in {"called", "found"} /\ pc' = [pc EXCEPT ![t] = "done"]
      BY <1>4, <1>b DEF BerkeleyDBPut
    <2>2. \/ db.no_overwrite /\ kv[key[t]] # None /\ Effect(t, kv[key[t]], "KEYEXISTS")
          \/ ~(db.no_overwrite /\ kv[key[t]] # None) /\ Effect(t, val[t], "SUCCESS")
      BY <1>4 DEF BerkeleyDBPut, FoundInv
    <2>3. /\ key[t] \in Keys /\ val[t] \in Values
          /\ \A w, a : Effect(t, w, a) => KV!Effect(t, "put", key[t], val[t], w, a)
      BY <2>1, <2>2, EffectMaps
    <2>4. KV!Put(t, key[t], val[t])
      BY ONLY <2>2, <2>3 DEF KV!Put
    <2> QED  BY <2>1, <2>3, <2>4, <1>a
  <1>5. CASE LevelDBPut(t)
    <2>1. fn[t] = "put" /\ pc[t] \in {"called", "found"} /\ pc' = [pc EXCEPT ![t] = "done"]
      BY <1>5, <1>b DEF LevelDBPut
    <2>2. \/ ~db.no_overwrite /\ Effect(t, val[t], "SUCCESS")
      BY <1>5, <1>b DEF LevelDBPut
    <2>3. /\ key[t] \in Keys /\ val[t] \in Values
          /\ \A w, a : Effect(t, w, a) => KV!Effect(t, "put", key[t], val[t], w, a)
      BY <2>1, <2>2, EffectMaps
    <2>4. KV!Put(t, key[t], val[t])
      BY ONLY <2>2, <2>3 DEF KV!Put
    <2> QED  BY <2>1, <2>3, <2>4, <1>a
  <1>6. CASE DiskPutFails(t)
    <2>1. fn[t] = "put" /\ pc[t] = "called" /\ pc' = [pc EXCEPT ![t] = "done"] /\ Fail(t, "PUT")
      BY <1>6, <1>b DEF DiskPutFails
    <2>2. key[t] \in Keys /\ val[t] \in Values /\ KV!Fail(t, "put", key[t], val[t], "PUT")
      BY <2>1, FailMaps
    <2>3. KV!Put(t, key[t], val[t])
      BY ONLY <2>2 DEF KV!Put
    <2> QED  BY <2>1, <2>2, <2>3, <1>a
  <1>7. CASE DiskEraseFails(t)
    <2>1. fn[t] = "erase" /\ pc[t] = "called" /\ pc' = [pc EXCEPT ![t] = "done"] /\ Fail(t, "ERASE")
      BY <1>7, <1>b DEF DiskEraseFails
    <2>2. key[t] \in Keys /\ val[t] \in Values /\ KV!Fail(t, "erase", key[t], val[t], "ERASE")
      BY <2>1, FailMaps
    <2>3. KV!Erase(t, key[t], val[t])
      BY ONLY <2>2 DEF KV!Erase
    <2> QED  BY <2>1, <2>2, <2>3, <1>a
  <1>8. CASE DiskGet(t)
    <2>1. fn[t] = "get" /\ pc[t] \in {"called", "found"} /\ pc' = [pc EXCEPT ![t] = "done"]
      BY <1>8, <1>b DEF DiskGet
    <2>2. \/ kv[key[t]] # None /\ Effect(t, kv[key[t]], kv[key[t]])
          \/ kv[key[t]] = None /\ Effect(t, kv[key[t]], "UNKNOWN_KEY")
      BY <1>8 DEF DiskGet, FoundInv
    <2>3. /\ key[t] \in Keys /\ val[t] \in Values
          /\ \A w, a : Effect(t, w, a) => KV!Effect(t, "get", key[t], val[t], w, a)
      BY <2>1, <2>2, EffectMaps
    <2>4. KV!Get(t, key[t], val[t])
      BY ONLY <2>2, <2>3 DEF KV!Get
    <2> QED  BY <2>1, <2>3, <2>4, <1>a
  <1>9. CASE DiskExists(t)
    <2>1. fn[t] = "exists" /\ pc[t] \in {"called", "found"} /\ pc' = [pc EXCEPT ![t] = "done"]
      BY <1>9, <1>b DEF DiskExists
    <2>2. \/ kv[key[t]] # None /\ Effect(t, kv[key[t]], "THERE")
          \/ kv[key[t]] = None /\ Effect(t, kv[key[t]], "NOT_THERE")
      BY <1>9 DEF DiskExists, FoundInv
    <2>3. /\ key[t] \in Keys /\ val[t] \in Values
          /\ \A w, a : Effect(t, w, a) => KV!Effect(t, "exists", key[t], val[t], w, a)
      BY <2>1, <2>2, EffectMaps
    <2>4. KV!Exists(t, key[t], val[t])
      BY ONLY <2>2, <2>3 DEF KV!Exists
    <2> QED  BY <2>1, <2>3, <2>4, <1>a
  <1>10. CASE MapErase(t)
    <2>1. fn[t] = "erase" /\ pc[t] \in {"called", "found"} /\ pc' = [pc EXCEPT ![t] = "unlock"]
      BY <1>10 DEF MapErase
    <2>2. \/ Effect(t, None, "SUCCESS")
          \/ Effect(t, None, "ERASE") /\ kv[key[t]] = None
      BY <1>10 DEF MapErase, FoundInv
    <2>3. /\ key[t] \in Keys /\ val[t] \in Values
          /\ \A w, a : Effect(t, w, a) => KV!Effect(t, "erase", key[t], val[t], w, a)
      BY <2>1, <2>2, EffectMaps
    <2>4. KV!Erase(t, key[t], val[t])
      BY ONLY <2>2, <2>3 DEF KV!Erase
    <2> QED  BY <2>1, <2>3, <2>4, <1>a
  <1>11. CASE DiskErase(t)
    <2>1. fn[t] = "erase" /\ pc[t] \in {"called", "found"} /\ pc' = [pc EXCEPT ![t] = "done"]
      BY <1>11 DEF DiskErase
    <2>2. \/ Effect(t, None, "SUCCESS")
          \/ Effect(t, None, "ERASE") /\ kv[key[t]] = None
      BY <1>11 DEF DiskErase, FoundInv
    <2>3. /\ key[t] \in Keys /\ val[t] \in Values
          /\ \A w, a : Effect(t, w, a) => KV!Effect(t, "erase", key[t], val[t], w, a)
      BY <2>1, <2>2, EffectMaps
    <2>4. KV!Erase(t, key[t], val[t])
      BY ONLY <2>2, <2>3 DEF KV!Erase
    <2> QED  BY <2>1, <2>3, <2>4, <1>a
  <1>12. CASE LevelDBExists(t)
    BY <1>12, <1>b DEF LevelDBExists
  <1>13. CASE MapWrlock(t)
    BY <1>13, StutterMaps DEF MapWrlock, AbsCall, AbsFailed, TypeOK, CallInv
  <1>14. CASE MapRdlock(t)
    BY <1>14, StutterMaps DEF MapRdlock, AbsCall, AbsFailed, TypeOK, CallInv
  <1>15. CASE MapFind(t)
    BY <1>15, StutterMaps DEF MapFind, AbsCall, AbsFailed, TypeOK, CallInv
  <1>16. CASE MapUnlock(t)
    BY <1>16, StutterMaps DEF MapUnlock, AbsCall, AbsFailed, TypeOK, CallInv
  <1>17. CASE DiskListBegin(t)
    BY <1>17, StutterMaps DEF DiskListBegin, AbsCall, AbsFailed, TypeOK, CallInv
  <1>18. CASE ListEnds(t)
    BY <1>18, StutterMaps DEF ListEnds, ListDone, AbsCall, AbsFailed, TypeOK, CallInv
  <1>19. CASE ListPush(t)
    BY <1>19, StutterMaps DEF ListPush, AbsCall, AbsFailed, TypeOK, CallInv
  <1>20. CASE ListSkip(t)
    BY <1>20, StutterMaps DEF ListSkip, AbsCall, AbsFailed, TypeOK, CallInv
  <1>21. CASE ListBreak(t)
    BY <1>21, StutterMaps DEF ListBreak, ListDone, AbsCall, AbsFailed, TypeOK, CallInv
  <1>22. CASE ListShort(t)
    BY <1>22, StutterMaps DEF ListShort, vars, AbsCall, AbsFailed, TypeOK, CallInv
  <1>23. CASE Return(t)
    <2>1. CASE fn[t] = "list"
      <3>1. AbsCall' = AbsCall
        BY <1>23, <2>1 DEF Return, AbsCall, TypeOK
      <3>2. ans[t] = None /\ ans' = ans
        BY <1>23, <2>1 DEF Return, TypeOK, FoundInv
      <3>3. UNCHANGED <<db, kv>>
        BY <1>23 DEF Return
      <3>4. AbsFailed' = AbsFailed
        <4>1. /\ failed' = failed \ {t} /\ failed \subseteq Threads
              /\ \A u \in Threads \ {t} : fn'[u] = fn[u]
          BY <1>23 DEF Return, TypeOK
        <4> QED  BY <2>1, <4>1 DEF AbsFailed
      <3> QED  BY <3>1, <3>2, <3>3, <3>4, StutterMaps
    <2>2. CASE fn[t] # "list"
      <3>1. AbsCall' = [AbsCall EXCEPT ![t] = None]
        BY <1>23 DEF Return, AbsCall, TypeOK
      <3>2. AbsFailed' = AbsFailed \ {t}
        <4>1. /\ failed' = failed \ {t} /\ failed \subseteq Threads
              /\ \A u \in Threads \ {t} : fn'[u] = fn[u]
          BY <1>23 DEF Return, TypeOK
        <4> QED  BY <4>1 DEF AbsFailed
      <3>3. KV!Return(t)
        BY <1>23, <2>2, <3>1, <3>2 DEF Return, KV!Return, AbsCall, AbsFailed, FoundInv
      <3> QED  BY <3>3 DEF KV!Next
    <2> QED  BY <2>1, <2>2
  <1>24. CASE LevelDBExistsFails(t)
    BY <1>24, <1>b DEF LevelDBExistsFails
  <1>25. CASE DiskGetFails(t)
    <2>1. PICK a \in {"EMPTY", "UNKNOWN_KEY"} :
              fn[t] = "get" /\ pc[t] = "called" /\ pc' = [pc EXCEPT ![t] = "done"] /\ Fail(t, a)
      BY <1>25 DEF DiskGetFails
    <2>2. key[t] \in Keys /\ val[t] \in Values /\ KV!Fail(t, "get", key[t], val[t], a)
      BY <2>1, FailMaps
    <2>3. KV!Get(t, key[t], val[t])
      BY ONLY <2>1, <2>2 DEF KV!Get
    <2> QED  BY <2>1, <2>2, <2>3, <1>a
  <1>26. CASE DiskExistsFails(t)
    <2>1. PICK a \in {"THERE", "NOT_THERE"} :
              fn[t] = "exists" /\ pc[t] = "called" /\ pc' = [pc EXCEPT ![t] = "done"] /\ Fail(t, a)
      BY <1>26 DEF DiskExistsFails
    <2>2. key[t] \in Keys /\ val[t] \in Values /\ KV!Fail(t, "exists", key[t], val[t], a)
      BY <2>1, FailMaps
    <2>3. KV!Exists(t, key[t], val[t])
      BY ONLY <2>1, <2>2 DEF KV!Exists
    <2> QED  BY <2>1, <2>2, <2>3, <1>a
  <1>27. CASE ListFails(t)
    <2>1. fn[t] = "list" /\ UNCHANGED <<db, kv, ans, fn, key, val>> /\ failed' = failed \cup {t}
      BY <1>27 DEF ListFails, CallInv
    <2>2. AbsFailed' = AbsFailed
      BY <2>1 DEF AbsFailed
    <2>3. AbsCall' = AbsCall
      BY <1>27, <2>1 DEF ListFails, ListDone, AbsCall, TypeOK
    <2> QED  BY <2>1, <2>2, <2>3, StutterMaps
  <1> QED  BY <1>1, <1>2, <1>3, <1>4, <1>5, <1>6, <1>7, <1>8, <1>9, <1>10, <1>11, <1>12,
           <1>13, <1>14, <1>15, <1>16, <1>17, <1>18, <1>19, <1>20, <1>21, <1>22, <1>23,
           <1>24, <1>25, <1>26, <1>27 DEF Step

\* Every step of the database is a step of the map, or none.
LEMMA NextMaps ==
  ASSUME PutIsAtomic
  PROVE  IInv /\ [Next]_vars => [KV!Next]_(KV!vars)
  <1> SUFFICES ASSUME IInv, [Next]_vars PROVE KV!Next \/ UNCHANGED KV!vars
    OBVIOUS
  <1>1. ASSUME NEW t \in Threads, CallKey(t) PROVE KV!Next
    <2>1. PICK f \in Functions \ {"list"}, k \in Keys, v \in Values :
              /\ pc[t] = "idle" /\ pc' = [pc EXCEPT ![t] = "called"]
              /\ fn' = [fn EXCEPT ![t] = f] /\ key' = [key EXCEPT ![t] = k]
              /\ val' = [val EXCEPT ![t] = v] /\ UNCHANGED <<db, kv, ans, failed>>
      BY <1>1 DEF CallKey
    <2>2. AbsCall[t] = None /\ AbsCall' = [AbsCall EXCEPT ![t] = <<f, k, v>>]
      BY <2>1 DEF AbsCall, IInv, TypeOK
    <2>3. AbsFailed' = AbsFailed
      BY <2>1 DEF AbsFailed, IInv, TypeOK, FoundInv
    <2>4. KV!Invoke(t, f, k, v) /\ f \in KV!Operations
      BY <2>1, <2>2, <2>3 DEF KV!Invoke, KV!Operations, AbsCall, AbsFailed
    <2> QED  BY <2>4 DEF KV!Next
  <1>2. ASSUME NEW t \in Threads, CallList(t) PROVE UNCHANGED KV!vars
    <2>1. AbsCall' = AbsCall
      <3>1. /\ pc[t] = "idle" /\ fn' = [fn EXCEPT ![t] = "list"]
            /\ pc' = [pc EXCEPT ![t] = "called"] /\ UNCHANGED <<key, val>>
        BY <1>2 DEF CallList
      <3> QED  BY <3>1 DEF AbsCall, IInv, TypeOK
    <2>2. UNCHANGED <<db, kv, ans>>
      BY <1>2 DEF CallList
    <2>3. AbsFailed' = AbsFailed
      BY <1>2 DEF CallList, AbsFailed, IInv, TypeOK, FoundInv
    <2> QED  BY <2>1, <2>2, <2>3, StutterMaps
  <1>3. ASSUME NEW t \in Threads, Step(t) PROVE KV!Next \/ UNCHANGED KV!vars
    BY <1>3, StepMaps
  <1>4. CASE UNCHANGED vars
    BY <1>4, StutterMaps DEF vars, AbsCall, AbsFailed
  <1> QED  BY <1>1, <1>2, <1>3, <1>4 DEF Next, Quiescent

\* MapDataStore, BerkeleyDBDataStore, and LevelDBDataStore without no_overwrite
\* implement KVStore: every put, get, exists and erase takes effect in one step, or the
\* library fails it; then it changes nothing, whatever a get or exists answers.
THEOREM CallsAreAtomic ==
  ASSUME PutIsAtomic
  PROVE  Spec => Implements
  <1>1. Init => KV!Init
    BY InitMaps
  <1>2. IInv /\ [Next]_vars => [KV!Next]_(KV!vars)
    BY NextMaps
  <1> QED  BY <1>1, <1>2, InitInv, NextInv, PTL DEF Spec, Implements, KV!Spec
-----------------------------------------------------------------------------
(* Listings among writes.                                                  *)

\* What a call under way knows of its walk stays true while it stands still and keys
\* come and go, as long as its history keeps up with them.
LEMMA StandingStill ==
  ASSUME TypeOK, NEW u \in Threads, WalkOK(u),
         db' = db, pc'[u] = pc[u], fn'[u] = fn[u], start'[u] = start[u], count'[u] = count[u],
         it'[u] = it[u], snap'[u] = snap[u], list'[u] = list[u],
         ever[u] \subseteq ever'[u], always'[u] \subseteq always[u],
         u \in failed' <=> u \in failed,
         fn[u] = "list" => always'[u] \subseteq Present(kv)' /\ Present(kv)' \subseteq ever'[u]
  PROVE  WalkOK(u)'
  <1>1. Bracketed(u)'
    BY DEF WalkOK, Bracketed, Present
  <1>2. Walking(u) => Walking(u)'
    BY DEF Walking, Full
  <1>3. LongKeys(u)' => LongKeys(u)
    BY DEF LongKeys
  <1> QED  BY <1>1, <1>2, <1>3 DEF WalkOK

\* A write of one thread leaves every walk as it is.
LEMMA EffectWalks ==
  ASSUME TypeOK, CallInv, WalkInv, NEW t \in Threads, pc[t] # "idle", fn[t] # "list",
         NEW w \in Values \cup {None}, NEW a, NEW p \in {"unlock", "done"},
         pc' = [pc EXCEPT ![t] = p], Effect(t, w, a)
  PROVE  WalkInv'
  <1> SUFFICES ASSUME NEW u \in Threads PROVE WalkOK(u)'
    BY DEF WalkInv
  <1>0. key[t] \in Keys
    BY DEF CallInv
  <1>1. ever[u] \subseteq ever'[u] /\ always'[u] \subseteq always[u]
    BY DEF Effect
  <1>2. ASSUME fn[u] = "list"
        PROVE  always'[u] \subseteq Present(kv)' /\ Present(kv)' \subseteq ever'[u]
    <2>1. always[u] \subseteq Present(kv) /\ Present(kv) \subseteq ever[u]
      BY <1>2 DEF WalkInv, WalkOK, Bracketed
    <2>2. kv' = [kv EXCEPT ![key[t]] = w]
      BY DEF Effect
    <2>3. CASE w = None
      <3>1. always'[u] = always[u] \ {key[t]} /\ ever'[u] = ever[u]
        BY <2>3 DEF Effect
      <3>2. Present(kv)' = Present(kv) \ {key[t]}
        BY <2>2, <2>3, <1>0 DEF Present, TypeOK
      <3> QED  BY <2>1, <3>1, <3>2
    <2>4. CASE w # None
      <3>1. always'[u] = always[u] /\ ever'[u] = ever[u] \cup {key[t]}
        BY <2>4, <1>2 DEF Effect
      <3>2. Present(kv)' = Present(kv) \cup {key[t]}
        BY <2>2, <2>4, <1>0 DEF Present, TypeOK
      <3> QED  BY <2>1, <3>1, <3>2
    <2> QED  BY <2>3, <2>4
  <1>3. CASE u # t
    <2>1. WalkOK(u) /\ pc'[u] = pc[u]
      BY <1>3 DEF WalkInv, TypeOK
    <2>2. /\ db' = db /\ fn'[u] = fn[u] /\ start'[u] = start[u] /\ count'[u] = count[u]
          /\ it'[u] = it[u] /\ snap'[u] = snap[u] /\ list'[u] = list[u] /\ failed' = failed
      BY DEF Effect
    <2> QED  BY <1>1, <1>2, <2>1, <2>2, StandingStill
  <1>4. CASE u = t
    <2>1. pc'[t] = p /\ fn'[t] = fn[t]
      BY DEF TypeOK, Effect
    <2> QED  BY <1>4, <2>1 DEF WalkOK, Bracketed
  <1> QED  BY <1>3, <1>4

\* A step of t that writes nothing leaves the walks of the others as they are.
LEMMA OthersStand ==
  ASSUME TypeOK, WalkInv, NEW t \in Threads, UNCHANGED <<db, kv, ever, always>>,
         \A u \in Threads \ {t} :
             /\ pc'[u] = pc[u] /\ fn'[u] = fn[u] /\ start'[u] = start[u] /\ count'[u] = count[u]
             /\ it'[u] = it[u] /\ snap'[u] = snap[u] /\ list'[u] = list[u]
             /\ (u \in failed' <=> u \in failed),
         WalkOK(t)'
  PROVE  WalkInv'
  <1> SUFFICES ASSUME NEW u \in Threads \ {t} PROVE WalkOK(u)'
    BY DEF WalkInv
  <1>1. WalkOK(u)
    BY DEF WalkInv
  <1>2. fn[u] = "list" => always'[u] \subseteq Present(kv)' /\ Present(kv)' \subseteq ever'[u]
    BY <1>1 DEF WalkOK, Bracketed, Present
  <1> QED  BY <1>1, <1>2, StandingStill

\* So does a call on a key that fails.
LEMMA FailWalks ==
  ASSUME TypeOK, WalkInv, NEW t \in Threads, fn[t] # "list", pc' = [pc EXCEPT ![t] = "done"],
         NEW a, Fail(t, a)
  PROVE  WalkInv'
  <1>1. pc'[t] = "done" /\ fn'[t] # "list"
    BY DEF Fail, TypeOK
  <1>2. WalkOK(t)'
    BY <1>1 DEF WalkOK, Bracketed
  <1> QED  BY <1>2, OthersStand DEF Fail, TypeOK

\* The keys that a listing walks on include those that were there throughout, and
\* were all there at some time.
LEMMA WalksOnHistory ==
  ASSUME IInv, WalkInv, NEW t \in Threads, pc[t] = "listing"
  PROVE  /\ \A k \in always[t] : k \in Keys /\ Walked(t)[k] # None
         /\ \A k \in Keys : Walked(t)[k] # None => k \in ever[t]
  <1>1. fn[t] = "list"
    BY DEF IInv, CallInv
  <1> QED  BY <1>1 DEF WalkInv, WalkOK, Bracketed, Present, Walked

\* Iterators, start keys and counts are numbers.
LEMMA WalkTypes ==
  ASSUME TypeOK, NEW t \in Threads
  PROVE  /\ it[t] \in Nat /\ start[t] \in Nat /\ count[t] \in Nat
         /\ \A k \in Keys : k \in Nat
  <1>1. /\ it[t] \in Keys \cup {0} /\ start[t] \in Keys \cup {0} /\ count[t] \in Nat
    BY DEF TypeOK
  <1>2. \A k \in Keys : k \in Nat
    OBVIOUS
  <1>3. \A k \in Keys \cup {0} : k \in Nat
    BY <1>2
  <1> QED  BY <1>1, <1>2, <1>3, Zenon

\* The walk begins at the start key with an empty list.
LEMMA WalkBegins ==
  ASSUME IInv, WalkInv, NEW t \in Threads, fn[t] = "list", pc[t] = "called",
         pc' = [pc EXCEPT ![t] = "listing"], it' = [it EXCEPT ![t] = start[t]],
         snap' = [snap EXCEPT ![t] = kv],
         UNCHANGED <<db, kv, args, list, failed, seen>>
  PROVE  WalkInv'
  <1> USE DEF IInv
  <1>1. pc'[t] = "listing" /\ it'[t] = start[t] /\ start[t] \in Nat /\ count[t] \in Nat
    BY WalkTypes DEF TypeOK
  <1>2. list'[t] = {}
    BY DEF WalkInv, WalkOK
  <1>3. IsFiniteSet(list'[t]) /\ Cardinality(list'[t]) = 0
    BY <1>2, FS_EmptySet
  <1>4. Walking(t)'
    BY <1>1, <1>2, <1>3, WalkTypes DEF Walking
  <1>5. Bracketed(t)'
    <2>1. always[t] \subseteq Present(kv) /\ Present(kv) \subseteq ever[t]
      BY DEF WalkInv, WalkOK, Bracketed
    <2>2. snap'[t] = kv
      BY DEF TypeOK
    <2> QED  BY <2>1, <2>2 DEF Bracketed, Present
  <1>6. WalkOK(t)'
    BY <1>1, <1>4, <1>5 DEF WalkOK
  <1>7. \A u \in Threads \ {t} : pc'[u] = pc[u] /\ it'[u] = it[u] /\ snap'[u] = snap[u]
    BY DEF TypeOK
  <1> QED  BY <1>6, <1>7, OthersStand

\* The walk moves to the next key, and either lists it or had no reason to.
LEMMA WalkMoves ==
  ASSUME IInv, WalkInv, NEW t \in Threads, pc[t] = "listing", ~Full(t),
         NEW k \in Keys, IsNext(t, k), it' = [it EXCEPT ![t] = k],
         list' \in {list, [list EXCEPT ![t] = @ \cup {k}]},
         LongKeys(t) => \/ k \in Matching /\ list' = [list EXCEPT ![t] = @ \cup {k}]
                        \/ k \notin Matching /\ list' = list,
         UNCHANGED <<db, kv, pc, args, snap, failed, seen>>
  PROVE  WalkInv'
  <1> USE DEF IInv
  <1>1. fn[t] = "list" /\ Bracketed(t)
    BY DEF CallInv, WalkInv, WalkOK
  <1>2. ASSUME LongKeys(t) PROVE Walking(t)'
    <2> DEFINE L == list[t]
    <2>1. fn[t] = "list" /\ Walking(t)
      BY <1>1, <1>2 DEF WalkInv, WalkOK
    <2>2. /\ it[t] \in Nat /\ start[t] \in Nat /\ count[t] \in Nat /\ k \in Nat
          /\ it'[t] = k /\ k > it[t] /\ list'[t] \in {L, L \cup {k}}
      BY WalkTypes DEF TypeOK, IsNext
    <2>3. IsFiniteSet(L) /\ Cardinality(L) < count[t] /\ Cardinality(L) \in Nat
      BY <2>1, <2>2, FS_CardinalityType DEF Walking, Full
    <2>4. IsFiniteSet(list'[t]) /\ Cardinality(list'[t]) <= count[t]
      <3>1. /\ IsFiniteSet(L \cup {k})
            /\ Cardinality(L \cup {k}) \in {Cardinality(L), Cardinality(L) + 1}
        BY <2>3, FS_AddElement
      <3>2. list'[t] = L \/ list'[t] = L \cup {k}
        BY <2>2
      <3>4. CASE list'[t] = L
        BY <2>2, <2>3, <3>4
      <3>5. CASE list'[t] = L \cup {k}
        <4>1. Cardinality(L) + 1 <= count[t] /\ Cardinality(L) <= count[t]
          BY <2>2, <2>3
        <4> QED  BY <3>1, <3>5, <4>1
      <3> QED  BY <3>2, <3>4, <3>5
    <2>5. \A j \in list'[t] : j \in Matching \cap ever[t] /\ j > start[t] /\ j <= k
      <3>1. k \in ever[t]
        BY WalksOnHistory DEF IsNext
      <3>2. k \in list'[t] => k \in L \/ k \in Matching
        BY <1>2 DEF TypeOK
      <3>3. k > start[t] /\ k <= k
        BY <2>1, <2>2 DEF Walking
      <3>4. ASSUME NEW j \in L PROVE j \in Matching \cap ever[t] /\ j > start[t] /\ j <= k
        <4>1. j \in Matching \cap ever[t] /\ j > start[t] /\ j <= it[t] /\ j \in Nat
          BY <2>1, WalkTypes DEF Walking
        <4> QED  BY <2>2, <4>1
      <3> QED  BY <2>2, <3>1, <3>2, <3>3, <3>4
    <2>6. \A j \in Matching \cap always[t] : j > start[t] /\ j <= k => j \in list'[t]
      <3> SUFFICES ASSUME NEW j \in Matching \cap always[t], j > start[t], j <= k
                   PROVE  j \in list'[t]
        OBVIOUS
      <3>1. L \subseteq list'[t] /\ (k \in Matching => k \in list'[t]) /\ j \in Nat
        BY <1>2 DEF TypeOK
      <3>2. CASE j <= it[t]
        BY <2>1, <3>1, <3>2 DEF Walking
      <3>3. CASE j > it[t]
        <4>1. k <= j
          BY <3>3, WalksOnHistory DEF IsNext
        <4> QED  BY <2>2, <3>1, <4>1
      <3> QED  BY <2>2, <3>1, <3>2, <3>3
    <2>7. Walking(t)'
      BY <2>1, <2>2, <2>4, <2>5, <2>6 DEF Walking
    <2> QED  BY <2>7
  <1>3. LongKeys(t)' <=> LongKeys(t)
    BY DEF LongKeys
  <1>4. WalkOK(t)'
    BY <1>1, <1>2, <1>3 DEF WalkOK, Bracketed
  <1>5. \A u \in Threads \ {t} : it'[u] = it[u] /\ list'[u] = list[u]
    BY DEF TypeOK
  <1> QED  BY <1>4, <1>5, OthersStand

\* The walk ends where it is full, or where no key that it should list is left.
LEMMA WalkStops ==
  ASSUME IInv, WalkInv, NEW t \in Threads, pc[t] = "listing", ListDone(t),
         failed' \in {failed, failed \cup {t}},
         LongKeys(t) /\ t \notin failed' =>
             Full(t) \/ \A k \in Matching \cap always[t] : k <= it[t],
         UNCHANGED <<db, kv, args, walk, seen>>
  PROVE  WalkInv'
  <1> USE DEF IInv
  <1>1. fn[t] = "list" /\ Bracketed(t)
    BY DEF CallInv, WalkInv, WalkOK
  <1>2. pc'[t] \in {"unlock", "done"} /\ \A u \in Threads \ {t} : pc'[u] = pc[u]
    BY DEF ListDone, TypeOK
  <1>3. (Full(t)' <=> Full(t)) /\ (LongKeys(t)' <=> LongKeys(t))
    BY DEF Full, LongKeys
  <1>4. ASSUME LongKeys(t) PROVE Walking(t)'
    <2>1. Walking(t)
      BY <1>1, <1>4 DEF WalkInv, WalkOK
    <2>2. it[t] \in Nat /\ \A k \in Matching : k \in Nat
      BY WalkTypes
    <2>3. ASSUME t \notin failed', NEW k \in Matching \cap always[t], k > it[t] PROVE Full(t)
      <3>1. ~(k <= it[t])
        BY <2>2, <2>3
      <3> QED  BY <1>4, <2>3, <3>1
    <2> QED  BY <1>3, <2>1, <2>3 DEF Walking
  <1>5. WalkOK(t)'
    BY <1>1, <1>2, <1>3, <1>4 DEF WalkOK, Bracketed
  <1> QED  BY <1>2, <1>5, OthersStand

\* A call that stands still while nothing is written.
LEMMA OneStands ==
  ASSUME TypeOK, WalkInv, NEW u \in Threads, db' = db, kv' = kv, pc'[u] = pc[u],
         fn'[u] = fn[u], start'[u] = start[u], count'[u] = count[u], it'[u] = it[u],
         snap'[u] = snap[u], list'[u] = list[u], ever'[u] = ever[u], always'[u] = always[u],
         u \in failed' <=> u \in failed
  PROVE  WalkOK(u)'
  <1>1. WalkOK(u)
    BY DEF WalkInv
  <1>2. fn[u] = "list" => always'[u] \subseteq Present(kv)' /\ Present(kv)' \subseteq ever'[u]
    BY <1>1 DEF WalkOK, Bracketed, Present
  <1> QED  BY <1>1, <1>2, StandingStill

LEMMA WalkStutters == ASSUME TypeOK, WalkInv, UNCHANGED vars PROVE WalkInv'
  <1> SUFFICES ASSUME NEW u \in Threads PROVE WalkOK(u)'
    BY DEF WalkInv
  <1> QED  BY OneStands DEF vars

LEMMA InitWalks == Init => WalkInv
  <1> SUFFICES ASSUME Init, NEW t \in Threads PROVE WalkOK(t)
    BY DEF WalkInv
  <1>1. pc[t] = "idle" /\ fn[t] = None /\ list[t] = {}
    BY DEF Init
  <1>2. fn[t] # "list"
    BY <1>1 DEF Init
  <1> QED  BY <1>1, <1>2 DEF WalkOK, Bracketed

\* Every step of a call keeps the walks in order.
LEMMA StepWalks ==
  ASSUME IInv, WalkInv, NEW t \in Threads, Step(t)
  PROVE  WalkInv'
  <1> USE DEF IInv
  <1>a. ASSUME pc[t] = "listing", LongKeys(t), NEW k \in Short, ~IsMap, IsNext(t, k) PROVE FALSE
    <2>1. k \in ever[t]
      BY <1>a, WalksOnHistory DEF IsNext
    <2> QED  BY <1>a, <2>1 DEF LongKeys
  <1>b. fn[t] # "list" /\ pc[t] # "idle" => kv[key[t]] \in Values \cup {None} /\ val[t] \in Values
    BY DEF TypeOK, CallInv
  <1>1. CASE MapWrlock(t)
    <2>1. fn[t] # "list" /\ pc'[t] \notin {"idle", "called", "listing"}
      BY <1>1 DEF MapWrlock, CallInv, TypeOK
    <2>2. fn'[t] # "list" /\ WalkOK(t)'
      BY <1>1, <2>1 DEF MapWrlock, WalkOK, Bracketed
    <2> QED  BY <1>1, <2>2, OthersStand DEF MapWrlock, TypeOK
  <1>2. CASE MapFind(t)
    <2>1. fn[t] # "list" /\ pc'[t] \notin {"idle", "called", "listing"}
      BY <1>2 DEF MapFind, CallInv, TypeOK
    <2>2. fn'[t] # "list" /\ WalkOK(t)'
      BY <1>2, <2>1 DEF MapFind, WalkOK, Bracketed
    <2> QED  BY <1>2, <2>2, OthersStand DEF MapFind, TypeOK
  <1>3. CASE MapRdlock(t)
    <2>1. CASE fn[t] = "list"
      <3>1. pc[t] = "called" /\ pc' = [pc EXCEPT ![t] = "listing"]
            /\ snap' = [snap EXCEPT ![t] = kv]
        BY <1>3, <2>1 DEF MapRdlock
      <3> QED  BY <1>3, <2>1, <3>1, WalkBegins DEF MapRdlock
    <2>2. CASE fn[t] # "list"
      <3>1. pc'[t] = "locked" /\ fn'[t] # "list"
        BY <1>3, <2>2 DEF MapRdlock, TypeOK
      <3>2. WalkOK(t)'
        BY <3>1 DEF WalkOK, Bracketed
      <3> QED  BY <1>3, <3>2, OthersStand DEF MapRdlock, TypeOK
    <2> QED  BY <2>1, <2>2
  <1>4. CASE MapPut(t)
    <2>1. fn[t] # "list" /\ pc[t] # "idle" /\ pc' = [pc EXCEPT ![t] = "unlock"]
      BY <1>4 DEF MapPut
    <2>2. \E w \in {kv[key[t]], val[t], None} : \E r : Effect(t, w, r)
      BY <1>4 DEF MapPut
    <2> QED  BY <2>1, <2>2, <1>b, EffectWalks
  <1>5. CASE MapErase(t)
    <2>1. fn[t] # "list" /\ pc[t] # "idle" /\ pc' = [pc EXCEPT ![t] = "unlock"]
      BY <1>5 DEF MapErase
    <2>2. \E w \in {kv[key[t]], val[t], None} : \E r : Effect(t, w, r)
      BY <1>5 DEF MapErase
    <2> QED  BY <2>1, <2>2, <1>b, EffectWalks
  <1>6. CASE MapGet(t)
    <2>1. fn[t] # "list" /\ pc[t] # "idle" /\ pc' = [pc EXCEPT ![t] = "unlock"]
      BY <1>6 DEF MapGet
    <2>2. \E w \in {kv[key[t]], val[t], None} : \E r : Effect(t, w, r)
      BY <1>6 DEF MapGet
    <2> QED  BY <2>1, <2>2, <1>b, EffectWalks
  <1>7. CASE MapExists(t)
    <2>1. fn[t] # "list" /\ pc[t] # "idle" /\ pc' = [pc EXCEPT ![t] = "unlock"]
      BY <1>7 DEF MapExists
    <2>2. \E w \in {kv[key[t]], val[t], None} : \E r : Effect(t, w, r)
      BY <1>7 DEF MapExists
    <2> QED  BY <2>1, <2>2, <1>b, EffectWalks
  <1>8. CASE LevelDBPut(t)
    <2>1. fn[t] # "list" /\ pc[t] # "idle" /\ pc' = [pc EXCEPT ![t] = "done"]
      BY <1>8 DEF LevelDBPut
    <2>2. \E w \in {kv[key[t]], val[t], None} : \E r : Effect(t, w, r)
      BY <1>8 DEF LevelDBPut
    <2> QED  BY <2>1, <2>2, <1>b, EffectWalks
  <1>9. CASE BerkeleyDBPut(t)
    <2>1. fn[t] # "list" /\ pc[t] # "idle" /\ pc' = [pc EXCEPT ![t] = "done"]
      BY <1>9 DEF BerkeleyDBPut
    <2>2. \E w \in {kv[key[t]], val[t], None} : \E r : Effect(t, w, r)
      BY <1>9 DEF BerkeleyDBPut
    <2> QED  BY <2>1, <2>2, <1>b, EffectWalks
  <1>10. CASE DiskPutFails(t)
    <2>1. fn[t] # "list" /\ pc[t] # "idle" /\ pc' = [pc EXCEPT ![t] = "done"] /\ \E a : Fail(t, a)
      BY <1>10 DEF DiskPutFails
    <2> QED  BY <2>1, FailWalks
  <1>11. CASE DiskErase(t)
    <2>1. fn[t] # "list" /\ pc[t] # "idle" /\ pc' = [pc EXCEPT ![t] = "done"]
      BY <1>11 DEF DiskErase
    <2>2. \E w \in {kv[key[t]], val[t], None} : \E r : Effect(t, w, r)
      BY <1>11 DEF DiskErase
    <2> QED  BY <2>1, <2>2, <1>b, EffectWalks
  <1>12. CASE DiskEraseFails(t)
    <2>1. fn[t] # "list" /\ pc[t] # "idle" /\ pc' = [pc EXCEPT ![t] = "done"] /\ \E a : Fail(t, a)
      BY <1>12 DEF DiskEraseFails
    <2> QED  BY <2>1, FailWalks
  <1>13. CASE DiskGet(t)
    <2>1. fn[t] # "list" /\ pc[t] # "idle" /\ pc' = [pc EXCEPT ![t] = "done"]
      BY <1>13 DEF DiskGet
    <2>2. \E w \in {kv[key[t]], val[t], None} : \E r : Effect(t, w, r)
      BY <1>13 DEF DiskGet
    <2> QED  BY <2>1, <2>2, <1>b, EffectWalks
  <1>14. CASE DiskExists(t)
    <2>1. fn[t] # "list" /\ pc[t] # "idle" /\ pc' = [pc EXCEPT ![t] = "done"]
      BY <1>14 DEF DiskExists
    <2>2. \E w \in {kv[key[t]], val[t], None} : \E r : Effect(t, w, r)
      BY <1>14 DEF DiskExists
    <2> QED  BY <2>1, <2>2, <1>b, EffectWalks
  <1>15. CASE LevelDBExists(t)
    <2>1. CASE kv[key[t]] # None
      <3>1. fn[t] # "list" /\ pc[t] # "idle" /\ pc' = [pc EXCEPT ![t] = "done"]
        BY <1>15, <2>1 DEF LevelDBExists
      <3>2. \E w \in {kv[key[t]], val[t], None} : \E r : Effect(t, w, r)
        BY <1>15, <2>1 DEF LevelDBExists
      <3> QED  BY <3>1, <3>2, <1>b, EffectWalks
    <2>2. CASE kv[key[t]] = None
      <3>1. pc'[t] = "checked" /\ fn'[t] # "list"
        BY <1>15, <2>2 DEF LevelDBExists, TypeOK
      <3>2. WalkOK(t)'
        BY <3>1 DEF WalkOK, Bracketed
      <3> QED  BY <1>15, <2>2, <3>2, OthersStand DEF LevelDBExists, TypeOK
    <2> QED  BY <2>1, <2>2
  <1>16. CASE MapUnlock(t)
    <2>1. pc[t] = "unlock" /\ pc'[t] = "done" /\ WalkOK(t)
      BY <1>16 DEF MapUnlock, TypeOK, WalkInv
    <2>2. LongKeys(t)' <=> LongKeys(t)
      BY <1>16 DEF MapUnlock, LongKeys
    <2>3. fn[t] = "list" /\ LongKeys(t) => Walking(t)'
      BY <1>16, <2>1 DEF MapUnlock, WalkOK, Walking, Full
    <2>4. WalkOK(t)'
      BY <1>16, <2>1, <2>2, <2>3 DEF MapUnlock, WalkOK, Bracketed
    <2> QED  BY <1>16, <2>4, OthersStand DEF MapUnlock, TypeOK
  <1>17. CASE DiskListBegin(t)
    BY <1>17, WalkBegins DEF DiskListBegin
  <1>18. CASE ListEnds(t)
    <2>1. Full(t) \/ \A k \in Matching \cap always[t] : k <= it[t]
      BY <1>18, WalksOnHistory DEF ListEnds, AtEnd
    <2> QED  BY <1>18, <2>1, WalkStops DEF ListEnds
  <1>19. CASE ListPush(t)
    <2>1. PICK k \in Matching \cup (IF IsMap THEN {} ELSE Short) :
              IsNext(t, k) /\ it' = [it EXCEPT ![t] = k] /\ list' = [list EXCEPT ![t] = @ \cup {k}]
      BY <1>19 DEF ListPush
    <2>2. k \in Keys /\ (LongKeys(t) => k \in Matching) /\ pc[t] = "listing"
      BY <1>19, <2>1, <1>a DEF ListPush
    <2> QED  BY <1>19, <2>1, <2>2, WalkMoves DEF ListPush
  <1>20. CASE ListSkip(t)
    <2>1. PICK k \in Before \cup (IF IsMap THEN {} ELSE Short) :
              IsNext(t, k) /\ it' = [it EXCEPT ![t] = k]
      BY <1>20 DEF ListSkip
    <2>2. k \in Keys \ Matching
      BY DEF Before
    <2> QED  BY <1>20, <2>1, <2>2, WalkMoves DEF ListSkip
  <1>21. CASE ListBreak(t)
    <2>1. PICK k \in After \cup (IF IsMap THEN {} ELSE Short) : IsNext(t, k) /\ pc[t] = "listing"
      BY <1>21 DEF ListBreak
    <2>2. ASSUME LongKeys(t), NEW m \in Matching \cap always[t], ~(m <= it[t]) PROVE FALSE
      <3>1. k \in After
        BY <2>1, <2>2, <1>a
      <3>2. PICK j \in Matching : ~(k < j)
        BY <3>1 DEF After, Before
      <3>3. j \in Nat /\ k \in Nat /\ k \in Keys \ Matching /\ j < k
        BY <3>1, <3>2, WalkTypes DEF After
      <3>4. m \in Nat /\ it[t] \in Nat
        BY WalkTypes
      <3>5. k <= m
        BY <2>1, <2>2, <3>4, WalksOnHistory DEF IsNext
      <3>6. k < m
        BY <3>3, <3>4, <3>5
      <3> QED  BY <3>3, <3>6
    <2> QED  BY <1>21, <2>1, <2>2, WalkStops DEF ListBreak
  <1>22. CASE ListShort(t)
    BY <1>22, WalkStutters DEF ListShort
  <1>23. CASE Return(t)
    <2>1. pc'[t] = "idle" /\ fn'[t] = None /\ list'[t] = {} /\ fn'[t] # "list"
      BY <1>23 DEF Return, TypeOK
    <2>2. WalkOK(t)'
      BY <2>1 DEF WalkOK, Bracketed
    <2>3. ever'[t] = {} /\ always'[t] = {}
      BY <1>23 DEF Return, TypeOK
    <2>4. ASSUME NEW u \in Threads \ {t} PROVE WalkOK(u)'
      <3>1. /\ db' = db /\ pc'[u] = pc[u] /\ fn'[u] = fn[u]
            /\ start'[u] = start[u] /\ count'[u] = count[u] /\ it'[u] = it[u]
            /\ snap'[u] = snap[u] /\ list'[u] = list[u]
            /\ ever'[u] = ever[u] /\ always'[u] = always[u] /\ kv' = kv
            /\ (u \in failed' <=> u \in failed)
        BY <1>23 DEF Return, TypeOK
      <3> QED  BY <3>1, OneStands
    <2> QED  BY <2>2, <2>4 DEF WalkInv
  <1>24. CASE LevelDBExistsFails(t)
    <2>1. pc'[t] = "checked" /\ fn'[t] # "list"
      BY <1>24 DEF LevelDBExistsFails, TypeOK
    <2>2. WalkOK(t)'
      BY <2>1 DEF WalkOK, Bracketed
    <2> QED  BY <1>24, <2>2, OthersStand DEF LevelDBExistsFails, TypeOK
  <1>25. CASE DiskGetFails(t)
    <2>1. fn[t] # "list" /\ pc[t] # "idle" /\ pc' = [pc EXCEPT ![t] = "done"] /\ \E a : Fail(t, a)
      BY <1>25 DEF DiskGetFails
    <2> QED  BY <2>1, FailWalks
  <1>26. CASE DiskExistsFails(t)
    <2>1. fn[t] # "list" /\ pc[t] # "idle" /\ pc' = [pc EXCEPT ![t] = "done"] /\ \E a : Fail(t, a)
      BY <1>26 DEF DiskExistsFails
    <2> QED  BY <2>1, FailWalks
  <1>27. CASE ListFails(t)
    BY <1>27, WalkStops DEF ListFails
  <1> QED  BY <1>1, <1>2, <1>3, <1>4, <1>5, <1>6, <1>7, <1>8, <1>9, <1>10, <1>11,
           <1>12, <1>13, <1>14, <1>15, <1>16, <1>17, <1>18, <1>19, <1>20, <1>21, <1>22,
           <1>23,
           <1>24, <1>25, <1>26, <1>27 DEF Step

\* The inductive step for the walks.
LEMMA NextWalks == IInv /\ WalkInv /\ [Next]_vars => WalkInv'
  <1> SUFFICES ASSUME IInv, WalkInv, [Next]_vars PROVE WalkInv'
    OBVIOUS
  <1>t. TypeOK
    BY DEF IInv
  <1>1. ASSUME NEW t \in Threads, CallKey(t) PROVE WalkInv'
    <2>1. pc'[t] = "called" /\ fn'[t] # "list" /\ pc[t] = "idle" /\ list'[t] = list[t]
      BY <1>1, <1>t DEF CallKey, TypeOK
    <2>2. WalkOK(t)'
      BY <2>1 DEF WalkOK, Bracketed, WalkInv
    <2> QED  BY <1>1, <1>t, <2>2, OthersStand DEF CallKey, TypeOK
  <1>2. ASSUME NEW t \in Threads, CallList(t) PROVE WalkInv'
    <2>1. /\ pc'[t] = "called" /\ pc[t] = "idle" /\ list'[t] = list[t] /\ kv' = kv
          /\ ever'[t] = Present(kv) /\ always'[t] = Present(kv)
      BY <1>2, <1>t DEF CallList, TypeOK
    <2>2. WalkOK(t)'
      BY <2>1 DEF WalkOK, Bracketed, WalkInv, Present
    <2>3. ASSUME NEW u \in Threads \ {t} PROVE WalkOK(u)'
      <3>1. /\ db' = db /\ pc'[u] = pc[u] /\ fn'[u] = fn[u]
            /\ start'[u] = start[u] /\ count'[u] = count[u] /\ it'[u] = it[u]
            /\ snap'[u] = snap[u] /\ list'[u] = list[u]
            /\ ever'[u] = ever[u] /\ always'[u] = always[u] /\ kv' = kv
            /\ (u \in failed' <=> u \in failed)
        BY <1>2, <1>t DEF CallList, TypeOK
      <3> QED  BY <1>t, <3>1, OneStands
    <2> QED  BY <2>2, <2>3 DEF WalkInv
  <1>3. ASSUME NEW t \in Threads, Step(t) PROVE WalkInv'
    BY <1>3, StepWalks
  <1>4. CASE UNCHANGED vars
    BY <1>4, <1>t, WalkStutters
  <1> QED  BY <1>1, <1>2, <1>3, <1>4 DEF Next, Quiescent

\* ListContract for any number of threads, keys and writes among the listing: what a
\* listing returns was there, matches and fits, and it misses nothing that was there
\* throughout.  (As ListContract says, but for a listing that the library failed, and one
\* of LevelDB or BerkeleyDB while a key shorter than the prefix is there.)
THEOREM ListingsAreRight == Spec => []ListContract
  <1>1. IInv /\ WalkInv => ListContract
    <2> SUFFICES ASSUME IInv, WalkInv, NEW t \in Threads, pc[t] = "done", fn[t] = "list",
                        LongKeys(t)
                 PROVE  /\ list[t] \subseteq {k \in Matching \cap ever[t] : k > start[t]}
                        /\ Cardinality(list[t]) <= count[t]
                        /\ t \notin failed => \A k \in Matching \cap always[t] :
                               \/ k <= start[t] \/ k \in list[t]
                               \/ Full(t) /\ \A j \in list[t] : j < k
      BY DEF ListContract
    <2>1. Walking(t)
      BY DEF WalkInv, WalkOK
    <2>2. /\ it[t] \in Nat /\ start[t] \in Nat /\ \A k \in Matching : k \in Nat
      BY WalkTypes DEF IInv
    <2>3. /\ list[t] \subseteq {k \in Matching \cap ever[t] : k > start[t]}
          /\ Cardinality(list[t]) <= count[t]
      BY <2>1 DEF Walking
    <2>4. ASSUME t \notin failed,
                 NEW k \in Matching \cap always[t], ~(k <= start[t]), k \notin list[t]
          PROVE  Full(t) /\ \A j \in list[t] : j < k
      <3>0. k \in Nat
        BY <2>2
      <3>1. k > it[t]
        <4>1. k > start[t]
          BY <2>2, <2>4, <3>0
        <4>2. ~(k <= it[t])
          BY <2>1, <2>4, <4>1 DEF Walking
        <4> QED  BY <2>2, <3>0, <4>2
      <3>2. Full(t)
        BY <2>1, <2>4, <3>1 DEF Walking
      <3>3. \A j \in list[t] : j \in Matching /\ j <= it[t]
        BY <2>1 DEF Walking
      <3>4. ASSUME NEW j \in list[t] PROVE j < k
        <4>1. j \in Nat /\ j <= it[t]
          BY <2>2, <3>3
        <4> QED  BY <2>2, <3>0, <3>1, <4>1
      <3> QED  BY <3>2, <3>4
    <2> QED  BY <2>3, <2>4
  <1>2. Init => WalkInv
    BY InitWalks
  <1>3. IInv /\ WalkInv /\ [Next]_vars => WalkInv'
    BY NextWalks
  <1> QED  BY <1>1, <1>2, <1>3, InitInv, NextInv, PTL DEF Spec

-----------------------------------------------------------------------------
(* Listings of the map and of LevelDB as one look at the database.         *)

\* A step of t leaves the view of every other walk alone: the database does not change
\* while a walk of the map is under way, as the walk has the read lock.
LEMMA OthersView ==
  ASSUME IInv, ViewInv, NEW t \in Threads, db' = db,
         kv' = kv \/ ~IsMap \/ writer = t,
         \A u \in Threads \ {t} :
             /\ pc'[u] = pc[u] /\ fn'[u] = fn[u] /\ start'[u] = start[u] /\ count'[u] = count[u]
             /\ it'[u] = it[u] /\ snap'[u] = snap[u] /\ list'[u] = list[u]
             /\ (u \in failed' <=> u \in failed) /\ ever[u] \subseteq ever'[u],
         ViewOK(t)'
  PROVE  ViewInv'
  <1> SUFFICES ASSUME NEW u \in Threads \ {t} PROVE ViewOK(u)'
    BY DEF ViewInv
  <1>1. ViewOK(u)
    BY DEF ViewInv
  <1>2. IsMap /\ fn[u] = "list" /\ pc[u] = "listing" => kv' = kv
    <2> SUFFICES ASSUME IsMap, fn[u] = "list", pc[u] = "listing", writer = t PROVE FALSE
      OBVIOUS
    <2>1. u \in readers
      BY DEF IInv, LockInv
    <2>2. writer # None
      OBVIOUS
    <2> QED  BY <2>1, <2>2 DEF IInv, LockInv
  <1>3. (IsMap' <=> IsMap) /\ (LongKeys(u)' => LongKeys(u))
    BY DEF IsMap, LongKeys
  <1>4. Full(u)' <=> Full(u)
    BY DEF Full
  <1> QED  BY <1>1, <1>2, <1>3, <1>4 DEF ViewOK, Present

\* A call that is no listing has no view to keep.
LEMMA NoView ==
  ASSUME NEW t \in Threads, fn'[t] # "list" PROVE ViewOK(t)'
  BY DEF ViewOK

\* Writes and reads of single keys.
LEMMA EffectViews ==
  ASSUME IInv, ViewInv, NEW t \in Threads, fn[t] # "list",
         NEW w, NEW a, NEW p, pc' = [pc EXCEPT ![t] = p], Effect(t, w, a),
         kv' = kv \/ ~IsMap \/ writer = t
  PROVE  ViewInv'
  <1>1. ViewOK(t)'
    BY NoView DEF Effect
  <1>2. \A u \in Threads \ {t} : pc'[u] = pc[u] /\ ever[u] \subseteq ever'[u]
    BY DEF IInv, TypeOK, Effect
  <1> QED  BY <1>1, <1>2, OthersView DEF Effect

\* Calls on single keys that fail.
LEMMA FailViews ==
  ASSUME IInv, ViewInv, NEW t \in Threads, fn[t] # "list", pc' = [pc EXCEPT ![t] = "done"],
         NEW a, Fail(t, a)
  PROVE  ViewInv'
  <1>1. ViewOK(t)'
    BY NoView DEF Fail
  <1>2. \A u \in Threads \ {t} : pc'[u] = pc[u]
    BY DEF IInv, TypeOK
  <1> QED  BY <1>1, <1>2, OthersView DEF Fail

\* The view is taken when the walk begins.
LEMMA ViewBegins ==
  ASSUME IInv, WalkInv, ViewInv, NEW t \in Threads, fn[t] = "list", pc[t] = "called",
         pc' = [pc EXCEPT ![t] = "listing"], it' = [it EXCEPT ![t] = start[t]],
         snap' = [snap EXCEPT ![t] = kv], UNCHANGED <<db, kv, args, list, failed, seen>>
  PROVE  ViewInv'
  <1> USE DEF IInv
  <1>1. pc'[t] = "listing" /\ it'[t] = start[t] /\ start[t] \in Nat /\ snap'[t] = kv
    BY WalkTypes DEF TypeOK
  <1>2. list'[t] = {}
    BY DEF WalkInv, WalkOK
  <1>3. \A k \in Keys : k \in Nat /\ ~(k > start[t] /\ k <= start[t])
    BY <1>1, WalkTypes
  <1>4. ViewOK(t)'
    BY <1>1, <1>2, <1>3 DEF ViewOK, Present
  <1>5. \A u \in Threads \ {t} : pc'[u] = pc[u] /\ it'[u] = it[u] /\ snap'[u] = snap[u]
    BY DEF TypeOK
  <1> QED  BY <1>4, <1>5, OthersView

\* A walk of the map or of LevelDB walks on its view.
LEMMA WalksOnView ==
  ASSUME IInv, ViewInv, NEW t \in Threads, pc[t] = "listing", db.backend # "bdb"
  PROVE  \A k \in Keys : Walked(t)[k] # None <=> k \in Present(snap[t])
  <1>1. fn[t] = "list"
    BY DEF IInv, CallInv
  <1>2. db.backend \in {"map", "leveldb", "bdb"}
    BY DEF IInv, TypeOK
  <1>3. Walked(t) = snap[t]
    BY <1>1, <1>2 DEF ViewInv, ViewOK, Walked, IsMap, LongKeys
  <1> QED  BY <1>3 DEF Present

LEMMA ViewMoves ==
  ASSUME IInv, WalkInv, ViewInv, NEW t \in Threads, pc[t] = "listing",
         NEW k \in Keys, IsNext(t, k), it' = [it EXCEPT ![t] = k],
         list' \in {list, [list EXCEPT ![t] = @ \cup {k}]},
         LongKeys(t) => \/ k \in Matching /\ list' = [list EXCEPT ![t] = @ \cup {k}]
                        \/ k \notin Matching /\ list' = list,
         UNCHANGED <<db, kv, pc, args, snap, failed, seen>>
  PROVE  ViewInv'
  <1> USE DEF IInv
  <1>1. /\ it[t] \in Nat /\ start[t] \in Nat /\ k \in Nat /\ it'[t] = k /\ k > it[t]
        /\ list'[t] \in {list[t], list[t] \cup {k}}
        /\ (LongKeys(t) /\ k \in Matching => k \in list'[t])
    BY WalkTypes DEF TypeOK, IsNext
  <1>2. ASSUME db.backend # "bdb", fn[t] = "list", LongKeys(t) PROVE ViewOK(t)'
    <2>1. ViewOK(t)
      BY DEF ViewInv
    <2>2. k \in Present(snap[t])
      BY <1>2, WalksOnView DEF IsNext
    <2>3. list'[t] \subseteq Present(snap[t])
      BY <1>1, <1>2, <2>1, <2>2 DEF ViewOK
    <2>4. ASSUME NEW j \in Matching \cap Present(snap[t]), j > start[t], j <= k
          PROVE  j \in list'[t]
      <3>1. j \in Keys /\ j \in Nat
        BY WalkTypes DEF Present
      <3>2. CASE j <= it[t]
        BY <1>1, <1>2, <2>1, <2>4, <3>2 DEF ViewOK
      <3>3. CASE j > it[t]
        <4>1. Walked(t)[j] # None
          BY <1>2, <3>1, WalksOnView
        <4>2. k <= j
          BY <3>1, <3>3, <4>1 DEF IsNext
        <4>3. j = k
          BY <1>1, <2>4, <3>1, <4>2
        <4> QED  BY <1>1, <1>2, <4>3
      <3> QED  BY <1>1, <3>1, <3>2, <3>3
    <2>5. IsMap => snap[t] = kv
      BY <1>2, <2>1 DEF ViewOK
    <2>6. IsMap' <=> IsMap
      BY DEF IsMap
    <2>7. pc'[t] = "listing" /\ snap'[t] = snap[t] /\ Present(snap[t])' = Present(snap[t])
      BY DEF Present
    <2> QED  BY <1>1, <2>3, <2>4, <2>5, <2>6, <2>7 DEF ViewOK
  <1>3. ViewOK(t)'
    BY <1>2 DEF ViewOK, LongKeys
  <1>4. \A u \in Threads \ {t} : it'[u] = it[u] /\ list'[u] = list[u]
    BY DEF TypeOK
  <1> QED  BY <1>3, <1>4, OthersView

LEMMA ViewStops ==
  ASSUME IInv, ViewInv, NEW t \in Threads, pc[t] = "listing", ListDone(t),
         failed' \in {failed, failed \cup {t}},
         db.backend # "bdb" /\ LongKeys(t) /\ t \notin failed' =>
             Full(t) \/ \A k \in Matching \cap Present(snap[t]) : k <= it[t],
         UNCHANGED <<db, kv, args, walk, seen>>
  PROVE  ViewInv'
  <1> USE DEF IInv
  <1>1. pc'[t] \in {"unlock", "done"} /\ \A u \in Threads \ {t} : pc'[u] = pc[u]
    BY DEF ListDone, TypeOK
  <1>2. Full(t)' <=> Full(t)
    BY DEF Full
  <1>3. ASSUME db.backend # "bdb", fn[t] = "list", LongKeys(t) PROVE ViewOK(t)'
    <2>1. ViewOK(t)
      BY DEF ViewInv
    <2>2. t \notin failed' => \A k \in Matching \cap Present(snap[t]) : k > it[t] => Full(t)
      <3>1. it[t] \in Nat /\ \A k \in Matching : k \in Nat
        BY WalkTypes
      <3> SUFFICES ASSUME t \notin failed', NEW k \in Matching \cap Present(snap[t]), k > it[t]
                   PROVE  Full(t)
        OBVIOUS
      <3>2. ~(k <= it[t])
        BY <3>1
      <3> QED  BY <1>3, <3>2
    <2>3. snap'[t] = snap[t] /\ Present(snap[t])' = Present(snap[t])
      BY DEF Present
    <2> QED  BY <1>1, <1>2, <1>3, <2>1, <2>2, <2>3 DEF ViewOK
  <1>4. ViewOK(t)'
    BY <1>3 DEF ViewOK, LongKeys
  <1> QED  BY <1>1, <1>4, OthersView

LEMMA ViewStutters == ASSUME TypeOK, ViewInv, UNCHANGED vars PROVE ViewInv'
  <1> SUFFICES ASSUME NEW u \in Threads PROVE ViewOK(u)'
    BY DEF ViewInv
  <1>1. ViewOK(u) /\ (Full(u)' <=> Full(u)) /\ (IsMap' <=> IsMap) /\ (LongKeys(u)' <=> LongKeys(u))
    BY DEF ViewInv, vars, Full, IsMap, LongKeys
  <1> QED  BY <1>1 DEF ViewOK, vars, Present

\* Every step of a call keeps the views.
LEMMA StepViews ==
  ASSUME IInv, WalkInv, ViewInv, NEW t \in Threads, Step(t)
  PROVE  ViewInv'
  <1> USE DEF IInv
  <1>a. pc[t] # "idle" /\ fn[t] # "list" => key[t] \in Keys
    BY DEF CallInv
  <1>b. ASSUME pc[t] = "listing", LongKeys(t), NEW k \in Short, ~IsMap, IsNext(t, k) PROVE FALSE
    <2>1. k \in ever[t]
      BY <1>b, WalksOnHistory DEF IsNext
    <2> QED  BY <1>b, <2>1 DEF LongKeys
  <1>1. CASE MapPut(t)
    <2>1. fn[t] # "list" /\ \E p : pc' = [pc EXCEPT ![t] = p]
      BY <1>1 DEF MapPut
    <2>2. \E w, a : Effect(t, w, a)
      BY <1>1 DEF MapPut
    <2>3. kv' = kv \/ ~IsMap \/ writer = t
      BY <1>1, <1>a DEF MapPut, LockInv, Holding, TypeOK
    <2> QED  BY <2>1, <2>2, <2>3, EffectViews
  <1>2. CASE MapErase(t)
    <2>1. fn[t] # "list" /\ \E p : pc' = [pc EXCEPT ![t] = p]
      BY <1>2 DEF MapErase
    <2>2. \E w, a : Effect(t, w, a)
      BY <1>2 DEF MapErase
    <2>3. kv' = kv \/ ~IsMap \/ writer = t
      BY <1>2, <1>a DEF MapErase, LockInv, Holding, TypeOK
    <2> QED  BY <2>1, <2>2, <2>3, EffectViews
  <1>3. CASE MapGet(t)
    <2>1. fn[t] # "list" /\ \E p : pc' = [pc EXCEPT ![t] = p]
      BY <1>3 DEF MapGet
    <2>2. \E w, a : Effect(t, w, a)
      BY <1>3 DEF MapGet
    <2>3. kv' = kv \/ ~IsMap \/ writer = t
      BY <1>3, <1>a DEF MapGet, Effect, TypeOK
    <2> QED  BY <2>1, <2>2, <2>3, EffectViews
  <1>4. CASE MapExists(t)
    <2>1. fn[t] # "list" /\ \E p : pc' = [pc EXCEPT ![t] = p]
      BY <1>4 DEF MapExists
    <2>2. \E w, a : Effect(t, w, a)
      BY <1>4 DEF MapExists
    <2>3. kv' = kv \/ ~IsMap \/ writer = t
      BY <1>4, <1>a DEF MapExists, Effect, TypeOK
    <2> QED  BY <2>1, <2>2, <2>3, EffectViews
  <1>5. CASE LevelDBPut(t)
    <2>1. fn[t] # "list" /\ \E p : pc' = [pc EXCEPT ![t] = p]
      BY <1>5 DEF LevelDBPut
    <2>2. \E w, a : Effect(t, w, a)
      BY <1>5 DEF LevelDBPut
    <2>3. kv' = kv \/ ~IsMap \/ writer = t
      BY <1>5, <1>a DEF LevelDBPut, IsMap, IsDisk
    <2> QED  BY <2>1, <2>2, <2>3, EffectViews
  <1>6. CASE BerkeleyDBPut(t)
    <2>1. fn[t] # "list" /\ \E p : pc' = [pc EXCEPT ![t] = p]
      BY <1>6 DEF BerkeleyDBPut
    <2>2. \E w, a : Effect(t, w, a)
      BY <1>6 DEF BerkeleyDBPut
    <2>3. kv' = kv \/ ~IsMap \/ writer = t
      BY <1>6, <1>a DEF BerkeleyDBPut, IsMap, IsDisk
    <2> QED  BY <2>1, <2>2, <2>3, EffectViews
  <1>7. CASE DiskPutFails(t)
    <2>1. fn[t] # "list" /\ pc[t] # "idle" /\ pc' = [pc EXCEPT ![t] = "done"] /\ \E a : Fail(t, a)
      BY <1>7 DEF DiskPutFails
    <2> QED  BY <2>1, FailViews
  <1>8. CASE DiskErase(t)
    <2>1. fn[t] # "list" /\ \E p : pc' = [pc EXCEPT ![t] = p]
      BY <1>8 DEF DiskErase
    <2>2. \E w, a : Effect(t, w, a)
      BY <1>8 DEF DiskErase
    <2>3. kv' = kv \/ ~IsMap \/ writer = t
      BY <1>8, <1>a DEF DiskErase, IsMap, IsDisk
    <2> QED  BY <2>1, <2>2, <2>3, EffectViews
  <1>9. CASE DiskEraseFails(t)
    <2>1. fn[t] # "list" /\ pc[t] # "idle" /\ pc' = [pc EXCEPT ![t] = "done"] /\ \E a : Fail(t, a)
      BY <1>9 DEF DiskEraseFails
    <2> QED  BY <2>1, FailViews
  <1>10. CASE DiskGet(t)
    <2>1. fn[t] # "list" /\ \E p : pc' = [pc EXCEPT ![t] = p]
      BY <1>10 DEF DiskGet
    <2>2. \E w, a : Effect(t, w, a)
      BY <1>10 DEF DiskGet
    <2>3. kv' = kv \/ ~IsMap \/ writer = t
      BY <1>10, <1>a DEF DiskGet, IsMap, IsDisk
    <2> QED  BY <2>1, <2>2, <2>3, EffectViews
  <1>11. CASE DiskExists(t)
    <2>1. fn[t] # "list" /\ \E p : pc' = [pc EXCEPT ![t] = p]
      BY <1>11 DEF DiskExists
    <2>2. \E w, a : Effect(t, w, a)
      BY <1>11 DEF DiskExists
    <2>3. kv' = kv \/ ~IsMap \/ writer = t
      BY <1>11, <1>a DEF DiskExists, IsMap, IsDisk
    <2> QED  BY <2>1, <2>2, <2>3, EffectViews
  <1>12. CASE MapWrlock(t)
    <2>1. fn'[t] # "list"
      BY <1>12 DEF MapWrlock, CallInv
    <2> QED  BY <1>12, <2>1, NoView, OthersView DEF MapWrlock, TypeOK
  <1>13. CASE MapFind(t)
    <2>1. fn'[t] # "list"
      BY <1>13 DEF MapFind, CallInv
    <2> QED  BY <1>13, <2>1, NoView, OthersView DEF MapFind, TypeOK
  <1>14. CASE MapRdlock(t)
    <2>1. CASE fn[t] = "list"
      <3>1. /\ pc[t] = "called" /\ pc' = [pc EXCEPT ![t] = "listing"]
            /\ snap' = [snap EXCEPT ![t] = kv]
        BY <1>14, <2>1 DEF MapRdlock
      <3> QED  BY <1>14, <2>1, <3>1, ViewBegins DEF MapRdlock
    <2>2. CASE fn[t] # "list"
      <3>1. ViewOK(t)'
        BY <1>14, <2>2, NoView DEF MapRdlock
      <3> QED  BY <1>14, <3>1, OthersView DEF MapRdlock, TypeOK
    <2> QED  BY <2>1, <2>2
  <1>15. CASE LevelDBExists(t)
    <2>1. CASE kv[key[t]] # None
      <3>1. fn[t] # "list" /\ pc' = [pc EXCEPT ![t] = "done"] /\ ~IsMap
        BY <1>15, <2>1 DEF LevelDBExists, IsMap
      <3>2. \E w, a : Effect(t, w, a)
        BY <1>15, <2>1 DEF LevelDBExists
      <3> QED  BY <3>1, <3>2, EffectViews
    <2>2. CASE kv[key[t]] = None
      <3>1. ViewOK(t)'
        BY <1>15, <2>2, NoView DEF LevelDBExists
      <3> QED  BY <1>15, <2>2, <3>1, OthersView DEF LevelDBExists, TypeOK
    <2> QED  BY <2>1, <2>2
  <1>16. CASE MapUnlock(t)
    <2>1. /\ pc[t] = "unlock" /\ pc'[t] = "done" /\ ViewOK(t)
          /\ \A u \in Threads \ {t} : pc'[u] = pc[u]
      BY <1>16 DEF MapUnlock, TypeOK, ViewInv
    <2>2. (Full(t)' <=> Full(t)) /\ (LongKeys(t)' <=> LongKeys(t))
      BY <1>16 DEF MapUnlock, Full, LongKeys
    <2>3. ViewOK(t)'
      BY <1>16, <2>1, <2>2 DEF MapUnlock, ViewOK, Present
    <2> QED  BY <1>16, <2>1, <2>3, OthersView DEF MapUnlock
  <1>17. CASE DiskListBegin(t)
    BY <1>17, ViewBegins DEF DiskListBegin
  <1>18. CASE ListEnds(t)
    <2>1. ASSUME db.backend # "bdb"
          PROVE  Full(t) \/ \A k \in Matching \cap Present(snap[t]) : k <= it[t]
      BY <1>18, <2>1, WalksOnView DEF ListEnds, AtEnd
    <2> QED  BY <1>18, <2>1, ViewStops DEF ListEnds
  <1>19. CASE ListPush(t)
    <2>1. PICK k \in Matching \cup (IF IsMap THEN {} ELSE Short) :
              IsNext(t, k) /\ it' = [it EXCEPT ![t] = k] /\ list' = [list EXCEPT ![t] = @ \cup {k}]
      BY <1>19 DEF ListPush
    <2>2. k \in Keys /\ (LongKeys(t) => k \in Matching) /\ pc[t] = "listing"
      BY <1>19, <2>1, <1>b DEF ListPush
    <2> QED  BY <1>19, <2>1, <2>2, ViewMoves DEF ListPush
  <1>20. CASE ListSkip(t)
    <2>1. PICK k \in Before \cup (IF IsMap THEN {} ELSE Short) :
              IsNext(t, k) /\ it' = [it EXCEPT ![t] = k]
      BY <1>20 DEF ListSkip
    <2>2. k \in Keys \ Matching
      BY DEF Before
    <2> QED  BY <1>20, <2>1, <2>2, ViewMoves DEF ListSkip
  <1>21. CASE ListBreak(t)
    <2>1. PICK k \in After \cup (IF IsMap THEN {} ELSE Short) : IsNext(t, k) /\ pc[t] = "listing"
      BY <1>21 DEF ListBreak
    <2>2. ASSUME LongKeys(t), NEW m \in Matching \cap Present(snap[t]), db.backend # "bdb",
                 ~(m <= it[t])
          PROVE  FALSE
      <3>1. k \in After
        BY <2>1, <2>2, <1>b
      <3>2. PICK j \in Matching : ~(k < j)
        BY <3>1 DEF After, Before
      <3>3. j \in Nat /\ k \in Nat /\ k \in Keys \ Matching /\ j < k
        BY <3>1, <3>2, WalkTypes DEF After
      <3>4. m \in Nat /\ it[t] \in Nat
        BY WalkTypes
      <3>5. Walked(t)[m] # None
        BY <2>1, <2>2, WalksOnView
      <3>6. k <= m
        BY <2>1, <2>2, <3>4, <3>5 DEF IsNext
      <3>7. k < m
        BY <3>3, <3>4, <3>6
      <3> QED  BY <3>3, <3>7
    <2> QED  BY <1>21, <2>1, <2>2, ViewStops DEF ListBreak
  <1>22. CASE ListShort(t)
    BY <1>22, ViewStutters DEF ListShort
  <1>23. CASE Return(t)
    <2>1. fn'[t] # "list" /\ kv' = kv /\ db' = db
      BY <1>23 DEF Return, TypeOK
    <2>2. \A u \in Threads \ {t} :
              /\ pc'[u] = pc[u] /\ fn'[u] = fn[u] /\ start'[u] = start[u] /\ count'[u] = count[u]
              /\ it'[u] = it[u] /\ snap'[u] = snap[u] /\ list'[u] = list[u]
              /\ ever'[u] = ever[u] /\ (u \in failed' <=> u \in failed)
      BY <1>23 DEF Return, TypeOK
    <2> QED  BY <2>1, <2>2, NoView, OthersView
  <1>24. CASE LevelDBExistsFails(t)
    <2>1. ViewOK(t)'
      BY <1>24, NoView DEF LevelDBExistsFails
    <2> QED  BY <1>24, <2>1, OthersView DEF LevelDBExistsFails, TypeOK
  <1>25. CASE DiskGetFails(t)
    <2>1. fn[t] # "list" /\ pc[t] # "idle" /\ pc' = [pc EXCEPT ![t] = "done"] /\ \E a : Fail(t, a)
      BY <1>25 DEF DiskGetFails
    <2> QED  BY <2>1, FailViews
  <1>26. CASE DiskExistsFails(t)
    <2>1. fn[t] # "list" /\ pc[t] # "idle" /\ pc' = [pc EXCEPT ![t] = "done"] /\ \E a : Fail(t, a)
      BY <1>26 DEF DiskExistsFails
    <2> QED  BY <2>1, FailViews
  <1>27. CASE ListFails(t)
    BY <1>27, ViewStops DEF ListFails
  <1> QED  BY <1>1, <1>2, <1>3, <1>4, <1>5, <1>6, <1>7, <1>8, <1>9, <1>10, <1>11, <1>12, <1>13,
           <1>14, <1>15, <1>16, <1>17, <1>18, <1>19, <1>20, <1>21, <1>22, <1>23,
           <1>24, <1>25, <1>26, <1>27 DEF Step

\* The inductive step for the views.
LEMMA NextViews == IInv /\ WalkInv /\ ViewInv /\ [Next]_vars => ViewInv'
  <1> SUFFICES ASSUME IInv, WalkInv, ViewInv, [Next]_vars PROVE ViewInv'
    OBVIOUS
  <1> USE DEF IInv
  <1>1. ASSUME NEW t \in Threads, CallKey(t) PROVE ViewInv'
    <2>1. fn'[t] # "list"
      BY <1>1 DEF CallKey, TypeOK
    <2> QED  BY <1>1, <2>1, NoView, OthersView DEF CallKey, TypeOK
  <1>2. ASSUME NEW t \in Threads, CallList(t) PROVE ViewInv'
    <2>1. pc'[t] = "called"
      BY <1>2 DEF CallList, TypeOK
    <2>2. ViewOK(t)'
      BY <2>1 DEF ViewOK
    <2> QED  BY <1>2, <2>2, OthersView DEF CallList, TypeOK
  <1>3. ASSUME NEW t \in Threads, Step(t) PROVE ViewInv'
    BY <1>3, StepViews
  <1>4. CASE UNCHANGED vars
    BY <1>4, ViewStutters
  <1> QED  BY <1>1, <1>2, <1>3, <1>4 DEF Next, Quiescent

LEMMA InitViews == Init => ViewInv
  <1> SUFFICES ASSUME Init, NEW t \in Threads PROVE ViewOK(t)
    BY DEF ViewInv
  <1> QED  BY DEF Init, ViewOK

\* ListIsOneLook for any number of threads, keys and writes beside the listing: the read
\* lock of the map, held all along the walk, and the snapshot of LevelDB's iterator make
\* a listing atomic.  The model of the listing handlers builds on this.
THEOREM ListingsAreAtomic == Spec => []ListIsOneLook
  <1>1. IInv /\ WalkInv /\ ViewInv => ListIsOneLook
    <2> SUFFICES ASSUME IInv, WalkInv, ViewInv, NEW t \in Threads,
                        pc[t] = "done", fn[t] = "list", db.backend # "bdb", LongKeys(t)
                 PROVE  LET wanted == {k \in Matching \cap Present(snap[t]) : k > start[t]}
                        IN  /\ list[t] \subseteq wanted /\ Cardinality(list[t]) <= count[t]
                            /\ t \notin failed =>
                                   \A k \in wanted \ list[t] : Full(t) /\ \A j \in list[t] : j < k
      BY DEF ListIsOneLook
    <2>1. Walking(t) /\ ViewOK(t)
      BY DEF WalkInv, WalkOK, ViewInv
    <2>2. it[t] \in Nat /\ start[t] \in Nat /\ \A k \in Matching : k \in Nat
      BY WalkTypes DEF IInv
    <2>3. /\ \A k \in list[t] : k \in Matching \cap Present(snap[t]) /\ k > start[t] /\ k <= it[t]
          /\ Cardinality(list[t]) <= count[t]
      BY <2>1 DEF Walking, ViewOK
    <2>4. ASSUME t \notin failed,
                 NEW k \in Matching \cap Present(snap[t]), k > start[t], k \notin list[t]
          PROVE  Full(t) /\ \A j \in list[t] : j < k
      <3>1. ~(k <= it[t]) /\ k \in Nat
        BY <2>1, <2>2, <2>4 DEF ViewOK
      <3>2. k > it[t]
        BY <2>2, <3>1
      <3>3. Full(t)
        BY <2>1, <2>4, <3>2 DEF ViewOK
      <3>4. ASSUME NEW j \in list[t] PROVE j < k
        <4>1. j \in Nat /\ j <= it[t]
          BY <2>2, <2>3
        <4> QED  BY <2>2, <3>1, <3>2, <4>1
      <3> QED  BY <3>3, <3>4
    <2> QED  BY <2>3, <2>4
  <1> QED  BY <1>1, InitInv, NextInv, InitWalks, NextWalks, InitViews, NextViews, PTL DEF Spec
=============================================================================
