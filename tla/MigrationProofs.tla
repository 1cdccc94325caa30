--------------------------- MODULE MigrationProofs --------------------------
(***************************************************************************)
(* Proofs about key migration, for every set of keys and values, every     *)
(* batch size, and any number of calls and client writes.                  *)
(***************************************************************************)
EXTENDS Migration, FiniteSetTheorems, TLAPS

USE MigrationConstants
USE DEF Store, Empty, Goto, Done, rpc, databases, request, loop, bounds, history

\* What a call may ask for are keys.
LEMMA WantedKeys == ASSUME NEW r, NEW w \in Wanted(r) PROVE w \subseteq Keys
  BY DEF Wanted

-----------------------------------------------------------------------------
(* No key vanishes.                                                        *)

LEMMA InitVanish == Init => VanishInv
  <1> SUFFICES ASSUME Init PROVE VanishInv
    OBVIOUS
  <1>a. src \in Store /\ tgt \in Store /\ snap \in Store /\ acked \in Store /\ base \in Store
    BY DEF Init
  <1>b. calls \in 0..MaxCalls /\ writes \in 0..MaxWrites /\ failures \in 0..MaxFailures
    BY DEF Init
  <1>c. remove \in BOOLEAN /\ full \in BOOLEAN
    BY Zenon DEF Init
  <1>1. TypeOK
    BY <1>a, <1>b, <1>c DEF Init, TypeOK
  <1>2. PutInv /\ NoKeyVanishes
    BY DEF Init, PutInv, NoKeyVanishes, Working
  <1> QED  BY <1>1, <1>2 DEF VanishInv

LEMMA CallVanish ==
  ASSUME VanishInv, NEW c \in Calls, NEW r \in BOOLEAN, NEW w \in SUBSET Keys, Call(c, r, w)
  PROVE  VanishInv'
  <1>1. base' \in Store /\ snap' \in Store
    BY DEF Call, VanishInv, TypeOK
  <1>a. calls' \in 0..MaxCalls
    BY DEF Call, VanishInv, TypeOK
  <1>b. remove' \in BOOLEAN /\ full' \in BOOLEAN
    BY Zenon DEF Call
  <1>2. TypeOK'
    BY <1>1, <1>a, <1>b DEF Call, VanishInv, TypeOK
  <1>3. (PutInv /\ NoKeyVanishes)'
    BY DEF Call, VanishInv, TypeOK, PutInv, NoKeyVanishes, Working
  <1> QED  BY <1>2, <1>3 DEF VanishInv

LEMMA WriteVanish ==
  ASSUME VanishInv, NEW k \in Keys, NEW v \in Values \cup {None}, Write(k, v)
  PROVE  VanishInv'
  BY DEF Write, VanishInv, TypeOK, PutInv, NoKeyVanishes, Working

\* Every step of the handler and of the clients keeps VanishInv.
LEMMA NextVanish == VanishInv /\ [Next]_vars => VanishInv'
  <1> SUFFICES ASSUME VanishInv, [Next]_vars PROVE VanishInv'
    OBVIOUS
  <1> USE DEF VanishInv, TypeOK, PutInv, NoKeyVanishes, Working, Codes
  <1>1. CASE CannotStart
    BY <1>1 DEF CannotStart
  <1>2. CASE KeyRange
    BY <1>2 DEF KeyRange
  <1>3. CASE PullKeys
    BY <1>3 DEF PullKeys
  <1>4. CASE EnterLoop
    BY <1>4 DEF EnterLoop
  <1>5. CASE ListBatch
    BY <1>5 DEF ListBatch, Candidates
  <1>6. CASE ListNothing
    BY <1>6 DEF ListNothing, LoopCodes
  <1>7. CASE ListThrows
    BY <1>7 DEF ListThrows
  <1>8. CASE EndOfBatch
    BY <1>8 DEF EndOfBatch, LoopCodes
  <1>9. CASE TakeKey
    BY <1>9 DEF TakeKey
  <1>10. CASE GetKey
    BY <1>10 DEF GetKey
  <1>11. CASE SkipKey
    BY <1>11 DEF SkipKey
  <1>12. CASE TargetPut
    BY <1>12 DEF TargetPut
  <1>13. CASE TargetRefuses
    BY <1>13 DEF TargetRefuses
  <1>14. CASE ForwardFails
    BY <1>14 DEF ForwardFails
  <1>15. CASE PutFailed
    BY <1>15 DEF PutFailed
  <1>16. CASE EraseOriginal
    <2>a. cur \in Keys
      BY <1>16 DEF EraseOriginal
    <2>b. failures' = failures \/ (failures > 0 /\ failures' = failures - 1)
      BY <1>16 DEF EraseOriginal, Erase
    <2>c. kept' = kept \/ kept' = kept \cup {cur}
      BY <1>16 DEF EraseOriginal, Erase
    <2>d. src' = src \/ src' = [src EXCEPT ![cur] = None]
      BY <1>16 DEF EraseOriginal, Erase
    <2>e. failures' \in 0..MaxFailures
      BY <2>b
    <2>f. kept' \subseteq Keys
      BY <2>a, <2>c
    <2>g. src' \in Store
      BY <2>a, <2>d
    <2>2. TypeOK'
      BY <1>16, <2>e, <2>f, <2>g DEF EraseOriginal
    <2>3. PutInv'
      BY <1>16 DEF EraseOriginal
    <2>4. NoKeyVanishes'
      BY <1>16 DEF EraseOriginal, Erase
    <2> QED  BY <2>2, <2>3, <2>4
  <1>17. CASE Begin
    BY <1>17, CallVanish, WantedKeys DEF Begin
  <1>18. CASE ClientPut \/ ClientErase
    BY <1>18, WriteVanish DEF ClientPut, ClientErase
  <1>19. CASE UNCHANGED vars
    BY <1>19 DEF vars
  <1> QED
    BY <1>1, <1>2, <1>3, <1>4, <1>5, <1>6, <1>7, <1>8, <1>9, <1>10, <1>11, <1>12, <1>13, <1>14,
       <1>15, <1>16, <1>17, <1>18, <1>19 DEF Next, Migrate, Quiescent

\* Type correctness of the two databases and of the handler's state.
THEOREM TypeCorrect == Spec => []TypeOK
  <1>1. VanishInv => TypeOK  BY DEF VanishInv
  <1> QED  BY <1>1, InitVanish, NextVanish, PTL DEF Spec

\* A key that clients wrote and did not erase is always in one of the databases.
THEOREM KeysNeverVanish == Spec => []NoKeyVanishes
  <1>1. VanishInv => NoKeyVanishes  BY DEF VanishInv
  <1> QED  BY <1>1, InitVanish, NextVanish, PTL DEF Spec

-----------------------------------------------------------------------------
(* A migration that gets through its keys has migrated them all.           *)

\* list_keyvals returns nothing only when there is nothing left to list.
LEMMA NothingListed == ListKeyvals({}) => Candidates = {}
  BY FS_EmptySet DEF ListKeyvals

LEMMA InitComplete == Init => CompleteInv
  <1> SUFFICES ASSUME Init PROVE CompleteInv
    OBVIOUS
  <1>1. VanishInv
    BY InitVanish
  <1>2. BaseInv /\ BatchInv /\ StartInv /\ CoverInv /\ ThroughMeansComplete
    BY DEF Init, BaseInv, BatchInv, StartInv, CoverInv, ThroughMeansComplete, Working
  <1>3. KindInv
    BY Zenon DEF Init, KindInv
  <1> QED  BY <1>1, <1>2, <1>3 DEF CompleteInv

LEMMA CallComplete ==
  ASSUME CompleteInv, NEW c \in Calls, NEW r \in BOOLEAN, NEW w \in SUBSET Keys, Call(c, r, w)
  PROVE  (BaseInv /\ BatchInv /\ StartInv /\ CoverInv /\ KindInv /\ ThroughMeansComplete)'
  BY DEF Call, CompleteInv, VanishInv, TypeOK, BaseInv, BatchInv, StartInv, CoverInv, KindInv,
         ThroughMeansComplete, Working, Migrated

LEMMA WriteComplete ==
  ASSUME CompleteInv, NEW k \in Keys, NEW v \in Values \cup {None}, Write(k, v)
  PROVE  (BaseInv /\ BatchInv /\ StartInv /\ CoverInv /\ KindInv /\ ThroughMeansComplete)'
  BY DEF Write, CompleteInv, VanishInv, TypeOK, BaseInv, BatchInv, StartInv, CoverInv, KindInv,
         ThroughMeansComplete, Working, Migrated

\* Every step of the handler and of the clients keeps CompleteInv.
LEMMA NextComplete == CompleteInv /\ [Next]_vars => CompleteInv'
  <1> SUFFICES ASSUME CompleteInv, [Next]_vars PROVE CompleteInv'
    OBVIOUS
  <1> DEFINE Rest == BaseInv /\ BatchInv /\ StartInv /\ CoverInv /\ KindInv /\ ThroughMeansComplete
  <1> SUFFICES Rest'
    BY NextVanish DEF CompleteInv
  <1> USE DEF CompleteInv, VanishInv, TypeOK, PutInv, BaseInv, BatchInv, StartInv, CoverInv,
              KindInv, ThroughMeansComplete, Working, Migrated
  <1>1. CASE CannotStart
    BY <1>1 DEF CannotStart
  <1>2. CASE KeyRange
    BY <1>2 DEF KeyRange
  <1>3. CASE PullKeys
    BY <1>3 DEF PullKeys
  <1>4. CASE EnterLoop
    BY <1>4 DEF EnterLoop
  <1>5. CASE ListBatch
    <2>1. PICK L \in SUBSET Candidates :
               /\ ListKeyvals(L) /\ batch' = L
               /\ full' = (Cardinality(L) = BatchSize)
               /\ \E k \in L : (\A j \in L : j <= k) /\ last' = k
      BY <1>5 DEF ListBatch
    <2>2. UNCHANGED <<src, tgt, base, kept, want, remove, start, call, out>> /\ snap' = src
      BY <1>5 DEF ListBatch
    <2>3. mpc = "list" /\ mpc' = "next"
      BY <1>5 DEF ListBatch
    <2>4. ASSUME NEW k \in Keys, base[k] # None, k \notin Candidates PROVE Migrated(k)
      BY <2>3, <2>4 DEF Candidates
    <2>5. ASSUME NEW k \in Keys, k \in Candidates, k \notin L
          PROVE  full' /\ ~(k <= last')
      <3>1. Cardinality(L) = BatchSize
        BY <2>1, <2>5 DEF ListKeyvals
      <3>2. PICK m \in L : last' = m
        BY <2>1
      <3>3. ~(k < m)
        BY <2>1, <2>5, <3>2 DEF ListKeyvals
      <3>4. k \in Nat /\ m \in Nat /\ k # m
        BY <2>5, <3>2 DEF Candidates
      <3>5. full'
        BY <2>1, <3>1, Zenon
      <3>6. ~(k <= last')
        BY ONLY <3>2, <3>3, <3>4
      <3> QED  BY ONLY <3>5, <3>6
    <2>6. CoverInv'
      BY <2>1, <2>2, <2>3, <2>4, <2>5
    <2>7. BatchInv'
      BY <2>1, <2>2, <2>3 DEF Candidates
    <2>8. (BaseInv /\ StartInv /\ KindInv /\ ThroughMeansComplete)'
      BY <2>1, <2>2, <2>3
    <2> QED  BY <2>6, <2>7, <2>8
  <1>6. CASE ListNothing
    BY <1>6, NothingListed DEF ListNothing, LoopCodes, Candidates
  <1>7. CASE ListThrows
    BY <1>7 DEF ListThrows
  <1>8. CASE EndOfBatch
    BY <1>8 DEF EndOfBatch, LoopCodes
  <1>9. CASE TakeKey
    BY <1>9 DEF TakeKey
  <1>10. CASE GetKey
    BY <1>10 DEF GetKey
  <1>11. CASE SkipKey
    BY <1>11 DEF SkipKey
  <1>12. CASE TargetPut
    BY <1>12 DEF TargetPut
  <1>13. CASE TargetRefuses
    BY <1>13 DEF TargetRefuses
  <1>14. CASE ForwardFails
    BY <1>14 DEF ForwardFails
  <1>15. CASE PutFailed
    BY <1>15 DEF PutFailed
  <1>16. CASE EraseOriginal
    BY <1>16 DEF EraseOriginal, Erase
  <1>17. CASE Begin
    <2>1. PICK c \in Calls, r \in BOOLEAN : \E w \in Wanted(RpcOf(c)) : Call(c, r, w)
      BY <1>17 DEF Begin
    <2>2. PICK w \in SUBSET Keys : Call(c, r, w)
      BY <2>1, WantedKeys
    <2> QED  BY <2>2, CallComplete
  <1>18. CASE ClientPut \/ ClientErase
    BY <1>18, WriteComplete DEF ClientPut, ClientErase
  <1>19. CASE UNCHANGED vars
    BY <1>19 DEF vars
  <1> HIDE DEF Rest
  <1> QED
    BY <1>1, <1>2, <1>3, <1>4, <1>5, <1>6, <1>7, <1>8, <1>9, <1>10, <1>11, <1>12, <1>13, <1>14,
       <1>15, <1>16, <1>17, <1>18, <1>19 DEF Next, Migrate, Quiescent

\* Whatever the batch size, the flag and the writes of clients, a migration that
\* gets through its keys has put every key no client changed in the target.
THEOREM MigrationIsComplete == Spec => []ThroughMeansComplete
  <1>1. CompleteInv => ThroughMeansComplete  BY DEF CompleteInv
  <1> QED  BY <1>1, InitComplete, NextComplete, PTL DEF Spec

-----------------------------------------------------------------------------
(* Values written outside of migrations are not lost.                      *)

LEMMA CallLoss ==
  ASSUME LossInv, NEW c \in Calls, NEW r \in BOOLEAN, NEW w \in SUBSET Keys, Call(c, r, w)
  PROVE  (WriteInv /\ NoWriteLost)'
  BY DEF Call, LossInv, VanishInv, TypeOK, WriteInv, NoWriteLost, Working

LEMMA WriteLoss ==
  ASSUME LossInv, NEW k \in Keys, NEW v \in Values \cup {None}, Write(k, v)
  PROVE  (WriteInv /\ NoWriteLost)'
  BY DEF Write, LossInv, VanishInv, TypeOK, WriteInv, NoWriteLost, Working

\* Every step of the handler and of the clients keeps LossInv.
LEMMA NextLoss == LossInv /\ [Next]_vars => LossInv'
  <1> SUFFICES ASSUME LossInv, [Next]_vars PROVE LossInv'
    OBVIOUS
  <1>0. VanishInv'
    BY NextVanish DEF LossInv
  <1> SUFFICES (WriteInv /\ NoWriteLost)'
    BY <1>0 DEF LossInv
  <1> USE DEF LossInv, VanishInv, TypeOK, PutInv, WriteInv, NoWriteLost, Working
  <1>1. CASE CannotStart \/ KeyRange \/ ListThrows \/ ListNothing \/ EndOfBatch
    BY <1>1 DEF CannotStart, KeyRange, ListThrows, ListNothing, EndOfBatch
  <1>2. CASE PullKeys \/ EnterLoop
    BY <1>2 DEF PullKeys, EnterLoop
  <1>3. CASE ListBatch
    BY <1>3 DEF ListBatch, Candidates
  <1>4. CASE TakeKey \/ SkipKey
    BY <1>4 DEF TakeKey, SkipKey
  <1>5. CASE GetKey
    BY <1>5 DEF GetKey
  <1>6. CASE TargetPut
    BY <1>6 DEF TargetPut
  <1>7. CASE TargetRefuses \/ ForwardFails \/ PutFailed
    BY <1>7 DEF TargetRefuses, ForwardFails, PutFailed
  <1>8. CASE EraseOriginal
    BY <1>8 DEF EraseOriginal, Erase
  <1>9. CASE Begin
    <2>1. PICK c \in Calls, r \in BOOLEAN : \E w \in Wanted(RpcOf(c)) : Call(c, r, w)
      BY <1>9 DEF Begin
    <2>2. PICK w \in SUBSET Keys : Call(c, r, w)
      BY <2>1, WantedKeys
    <2>3. (WriteInv /\ NoWriteLost)'
      BY ONLY <2>2, CallLoss, LossInv, r \in BOOLEAN
    <2> QED  BY <2>3
  <1>10. CASE ClientPut \/ ClientErase
    BY <1>10, WriteLoss DEF ClientPut, ClientErase
  <1>11. CASE UNCHANGED vars
    BY <1>11 DEF vars
  <1> QED
    BY <1>1, <1>2, <1>3, <1>4, <1>5, <1>6, <1>7, <1>8, <1>9, <1>10, <1>11
       DEF Next, Migrate, Quiescent

\* A value written before or between migrations is in the source, or gone from
\* there and in the target, wherever the migrations fail.
THEOREM WritesSurvive == Spec => []NoWriteLost
  <1>1. Init => LossInv
    BY InitVanish DEF Init, LossInv, WriteInv, NoWriteLost, Working
  <1>2. LossInv => NoWriteLost
    BY DEF LossInv
  <1> QED  BY <1>1, <1>2, NextLoss, PTL DEF Spec

-----------------------------------------------------------------------------
(* A migration that removes the originals leaves one key in both databases *)
(* at most.                                                                *)

\* Every step of the handler and of the clients keeps OnceInv.
LEMMA NextOnce == OnceInv /\ [Next]_vars => OnceInv'
  <1> SUFFICES ASSUME OnceInv, [Next]_vars PROVE OnceInv'
    OBVIOUS
  <1>0. VanishInv'
    BY NextVanish DEF OnceInv
  <1> SUFFICES BothInv'
    BY <1>0 DEF OnceInv
  <1> USE DEF OnceInv, VanishInv, TypeOK, PutInv, BothInv
  <1>1. CASE CannotStart \/ KeyRange \/ ListThrows \/ ListNothing \/ EndOfBatch
    BY <1>1 DEF CannotStart, KeyRange, ListThrows, ListNothing, EndOfBatch
  <1>2. CASE PullKeys \/ EnterLoop \/ ListBatch
    BY <1>2 DEF PullKeys, EnterLoop, ListBatch
  <1>3. CASE TakeKey \/ SkipKey \/ GetKey
    BY <1>3 DEF TakeKey, SkipKey, GetKey
  <1>4. CASE TargetPut
    BY <1>4 DEF TargetPut
  <1>5. CASE TargetRefuses
    BY <1>5 DEF TargetRefuses
  <1>5a. CASE ForwardFails
    BY <1>5a DEF ForwardFails
  <1>5b. CASE PutFailed
    BY <1>5b DEF PutFailed
  <1>6. CASE EraseOriginal
    BY <1>6 DEF EraseOriginal, Erase
  <1>7. CASE Begin
    BY <1>7 DEF Begin, Call
  <1>8. CASE ClientPut \/ ClientErase
    <2>1. PICK k \in Keys, v \in Values \cup {None} : Write(k, v)
      BY <1>8 DEF ClientPut, ClientErase
    <2> QED  BY <2>1 DEF Write
  <1>9. CASE UNCHANGED vars
    BY <1>9 DEF vars
  <1> QED
    BY <1>1, <1>2, <1>3, <1>4, <1>5, <1>5a, <1>5b, <1>6, <1>7, <1>8, <1>9
       DEF Next, Migrate, Quiescent

\* Wherever a migration that removes the originals stops, at most one of the keys
\* it moved is in both databases, besides those whose erase failed.
THEOREM OneInBothAtMost == Spec => []AtMostOneInBoth
  <1>1. Init => OnceInv
    BY InitVanish DEF Init, OnceInv, BothInv
  <1>2. OnceInv => AtMostOneInBoth
    <2> SUFFICES ASSUME OnceInv, remove PROVE AtMostOneInBoth
      BY DEF AtMostOneInBoth
    <2> DEFINE B == {k \in moved \ kept : base[k] # None /\ src[k] # None}
    <2>1. B \subseteq {cur}
      BY DEF OnceInv, BothInv
    <2>2. IsFiniteSet({cur}) /\ Cardinality({cur}) = 1
      BY FS_Singleton
    <2>3. Cardinality(B) <= Cardinality({cur})
      BY <2>1, <2>2, FS_Subset
    <2> QED  BY <2>2, <2>3 DEF AtMostOneInBoth
  <1> QED  BY <1>1, <1>2, NextOnce, PTL DEF Spec
=============================================================================
