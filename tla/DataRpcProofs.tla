--------------------------- MODULE DataRpcProofs ----------------------------
(***************************************************************************)
(* Proofs about the data RPCs, for any number of clients, keys, values,    *)
(* items of a batch and calls: the handlers keep their types, what a call  *)
(* that writes tells its caller is true, and what a call that reads        *)
(* reports of a key was right during the call.                             *)
(***************************************************************************)
EXTENDS DataRpc, LayoutProofs

LEMMA ItemOf == ASSUME NEW S, NEW s \in Seq(S), NEW i \in 1..Len(s) PROVE s[i] \in S
  OBVIOUS

USE DataRpcConstants
USE DEF Goto, database, handler, Unpacked, NoRequest, Absent, Single, Multi, Packed, Puts, Codes

-----------------------------------------------------------------------------
(* Types.                                                                  *)

LEMMA InitTypes == Init => TypeOK
  BY DEF Init, TypeOK

LEMMA SizesAreNumbers == \A v \in Sizes : v \in Nat /\ v \in Int /\ v # None
  OBVIOUS

\* A batch is a sequence that is not empty.
LEMMA BatchIsSeq ==
  ASSUME NEW S, NEW ks \in Batches(S)
  PROVE  ks \in Seq(S) /\ Len(ks) >= 1
  BY DEF Batches

\* What a batch carries per item is a sequence of its length.
LEMMA ItemsAreSeq ==
  ASSUME NEW ks \in Seq(Keys), NEW vs \in [DOMAIN ks -> Sizes]
  PROVE  vs \in Seq(Sizes) /\ Len(vs) = Len(ks)
  OBVIOUS

\* The requests that callers make.
IsRequest(f, ks, as) ==
    /\ f \in Single \cup Multi \cup Packed /\ ks \in Seq(Keys) /\ as \in Seq(Sizes)
    /\ Len(ks) >= 1 /\ (f \in Single => Len(ks) = 1)
    /\ f = "get_packed" => Len(as) = 1
    /\ f \in Puts \cup {"get", "get_multi"} => Len(as) = Len(ks)

\* Every function of the client library makes a request of that shape.
LEMMA CallsMakeRequests ==
  ASSUME NEW c \in Clients, Call(c)
  PROVE  \E f, ks, as : /\ IsRequest(f, ks, as)
                        /\ \/ Send(c, f, ks, as)
                           \/ NewCall(c, f, ks, as, "returned", "INVALID_ARG")
  <1>0. /\ <<>> \in Seq(Sizes) /\ Len(<<>>) = 0
        /\ \A k \in Keys : <<k>> \in Seq(Keys) /\ Len(<<k>>) = 1
        /\ \A b \in Sizes : <<b>> \in Seq(Sizes) /\ Len(<<b>>) = 1
    OBVIOUS
  <1>1. CASE Put(c)
    <2>1. PICK k \in Keys, v \in Sizes : Send(c, "put", <<k>>, <<v>>)
      BY <1>1 DEF Put
    <2>2. IsRequest("put", <<k>>, <<v>>)
      BY <1>0, <2>1 DEF IsRequest
    <2> QED  BY <2>1, <2>2
  <1>2. CASE Get(c)
    <2>1. PICK k \in Keys, v \in Sizes : Send(c, "get", <<k>>, <<v>>)
      BY <1>2 DEF Get
    <2>2. IsRequest("get", <<k>>, <<v>>)
      BY <1>0, <2>1 DEF IsRequest
    <2> QED  BY <2>1, <2>2
  <1>3. CASE Length(c)
    <2>1. PICK k \in Keys : Send(c, "length", <<k>>, <<>>)
      BY <1>3 DEF Length
    <2>2. IsRequest("length", <<k>>, <<>>)
      BY <1>0, <2>1 DEF IsRequest
    <2> QED  BY <2>1, <2>2
  <1>4. CASE Exists(c)
    <2>1. PICK k \in Keys : Send(c, "exists", <<k>>, <<>>)
      BY <1>4 DEF Exists
    <2>2. IsRequest("exists", <<k>>, <<>>)
      BY <1>0, <2>1 DEF IsRequest
    <2> QED  BY <2>1, <2>2
  <1>5. CASE Erase(c)
    <2>1. PICK k \in Keys : Send(c, "erase", <<k>>, <<>>)
      BY <1>5 DEF Erase
    <2>2. IsRequest("erase", <<k>>, <<>>)
      BY <1>0, <2>1 DEF IsRequest
    <2> QED  BY <2>1, <2>2
  <1>6. CASE PutMulti(c)
    BY <1>6, BatchIsSeq, ItemsAreSeq DEF IsRequest, PutMulti
  <1>7. CASE PutMultiInvalid(c)
    BY <1>7, BatchIsSeq, ItemsAreSeq DEF IsRequest, PutMultiInvalid
  <1>8. CASE PutPacked(c)
    BY <1>8, BatchIsSeq, ItemsAreSeq DEF IsRequest, PutPacked
  <1>9. CASE GetMulti(c)
    BY <1>9, BatchIsSeq, ItemsAreSeq DEF IsRequest, GetMulti
  <1>10. CASE GetPacked(c)
    <2>1. PICK ks \in Batches(Keys), b \in Sizes : Send(c, "get_packed", ks, <<b>>)
      BY <1>10 DEF GetPacked
    <2>2. IsRequest("get_packed", ks, <<b>>)
      BY <1>0, <2>1, BatchIsSeq DEF IsRequest
    <2> QED  BY <2>1, <2>2
  <1>11. CASE LengthMulti(c)
    <2>1. PICK ks \in Batches(Keys) : Send(c, "length_multi", ks, <<>>)
      BY <1>11 DEF LengthMulti
    <2>2. IsRequest("length_multi", ks, <<>>)
      BY <1>0, <2>1, BatchIsSeq DEF IsRequest
    <2> QED  BY <2>1, <2>2
  <1>12. CASE LengthPacked(c)
    <2>1. PICK ks \in Batches(Keys) : Send(c, "length_packed", ks, <<>>)
      BY <1>12 DEF LengthPacked
    <2>2. IsRequest("length_packed", ks, <<>>)
      BY <1>0, <2>1, BatchIsSeq DEF IsRequest
    <2> QED  BY <2>1, <2>2
  <1>13. CASE ExistsMulti(c)
    <2>1. PICK ks \in Batches(Keys) : Send(c, "exists_multi", ks, <<>>)
      BY <1>13 DEF ExistsMulti
    <2>2. IsRequest("exists_multi", ks, <<>>)
      BY <1>0, <2>1, BatchIsSeq DEF IsRequest
    <2> QED  BY <2>1, <2>2
  <1>14. CASE EraseMulti(c)
    <2>1. PICK ks \in Batches(Keys) : Send(c, "erase_multi", ks, <<>>)
      BY <1>14 DEF EraseMulti
    <2>2. IsRequest("erase_multi", ks, <<>>)
      BY <1>0, <2>1, BatchIsSeq DEF IsRequest
    <2> QED  BY <2>1, <2>2
  <1> QED  BY <1>1, <1>2, <1>3, <1>4, <1>5, <1>6, <1>7, <1>8, <1>9, <1>10,
           <1>11, <1>12, <1>13, <1>14 DEF Call

\* A new call keeps the types.
LEMMA NewCallTypes ==
  ASSUME TypeOK, NEW c \in Clients, NEW f, NEW ks, NEW as, IsRequest(f, ks, as),
         NEW to \in {"serving", "returned"}, NEW code \in Codes, NewCall(c, f, ks, as, to, code)
  PROVE  TypeOK'
  <1>1. req' \in [Clients -> [fn : Single \cup Multi \cup Packed \cup {None},
                             keys : Seq(Keys), arg : Seq(Sizes)]]
    BY DEF NewCall, TypeOK, IsRequest
  <1>2. mem' \in [Clients -> Nat]
    <2>1. as \in Seq(Sizes) /\ (f = "get_packed" => Len(as) = 1)
      BY DEF IsRequest
    <2>2. ASSUME Len(as) = 1 PROVE as[1] \in Nat
      <3>1. as \in Seq(Sizes)
        BY <2>1
      <3>2. 1 \in 1..Len(as)
        BY <2>2
      <3>3. as[1] \in Sizes
        BY ONLY <3>1, <3>2, ItemOf
      <3> QED  BY <3>3, SizesAreNumbers
    <2> QED  BY <2>1, <2>2 DEF NewCall, TypeOK
  <1>3. saw' \in [Clients -> [Keys -> SUBSET (Sizes \cup {None})]]
    BY DEF NewCall, TypeOK
  <1>4. /\ pc' \in [Clients -> {"idle", "serving", "answered", "returned"}]
        /\ out' \in [Clients -> Codes] /\ left' \in [Clients -> 0..MaxCalls]
    BY DEF NewCall, TypeOK
  <1> QED  BY <1>1, <1>2, <1>3, <1>4 DEF NewCall, TypeOK

\* The key of the item a handler is at, and what came with it.
LEMMA ItemTypes ==
  ASSUME TypeOK, RequestInv, NEW c \in Clients, NEW fs, AtItem(c, fs)
  PROVE  /\ key(c) \in Keys /\ kv[key(c)] \in Sizes \cup {None}
         /\ fs \subseteq Puts \cup {"get", "get_multi"} => arg(c) \in Sizes
         /\ item' = [item EXCEPT ![c] = item[c] + 1] /\ item' \in [Clients -> Nat]
  <1>1. item[c] \in 1..Len(req[c].keys) /\ req[c].fn \in fs
    BY DEF TypeOK, RequestInv, AtItem
  <1>2. req[c].keys \in Seq(Keys) /\ req[c].arg \in Seq(Sizes)
    BY DEF TypeOK
  <1>3. key(c) \in Keys
    BY <1>1, <1>2 DEF key
  <1>4. fs \subseteq Puts \cup {"get", "get_multi"} => Len(req[c].arg) = Len(req[c].keys)
    BY <1>1 DEF RequestInv, AtItem
  <1>5. fs \subseteq Puts \cup {"get", "get_multi"} => arg(c) \in Sizes
    BY <1>1, <1>2, <1>4 DEF arg
  <1> QED  BY <1>3, <1>5 DEF TypeOK, AtItem

\* Writing to the database keeps the types.
LEMMA StoreTypes ==
  ASSUME TypeOK, NEW k \in Keys, NEW w \in Sizes \cup {None}, Store(k, w)
  PROVE  /\ no_overwrite' \in BOOLEAN /\ kv' \in [Keys -> Sizes \cup {None}]
         /\ saw' \in [Clients -> [Keys -> SUBSET (Sizes \cup {None})]]
  BY DEF TypeOK, Store

LEMMA StoreItemTypes ==
  ASSUME TypeOK, NEW c \in Clients, key(c) \in Keys, arg(c) \in Sizes, StoreItem(c)
  PROVE  wrote' \in [Clients -> SUBSET (Keys \X Sizes \X (Sizes \cup {None}))]
  <1>1. kv[key(c)] \in Sizes \cup {None}
    BY DEF TypeOK
  <1>2. <<key(c), arg(c), kv[key(c)]>> \in Keys \X Sizes \X (Sizes \cup {None})
    BY <1>1
  <1> QED  BY <1>2 DEF TypeOK, StoreItem

\* So does finding something out, and reporting a code.
LEMMA FoundTypes ==
  ASSUME TypeOK, NEW c \in Clients, NEW r \in Int, Found(c, r)
  PROVE  res' \in [Clients -> Seq(Int)]
  BY DEF TypeOK, Found

LEMMA ReportTypes ==
  ASSUME TypeOK, NEW c \in Clients, NEW code \in Codes, Report(c, code)
  PROVE  out' \in [Clients -> Codes]
  BY DEF TypeOK, Report

\* What the caller receives are numbers, or None.
LEMMA ReceivedTypes ==
  ASSUME TypeOK, NEW c \in Clients
  PROVE  Received(c) \in Seq(Int \cup {None})
  <1>1. res[c] \in Seq(Int)
    BY DEF TypeOK
  <1>2. \A p, o, n : At(p, o, n) \in {n, None}
    BY DEF At
  <1>3. [i \in DOMAIN res[c] |-> At(Pushed(c), Offset(Room(res[c]), i), res[c][i])]
            \in Seq(Int \cup {None})
    BY <1>1, <1>2
  <1> QED  BY <1>1, <1>3 DEF Received

\* Every step of a call keeps the types.
LEMMA StepTypes ==
  ASSUME TypeOK, RequestInv, NEW c \in Clients, Step(c)
  PROVE  TypeOK'
  <1>1. CASE Refuse(c)
    BY <1>1 DEF Refuse, TypeOK
  <1>2. CASE PutItem(c)
    <2>1. key(c) \in Keys /\ arg(c) \in Sizes /\ item' \in [Clients -> Nat]
      BY <1>2, ItemTypes DEF PutItem
    <2>2. /\ no_overwrite' \in BOOLEAN /\ kv' \in [Keys -> Sizes \cup {None}]
          /\ saw' \in [Clients -> [Keys -> SUBSET (Sizes \cup {None})]]
      BY <1>2, <2>1, StoreTypes DEF PutItem, StoreItem, TypeOK
    <2>3. out' \in [Clients -> Codes]
      BY <1>2 DEF PutItem, Report, PutResult, TypeOK
    <2>4. wrote' \in [Clients -> SUBSET (Keys \X Sizes \X (Sizes \cup {None}))]
      BY <1>2, <2>1, StoreItemTypes DEF PutItem, TypeOK
    <2> QED  BY <1>2, <2>1, <2>2, <2>3, <2>4 DEF PutItem, TypeOK
  <1>3. CASE EraseItem(c)
    <2>1. key(c) \in Keys /\ item' \in [Clients -> Nat]
      BY <1>3, ItemTypes DEF EraseItem
    <2>2. /\ no_overwrite' \in BOOLEAN /\ kv' \in [Keys -> Sizes \cup {None}]
          /\ saw' \in [Clients -> [Keys -> SUBSET (Sizes \cup {None})]]
      BY <1>3, <2>1, StoreTypes DEF EraseItem, TypeOK
    <2>3. out' \in [Clients -> Codes]
      BY <1>3 DEF EraseItem, Report, TypeOK
    <2> QED  BY <1>3, <2>1, <2>2, <2>3 DEF EraseItem, TypeOK
  <1>4. CASE GetItem(c)
    <2>1. kv[key(c)] \in Sizes \cup {None} /\ arg(c) \in Sizes /\ item' \in [Clients -> Nat]
      BY <1>4, ItemTypes DEF GetItem
    <2>2. PICK r \in Int, code \in Codes : Found(c, r) /\ Report(c, code)
      <3>1. CASE kv[key(c)] = None
        BY <1>4, <3>1 DEF GetItem
      <3>2. CASE kv[key(c)] \in Sizes /\ kv[key(c)] # None
        BY <1>4, <3>2, SizesAreNumbers DEF GetItem
      <3> QED  BY <2>1, <3>1, <3>2
    <2>3. res' \in [Clients -> Seq(Int)] /\ out' \in [Clients -> Codes]
      BY <2>2, FoundTypes, ReportTypes
    <2> QED  BY <1>4, <2>1, <2>3 DEF GetItem, TypeOK
  <1>5. CASE GetMultiItem(c)
    <2>1. kv[key(c)] \in Sizes \cup {None} /\ arg(c) \in Sizes /\ item' \in [Clients -> Nat]
      BY <1>5, ItemTypes DEF GetMultiItem
    <2>2. PICK n \in Nat : /\ Found(c, n)
                           /\ packed' = [packed EXCEPT ![c] = @ \cup {<<off[c], n>>}]
                           /\ off' = [off EXCEPT ![c] = @ + n]
      BY <1>5, <2>1 DEF GetMultiItem
    <2>3. /\ res' \in [Clients -> Seq(Int)] /\ off' \in [Clients -> Nat]
          /\ packed' \in [Clients -> SUBSET (Nat \X Nat)]
      BY <2>2 DEF Found, TypeOK
    <2> QED  BY <1>5, <2>1, <2>3 DEF GetMultiItem, TypeOK
  <1>6. CASE GetPackedItem(c)
    <2>1. kv[key(c)] \in Sizes \cup {None} /\ item' \in [Clients -> Nat]
      BY <1>6, ItemTypes DEF GetPackedItem
    <2>2. mem[c] \in Nat
      BY DEF TypeOK
    <2>3. kv[key(c)] # None => kv[key(c)] \in Nat
      BY <2>1, SizesAreNumbers
    <2>4. CASE mem[c] = 0 \/ (kv[key(c)] # None /\ kv[key(c)] > mem[c])
      <3>1. /\ Found(c, 0) /\ Report(c, "SIZE")
            /\ mem' = [mem EXCEPT ![c] = 0] /\ UNCHANGED <<packed, off>>
        BY <1>6, <2>3, <2>4, <2>2 DEF GetPackedItem
      <3>2. res' \in [Clients -> Seq(Int)] /\ out' \in [Clients -> Codes]
        BY <3>1, FoundTypes, ReportTypes
      <3> QED  BY <1>6, <2>1, <3>1, <3>2 DEF GetPackedItem, TypeOK
    <2>5. CASE kv[key(c)] # None /\ kv[key(c)] <= mem[c] /\ mem[c] # 0
      <3>1. PICK v \in Nat : /\ Found(c, v) /\ UNCHANGED <<out, mem>>
                             /\ packed' = [packed EXCEPT ![c] = @ \cup {<<off[c], v>>}]
                             /\ off' = [off EXCEPT ![c] = @ + v]
        BY <1>6, <2>3, <2>5, <2>2 DEF GetPackedItem
      <3>2. res' \in [Clients -> Seq(Int)]
        BY <3>1, FoundTypes
      <3>3. off' \in [Clients -> Nat] /\ packed' \in [Clients -> SUBSET (Nat \X Nat)]
        BY <3>1 DEF TypeOK
      <3> QED  BY <1>6, <2>1, <3>1, <3>2, <3>3 DEF GetPackedItem, TypeOK
    <2>6. CASE kv[key(c)] = None /\ mem[c] # 0
      <3>1. Found(c, -1) /\ UNCHANGED <<out, packed, off, mem>>
        BY <1>6, <2>6 DEF GetPackedItem
      <3>2. res' \in [Clients -> Seq(Int)]
        BY <3>1, FoundTypes
      <3> QED  BY <1>6, <2>1, <3>1, <3>2 DEF GetPackedItem, TypeOK
    <2> QED  BY <2>3, <2>4, <2>5, <2>6, <2>2
  <1>7. CASE LengthItem(c)
    <2>1. kv[key(c)] \in Sizes \cup {None} /\ item' \in [Clients -> Nat]
      BY <1>7, ItemTypes DEF LengthItem
    <2>2. PICK r \in Int, code \in Codes : Found(c, r) /\ Report(c, code)
      <3>1. out[c] \in Codes
        BY DEF TypeOK
      <3>2. CASE kv[key(c)] = None
        BY <1>7, <3>1, <3>2 DEF LengthItem
      <3>3. CASE kv[key(c)] \in Sizes /\ kv[key(c)] # None
        BY <1>7, <3>1, <3>3, SizesAreNumbers DEF LengthItem
      <3> QED  BY <2>1, <3>2, <3>3
    <2>3. res' \in [Clients -> Seq(Int)] /\ out' \in [Clients -> Codes]
      BY <2>2, FoundTypes, ReportTypes
    <2> QED  BY <1>7, <2>1, <2>3 DEF LengthItem, TypeOK
  <1>8. CASE ExistsItem(c)
    <2>1. item' \in [Clients -> Nat]
      BY <1>8, ItemTypes DEF ExistsItem
    <2>2. res' \in [Clients -> Seq(Int)]
      BY <1>8 DEF ExistsItem, Found, TypeOK
    <2> QED  BY <1>8, <2>1, <2>2 DEF ExistsItem, TypeOK
  <1>9. CASE PushFails(c)
    BY <1>9 DEF PushFails, Report, TypeOK
  <1>10. CASE Return(c)
    <2>1. got' \in [Clients -> Seq(Int \cup {None})]
      BY <1>10, ReceivedTypes DEF Return, TypeOK
    <2> QED  BY <1>10, <2>1 DEF Return, TypeOK
  <1>11. CASE TransportFails(c)
    BY <1>11 DEF TransportFails, Uninitialized, Report, TypeOK
  <1>12. CASE Forget(c)
    <2>1. /\ <<>> \in Seq(Keys) /\ <<>> \in Seq(Sizes)
          /\ <<>> \in Seq(Int) /\ <<>> \in Seq(Int \cup {None})
      OBVIOUS
    <2>2. req' \in [Clients -> [fn : Single \cup Multi \cup Packed \cup {None},
                               keys : Seq(Keys), arg : Seq(Sizes)]]
      BY <1>12, <2>1 DEF Forget, TypeOK
    <2> QED  BY <1>12, <2>1, <2>2 DEF Forget, TypeOK
  <1> QED  BY <1>1, <1>2, <1>3, <1>4, <1>5, <1>6, <1>7, <1>8, <1>9, <1>10, <1>11, <1>12 DEF Step

-----------------------------------------------------------------------------
(* The shape of requests.                                                  *)

LEMMA NewCallRequests ==
  ASSUME TypeOK, RequestInv, NEW c \in Clients, NEW f, NEW ks, NEW as, IsRequest(f, ks, as),
         NEW to, NEW code, NewCall(c, f, ks, as, to, code)
  PROVE  RequestInv'
  <1>1. item[c] = 1 /\ req'[c] = [fn |-> f, keys |-> ks, arg |-> as] /\ item' = item
    BY DEF TypeOK, RequestInv, NewCall
  <1>2. \A d \in Clients : d # c => pc'[d] = pc[d] /\ req'[d] = req[d]
    BY DEF TypeOK, NewCall
  <1>3. SUFFICES ASSUME NEW d \in Clients PROVE RequestInv!(d)'
    BY DEF RequestInv
  <1>4. CASE d = c
    <2>1. /\ Len(ks) \in Nat /\ Len(ks) >= 1 /\ (f \in Single => Len(ks) = 1)
          /\ f \in Puts \cup {"get", "get_multi"} => Len(as) = Len(ks)
      <3>1. ks \in Seq(Keys)
        BY DEF IsRequest
      <3>2. Len(ks) \in Nat
        BY ONLY <3>1
      <3> QED  BY <3>2 DEF IsRequest
    <2>2. /\ req'[c].keys = ks /\ req'[c].arg = as /\ req'[c].fn = f
          /\ item'[c] = 1 /\ 1 \in 1..Len(ks) + 1
      BY <1>1, <2>1
    <2> QED  BY <1>4, <2>1, <2>2
  <1>5. CASE d # c
    BY <1>1, <1>2, <1>5 DEF RequestInv
  <1> QED  BY <1>4, <1>5

LEMMA StepRequests ==
  ASSUME TypeOK, RequestInv, NEW c \in Clients, Step(c)
  PROVE  RequestInv'
  <1>1. CASE Refuse(c) \/ PushFails(c) \/ Return(c) \/ TransportFails(c)
    <2>1. /\ UNCHANGED <<req, item>> /\ pc[c] # "idle"
          /\ \E p \in {"answered", "returned"} : pc' = [pc EXCEPT ![c] = p]
      BY <1>1 DEF Refuse, PushFails, Return, TransportFails, ItemsDone
    <2> QED  BY <2>1 DEF TypeOK, RequestInv
  <1>2. CASE Forget(c)
    BY <1>2 DEF Forget, TypeOK, RequestInv
  <1>3. ASSUME NEW fs, AtItem(c, fs), UNCHANGED <<pc, req>>
        PROVE  RequestInv'
    <2>1. item[c] \in 1..Len(req[c].keys) /\ item' = [item EXCEPT ![c] = item[c] + 1]
      BY <1>3 DEF AtItem, TypeOK, RequestInv
    <2>2. pc[c] = "serving" /\ Len(req[c].keys) \in Nat
      BY <1>3 DEF AtItem, TypeOK
    <2>3. item[c] + 1 \in 1..Len(req[c].keys) + 1
      BY <2>1, <2>2
    <2> QED  BY <1>3, <2>1, <2>2, <2>3 DEF TypeOK, RequestInv
  <1>4. CASE \/ PutItem(c) \/ EraseItem(c) \/ GetItem(c) \/ GetMultiItem(c) \/ GetPackedItem(c)
             \/ LengthItem(c) \/ ExistsItem(c)
    BY <1>3, <1>4 DEF PutItem, EraseItem, GetItem, GetMultiItem, GetPackedItem, LengthItem,
                      ExistsItem
  <1> QED  BY <1>1, <1>2, <1>4 DEF Step

-----------------------------------------------------------------------------
(* The history, and what writes report.                                    *)

\* What is true of a write stays true when its history grows.
LEMMA TruthIsStable ==
  ASSUME NEW c \in Clients, Truthful(c), req'[c] = req[c], out'[c] = out[c], wrote'[c] = wrote[c],
         no_overwrite' = no_overwrite, \A k \in Keys : saw[c][k] \subseteq saw'[c][k],
         req[c].keys \in Seq(Keys), req[c].fn \in Single => Len(req[c].keys) = 1
  PROVE  Truthful(c)'
  <1>1. \A i \in DOMAIN req[c].keys : /\ ValuesSeen(c, i) \subseteq ValuesSeen(c, i)'
                                      /\ AbsenceSeen(c, i) => AbsenceSeen(c, i)'
    BY DEF ValuesSeen, AbsenceSeen
  <1>2. Len(req[c].keys) = 1 => 1 \in DOMAIN req[c].keys
    OBVIOUS
  <1>3. req[c].fn \in Puts /\ out[c] = "SUCCESS" /\ Len(req[c].keys) = 1 => ItemStored(c, 1)'
    BY <1>1, <1>2 DEF Truthful, ItemStored
  <1>4. req[c].fn \in Puts /\ out[c] = "KEYEXISTS" =>
            no_overwrite /\ \E i \in DOMAIN req[c].keys : ValuesSeen(c, i)' # {}
    BY <1>1 DEF Truthful
  <1>5. req[c].fn = "erase" /\ out[c] = "SUCCESS" => AbsenceSeen(c, 1)'
    BY <1>1, <1>2 DEF Truthful
  <1> QED  BY <1>3, <1>4, <1>5 DEF Truthful

\* A step that is not of client d, and only adds to its history what it writes.
LEMMA OtherCallStays ==
  ASSUME TypeOK, RequestInv, NEW d \in Clients, CallOK(d), no_overwrite' = no_overwrite,
         pc'[d] = pc[d], req'[d] = req[d], item'[d] = item[d], out'[d] = out[d],
         wrote'[d] = wrote[d], lost'[d] = lost[d],
         \A k \in Keys : /\ saw[d][k] \subseteq saw'[d][k]
                         /\ Watches(d, k) => kv'[k] \in saw'[d][k]
  PROVE  CallOK(d)'
  <1>1. req[d].keys \in Seq(Keys) /\ pc[d] \in {"idle", "serving", "answered", "returned"}
    BY DEF TypeOK
  <1>2. pc[d] # "idle" => (req[d].fn \in Single => Len(req[d].keys) = 1)
    BY DEF RequestInv
  <1>3. pc[d] # "idle" /\ Truthful(d) => Truthful(d)'
    BY <1>1, <1>2, TruthIsStable
  <1>4. \A k \in Keys : Watches(d, k)' => kv'[k] \in saw'[d][k]
    BY DEF Watches
  <1> QED  BY <1>1, <1>3, <1>4 DEF CallOK

\* A write is added to the history of every call about its key.
LEMMA StoreIsSeen ==
  ASSUME TypeOK, NEW k \in Keys, NEW w \in Sizes \cup {None}, Store(k, w),
         NEW d \in Clients, CallOK(d)
  PROVE  /\ no_overwrite' = no_overwrite
         /\ \A l \in Keys : /\ saw[d][l] \subseteq saw'[d][l]
                            /\ Watches(d, l) => kv'[l] \in saw'[d][l]
  <1>1. /\ no_overwrite' = no_overwrite /\ kv' = [kv EXCEPT ![k] = w]
        /\ saw'[d] = IF Watches(d, k) THEN [saw[d] EXCEPT ![k] = saw[d][k] \cup {w}] ELSE saw[d]
    BY DEF Store
  <1>2. kv \in [Keys -> Sizes \cup {None}] /\ saw[d] \in [Keys -> SUBSET (Sizes \cup {None})]
    BY DEF TypeOK
  <1>3. \A l \in Keys : Watches(d, l) => kv[l] \in saw[d][l]
    BY DEF CallOK
  <1> QED  BY <1>1, <1>2, <1>3

\* Step c touches nothing of the other calls but their histories.
OnlyCall(c) ==
    \A d \in Clients : d # c =>
        /\ pc'[d] = pc[d] /\ req'[d] = req[d] /\ item'[d] = item[d]
        /\ out'[d] = out[d] /\ wrote'[d] = wrote[d] /\ lost'[d] = lost[d]

\* A step of c that does not write: it is enough to look at c.
LEMMA QuietStep ==
  ASSUME IInv, NEW c \in Clients, OnlyCall(c), UNCHANGED database, CallOK(c)',
         \A d \in Clients : d # c => saw'[d] = saw[d]
  PROVE  \A d \in Clients : CallOK(d)'
  <1>1. ASSUME NEW d \in Clients, d # c PROVE CallOK(d)'
    <2>1. CallOK(d) /\ TypeOK /\ RequestInv
      BY DEF IInv
    <2>2. \A k \in Keys : /\ saw[d][k] \subseteq saw'[d][k]
                          /\ Watches(d, k) => kv'[k] \in saw'[d][k]
      BY <1>1, <2>1 DEF CallOK
    <2> QED  BY <1>1, <2>1, <2>2, OtherCallStays DEF OnlyCall
  <1> QED  BY <1>1

\* The same of one that writes key k.
LEMMA WritingStep ==
  ASSUME IInv, NEW c \in Clients, OnlyCall(c), CallOK(c)',
         NEW k \in Keys, NEW w \in Sizes \cup {None}, Store(k, w)
  PROVE  \A d \in Clients : CallOK(d)'
  <1>1. ASSUME NEW d \in Clients, d # c PROVE CallOK(d)'
    <2>1. CallOK(d) /\ TypeOK /\ RequestInv
      BY DEF IInv
    <2>2. /\ no_overwrite' = no_overwrite
          /\ \A l \in Keys : /\ saw[d][l] \subseteq saw'[d][l]
                             /\ Watches(d, l) => kv'[l] \in saw'[d][l]
      BY <2>1, StoreIsSeen
    <2>3. /\ pc'[d] = pc[d] /\ req'[d] = req[d] /\ item'[d] = item[d]
          /\ out'[d] = out[d] /\ wrote'[d] = wrote[d] /\ lost'[d] = lost[d]
      BY <1>1 DEF OnlyCall
    <2> QED  BY <2>1, <2>2, <2>3, OtherCallStays
  <1> QED  BY <1>1

LEMMA NewCallCalls ==
  ASSUME IInv, NEW c \in Clients, NEW f, NEW ks, NEW as, IsRequest(f, ks, as),
         \/ NewCall(c, f, ks, as, "serving", "SUCCESS")
         \/ NewCall(c, f, ks, as, "returned", "INVALID_ARG")
  PROVE  \A d \in Clients : CallOK(d)'
  <1>1. OnlyCall(c) /\ UNCHANGED database /\ \A d \in Clients : d # c => saw'[d] = saw[d]
    BY DEF NewCall, OnlyCall, IInv, TypeOK
  <1>2. pc[c] = "idle" /\ item'[c] = 1
    BY DEF NewCall, IInv, RequestInv
  <1>3. \/ pc'[c] = "serving" /\ out'[c] = "SUCCESS"
        \/ pc'[c] = "returned" /\ out'[c] = "INVALID_ARG"
    BY DEF NewCall, IInv, TypeOK
  <1>4. \A k \in Keys : Watches(c, k)' => kv'[k] \in saw'[c][k]
    <2>1. /\ req'[c].keys = ks /\ kv' = kv
          /\ saw'[c] = [k \in Keys |-> {kv[k] : i \in {j \in DOMAIN ks : ks[j] = k}}]
      <3>1. PICK to, code : NewCall(c, f, ks, as, to, code)
        OBVIOUS
      <3>2. /\ kv' = kv /\ req' = [req EXCEPT ![c] = [fn |-> f, keys |-> ks, arg |-> as]]
            /\ saw' = [saw EXCEPT ![c] =
                          [k \in Keys |-> {kv[k] : i \in {j \in DOMAIN ks : ks[j] = k}}]]
        BY <3>1 DEF NewCall
      <3>3. c \in DOMAIN req /\ c \in DOMAIN saw
        BY DEF IInv, TypeOK
      <3> QED  BY ONLY <3>2, <3>3
    <2>2. SUFFICES ASSUME NEW k \in Keys, NEW i \in DOMAIN ks, ks[i] = k
                   PROVE  kv[k] \in saw'[c][k]
      BY <2>1 DEF Watches
    <2>3. saw'[c][k] = {kv[k] : j \in {l \in DOMAIN ks : ks[l] = k}}
      BY <2>1
    <2>4. i \in {l \in DOMAIN ks : ks[l] = k}
      BY <2>2
    <2> QED  BY ONLY <2>3, <2>4
  <1>5. out'[c] = "INVALID_ARG" => Truthful(c)'
    BY DEF Truthful
  <1>6. CallOK(c)'
    BY <1>2, <1>3, <1>4, <1>5 DEF CallOK
  <1> QED  BY <1>1, <1>6, QuietStep

\* An item that is worked on is one of the request, and the first has been passed then.
LEMMA ItemAdvances ==
  ASSUME TypeOK, RequestInv, NEW c \in Clients, NEW fs, AtItem(c, fs)
  PROVE  pc[c] = "serving" /\ item[c] \in 1..Len(req[c].keys) /\ item'[c] > 1
  <1>1. pc[c] = "serving" /\ item[c] <= Len(req[c].keys) /\ item'[c] = item[c] + 1
    BY DEF AtItem, TypeOK
  <1>2. item[c] \in 1..Len(req[c].keys) + 1 /\ req[c].keys \in Seq(Keys)
    BY <1>1 DEF RequestInv, TypeOK
  <1>3. Len(req[c].keys) \in Nat
    BY ONLY <1>2
  <1> QED  BY ONLY <1>1, <1>2, <1>3

\* A handler that reads.
LEMMA ReadingItem ==
  ASSUME IInv, NEW c \in Clients, NEW fs, AtItem(c, fs), fs \cap (Puts \cup {"erase"}) = {},
         UNCHANGED <<database, pc, req, saw, wrote, lost>>,
         \A d \in Clients : d # c => out'[d] = out[d]
  PROVE  \A d \in Clients : CallOK(d)'
  <1>1. OnlyCall(c)
    BY DEF AtItem, OnlyCall, IInv, TypeOK
  <1>2. pc[c] = "serving" /\ item'[c] > 1
    BY ItemAdvances DEF IInv
  <1>3. Truthful(c)'
    BY DEF AtItem, Truthful
  <1>4. \A k \in Keys : Watches(c, k)' => kv'[k] \in saw'[c][k]
    BY DEF Watches, IInv, CallOK
  <1>5. CallOK(c)'
    BY <1>2, <1>3, <1>4 DEF CallOK, IInv, TypeOK
  <1> QED  BY <1>1, <1>5, QuietStep

\* What the handler of a put reports of the item it has stored, or not.
LEMMA PutIsTrue ==
  ASSUME IInv, NEW c \in Clients, PutItem(c)
  PROVE  Truthful(c)'
  <1> DEFINE i == item[c]
             k == req[c].keys[i]
             v == req[c].arg[i]
  <1>1. /\ i \in 1..Len(req[c].keys) /\ pc[c] = "serving" /\ req[c].fn \in Puts
        /\ key(c) = k /\ arg(c) = v /\ req' = req
    BY ItemAdvances DEF PutItem, IInv, key, arg, AtItem
  <1>2. /\ k \in Keys /\ v \in Sizes
    <2>1. req[c].keys \in Seq(Keys) /\ req[c].arg \in Seq(Sizes)
      BY DEF IInv, TypeOK
    <2>2. Len(req[c].arg) = Len(req[c].keys)
      BY <1>1 DEF IInv, RequestInv
    <2> QED  BY ONLY <1>1, <2>1, <2>2, ItemOf
  <1>3. kv[k] \in saw[c][k] /\ v # None /\ DOMAIN req[c].keys = 1..Len(req[c].keys)
    <2>1. req[c].keys \in Seq(Keys)
      BY DEF IInv, TypeOK
    <2>2. DOMAIN req[c].keys = 1..Len(req[c].keys)
      BY ONLY <2>1
    <2>3. Watches(c, k)
      BY <1>1, <2>2 DEF Watches
    <2> QED  BY <1>2, <2>2, <2>3, SizesAreNumbers DEF IInv, CallOK
  <1>4. Len(req[c].keys) = 1 => i = 1 /\ out[c] = "SUCCESS"
    BY <1>1 DEF IInv, CallOK
  <1>5. req'[c].fn \notin {"erase"} /\ req'[c] = req[c]
    BY <1>1
  <1>6. out \in [Clients -> Codes]
    BY DEF IInv, TypeOK
  <1>7. CASE /\ ~(no_overwrite /\ kv[k] # None)
             /\ StoreItem(c) /\ Report(c, PutResult(out[c], "SUCCESS"))
    <2>1. out'[c] = "SUCCESS"
      BY <1>6, <1>7 DEF Report, PutResult
    <2>2. no_overwrite' = no_overwrite /\ <<k, v, kv[k]>> \in wrote'[c]
      BY <1>1, <1>7 DEF StoreItem, Store, IInv, TypeOK
    <2>3. PICK old \in Sizes \cup {None} : old = kv[k]
      BY <1>2 DEF IInv, TypeOK
    <2>4. /\ <<req'[c].keys[i], req'[c].arg[i], old>> \in wrote'[c]
          /\ no_overwrite' => old = None
      BY <1>5, <1>7, <2>2, <2>3
    <2>5. Len(req[c].keys) = 1 => ItemStored(c, 1)'
      BY <1>4, <2>4 DEF ItemStored
    <2> QED  BY <1>5, <2>1, <2>5 DEF Truthful
  <1>8. CASE no_overwrite /\ kv[k] # None /\ Report(c, PutResult(out[c], "KEYEXISTS"))
             /\ UNCHANGED <<database, saw>>
    <2>1. out'[c] = IF out[c] = "SUCCESS" THEN "KEYEXISTS" ELSE "SUCCESS"
      BY <1>6, <1>8 DEF Report, PutResult
    <2>2. kv[k] \in saw'[c][k] \ {None} /\ i \in DOMAIN req'[c].keys
      BY <1>1, <1>3, <1>5, <1>8
    <2>3. \E j \in DOMAIN req'[c].keys : ValuesSeen(c, j)' # {}
      <3>1. saw'[c][req'[c].keys[i]] \ {None} # {}
        BY <1>5, <2>2
      <3> QED  BY <2>2, <3>1 DEF ValuesSeen
    <2>4. no_overwrite'
      BY <1>8
    <2>5. Len(req'[c].keys) = 1 => out'[c] # "SUCCESS"
      BY <1>4, <1>5, <2>1
    <2> QED  BY <1>5, <2>3, <2>4, <2>5 DEF Truthful
  <1>9. CASE Report(c, PutResult(out[c], "PUT")) /\ UNCHANGED <<database, saw>>
    <2>1. out'[c] = IF out[c] = "SUCCESS" THEN "PUT" ELSE "SUCCESS"
      BY <1>6, <1>9 DEF Report, PutResult
    <2> QED  BY <1>4, <1>5, <2>1 DEF Truthful
  <1> QED  BY <1>1, <1>7, <1>8, <1>9 DEF PutItem

LEMMA EraseIsTrue ==
  ASSUME IInv, NEW c \in Clients, EraseItem(c)
  PROVE  Truthful(c)'
  <1>1. /\ item[c] \in 1..Len(req[c].keys) /\ pc[c] = "serving"
        /\ req[c].fn \in {"erase", "erase_multi"} /\ req'[c] = req[c]
    BY ItemAdvances DEF EraseItem, IInv, AtItem
  <1>2. SUFFICES ASSUME req[c].fn = "erase", out'[c] = "SUCCESS" PROVE AbsenceSeen(c, 1)'
    BY <1>1 DEF Truthful
  <1>3. item[c] = 1 /\ key(c) = req[c].keys[1]
    <2>1. Len(req[c].keys) = 1
      BY <1>1, <1>2 DEF IInv, RequestInv
    <2>2. item[c] = 1
      BY ONLY <1>1, <2>1
    <2> QED  BY <2>2 DEF key
  <1>4. Store(req[c].keys[1], None)
    BY <1>2, <1>3 DEF EraseItem, Report, IInv, TypeOK
  <1>5. req[c].keys \in Seq(Keys)
    BY DEF IInv, TypeOK
  <1>6. req[c].keys[1] \in Keys /\ 1 \in DOMAIN req[c].keys
    BY ONLY <1>1, <1>3, <1>5, ItemOf
  <1>7. Watches(c, req[c].keys[1])
    BY <1>1, <1>6 DEF Watches
  <1>8. kv'[req[c].keys[1]] = None
    BY <1>4, <1>6 DEF Store, IInv, TypeOK
  <1>9. kv'[req[c].keys[1]] \in saw'[c][req[c].keys[1]]
    <2>1. TypeOK /\ CallOK(c)
      BY DEF IInv
    <2>2. PICK k \in Keys : k = req[c].keys[1]
      BY <1>6
    <2>3. Store(k, None) /\ Watches(c, k)
      BY <1>4, <1>7, <2>2 DEF Store, Watches
    <2>4. kv'[k] \in saw'[c][k]
      BY <2>1, <2>3, StoreIsSeen
    <2> QED  BY <2>2, <2>4
  <1> QED  BY <1>1, <1>8, <1>9 DEF AbsenceSeen

\* A handler that writes: the item is stored, or not, and truthfully reported.
LEMMA WritingItem ==
  ASSUME IInv, NEW c \in Clients, PutItem(c) \/ EraseItem(c)
  PROVE  \A d \in Clients : CallOK(d)'
  <1>1. PICK fs : AtItem(c, fs)
    BY DEF PutItem, EraseItem
  <1>2. /\ pc[c] = "serving" /\ item'[c] > 1
        /\ item[c] \in 1..Len(req[c].keys) /\ UNCHANGED <<pc, req, lost>>
    BY <1>1, ItemAdvances DEF IInv, PutItem, EraseItem
  <1>3. \A d \in Clients : d # c => out'[d] = out[d] /\ item'[d] = item[d]
    BY <1>1 DEF PutItem, EraseItem, Report, AtItem, IInv, TypeOK
  <1>4. OnlyCall(c)
    <2>1. \A d \in Clients : d # c => wrote'[d] = wrote[d]
      BY DEF PutItem, EraseItem, StoreItem, IInv, TypeOK
    <2> QED  BY <1>2, <1>3, <2>1 DEF OnlyCall
  <1>5. Truthful(c)'
    BY PutIsTrue, EraseIsTrue
  <1>6. key(c) \in Keys /\ (PutItem(c) => arg(c) \in Sizes)
    <2>1. req[c].keys \in Seq(Keys) /\ req[c].arg \in Seq(Sizes)
      BY DEF IInv, TypeOK
    <2>2. PutItem(c) => Len(req[c].arg) = Len(req[c].keys)
      BY <1>2 DEF IInv, RequestInv, PutItem, AtItem
    <2>3. /\ req[c].keys[item[c]] \in Keys
          /\ Len(req[c].arg) = Len(req[c].keys) => req[c].arg[item[c]] \in Sizes
      BY ONLY <1>2, <2>1, ItemOf
    <2> QED  BY <2>2, <2>3 DEF key, arg
  <1>7. CASE UNCHANGED <<database, saw>>
    <2>1. \A k \in Keys : Watches(c, k)' => kv'[k] \in saw'[c][k]
      BY <1>2, <1>7 DEF Watches, IInv, CallOK
    <2>2. CallOK(c)'
      BY <1>2, <1>5, <2>1 DEF CallOK
    <2> QED  BY <1>4, <1>7, <2>2, QuietStep
  <1>8. ASSUME NEW k \in Keys, NEW w \in Sizes \cup {None}, Store(k, w)
        PROVE  \A d \in Clients : CallOK(d)'
    <2>1. \A l \in Keys : Watches(c, l) => kv'[l] \in saw'[c][l]
      <3>1. TypeOK /\ CallOK(c)
        BY DEF IInv
      <3> QED  BY <1>8, <3>1, StoreIsSeen
    <2>2. \A l \in Keys : Watches(c, l)' => kv'[l] \in saw'[c][l]
      BY <1>2, <2>1 DEF Watches
    <2>3. CallOK(c)'
      BY <1>2, <1>5, <2>2 DEF CallOK
    <2> QED  BY <1>4, <1>8, <2>3, WritingStep
  <1>9. CASE PutItem(c) /\ StoreItem(c)
    <2>1. PICK k \in Keys, w \in Sizes : k = key(c) /\ w = arg(c)
      BY <1>6, <1>9
    <2> QED  BY <1>8, <1>9, <2>1 DEF StoreItem, Store
  <1>10. CASE Store(key(c), None)
    <2>1. PICK k \in Keys : k = key(c)
      BY <1>6
    <2> QED  BY <1>8, <1>10, <2>1 DEF Store
  <1> QED  BY <1>7, <1>9, <1>10 DEF PutItem, EraseItem

\* The end of a call.
LEMMA EndingStep ==
  ASSUME IInv, NEW c \in Clients,
         Refuse(c) \/ PushFails(c) \/ Return(c) \/ TransportFails(c) \/ Forget(c)
  PROVE  \A d \in Clients : CallOK(d)'
  <1> USE DEF IInv, TypeOK
  <1>1. UNCHANGED database /\ OnlyCall(c) /\ \A d \in Clients : d # c => saw'[d] = saw[d]
    BY DEF OnlyCall, Refuse, PushFails, Return, TransportFails, Forget, Report
  <1>2. CASE Refuse(c) \/ PushFails(c)
    <2>1. /\ pc[c] = "serving" /\ pc'[c] = "answered" /\ req' = req /\ saw' = saw /\ kv' = kv
          /\ out'[c] \in {"UNKNOWN_PR", "UNKNOWN_DB", "HG"}
      BY <1>2 DEF Refuse, PushFails, Report
    <2>2. \A k \in Keys : Watches(c, k)' => kv'[k] \in saw'[c][k]
      BY <2>1 DEF Watches, CallOK
    <2>3. CallOK(c)'
      BY <2>1, <2>2 DEF CallOK
    <2> QED  BY <1>1, <2>3, QuietStep
  <1>3. CASE Return(c)
    <2>1. /\ pc[c] \in {"serving", "answered"} /\ pc'[c] = "returned"
          /\ req' = req /\ saw' = saw /\ out' = out /\ no_overwrite' = no_overwrite
          /\ wrote' = wrote
      BY <1>3 DEF Return, ItemsDone
    <2>2. Truthful(c)
      <3>1. CASE pc[c] = "answered"
        BY <3>1 DEF CallOK, Truthful
      <3>2. CASE ItemsDone(c)
        <4>1. item[c] > 1
          <5>1. req[c].keys \in Seq(Keys) /\ item[c] \in Nat /\ item[c] > Len(req[c].keys)
            BY <3>2 DEF ItemsDone
          <5>2. Len(req[c].keys) >= 1
            BY <3>2 DEF ItemsDone, RequestInv
          <5> QED  BY ONLY <5>1, <5>2
        <4> QED  BY <3>2, <4>1 DEF CallOK, ItemsDone
      <3> QED  BY <1>3, <3>1, <3>2 DEF Return
    <2>3. Truthful(c)'
      BY <2>1, <2>2 DEF Truthful, ItemStored, ValuesSeen, AbsenceSeen
    <2>4. CallOK(c)'
      BY <2>1, <2>3 DEF CallOK, Watches
    <2> QED  BY <1>1, <2>4, QuietStep
  <1>4. CASE TransportFails(c)
    <2>1. pc'[c] = "returned" /\ lost'[c] = TRUE /\ req' = req
      BY <1>4 DEF TransportFails
    <2>2. req[c].fn \notin Multi => out'[c] = "HG"
      BY <1>4 DEF TransportFails, Report
    <2>3. req[c].fn \notin Multi => Truthful(c)'
      BY <2>1, <2>2 DEF Truthful
    <2>4. CallOK(c)'
      BY <2>1, <2>3 DEF CallOK, Watches
    <2> QED  BY <1>1, <2>4, QuietStep
  <1>5. CASE Forget(c)
    <2>1. pc'[c] = "idle"
      BY <1>5 DEF Forget
    <2>2. CallOK(c)'
      BY <2>1 DEF CallOK, Watches
    <2> QED  BY <1>1, <2>2, QuietStep
  <1> QED  BY <1>2, <1>3, <1>4, <1>5

LEMMA StepCalls ==
  ASSUME IInv, NEW c \in Clients, Step(c)
  PROVE  \A d \in Clients : CallOK(d)'
  <1>1. CASE \/ GetItem(c) \/ GetMultiItem(c) \/ GetPackedItem(c) \/ LengthItem(c) \/ ExistsItem(c)
    <2>1. /\ UNCHANGED <<database, pc, req, saw, wrote, lost>>
          /\ \A d \in Clients : d # c => out'[d] = out[d]
      BY <1>1 DEF GetItem, GetMultiItem, GetPackedItem, LengthItem, ExistsItem, Report, IInv, TypeOK
    <2>2. PICK fs : AtItem(c, fs) /\ fs \cap (Puts \cup {"erase"}) = {}
      BY <1>1 DEF GetItem, GetMultiItem, GetPackedItem, LengthItem, ExistsItem
    <2> QED  BY <2>1, <2>2, ReadingItem
  <1>2. CASE PutItem(c) \/ EraseItem(c)
    BY <1>2, WritingItem
  <1>3. CASE Refuse(c) \/ PushFails(c) \/ Return(c) \/ TransportFails(c) \/ Forget(c)
    BY <1>3, EndingStep
  <1> QED  BY <1>1, <1>2, <1>3 DEF Step

-----------------------------------------------------------------------------
(* The theorems.                                                           *)

LEMMA InitIInv == Init => IInv
  <1> SUFFICES ASSUME Init PROVE IInv
    OBVIOUS
  <1>1. TypeOK
    BY InitTypes
  <1>2. RequestInv /\ \A c \in Clients : CallOK(c)
    BY DEF Init, RequestInv, CallOK, Watches
  <1> QED  BY <1>1, <1>2 DEF IInv

LEMMA NextIInv == IInv /\ [Next]_vars => IInv'
  <1> SUFFICES ASSUME IInv, [Next]_vars PROVE IInv'
    OBVIOUS
  <1>0. TypeOK /\ RequestInv
    BY DEF IInv
  <1>1. ASSUME NEW c \in Clients, Call(c) PROVE IInv'
    <2>1. PICK f, ks, as : /\ IsRequest(f, ks, as)
                           /\ \/ NewCall(c, f, ks, as, "serving", "SUCCESS")
                              \/ NewCall(c, f, ks, as, "returned", "INVALID_ARG")
      BY <1>1, CallsMakeRequests DEF Send
    <2>2. TypeOK'
      BY <1>0, <2>1, NewCallTypes
    <2>3. RequestInv'
      BY <1>0, <2>1, NewCallRequests
    <2>4. \A d \in Clients : CallOK(d)'
      BY <2>1, NewCallCalls
    <2> QED  BY <2>2, <2>3, <2>4 DEF IInv
  <1>2. ASSUME NEW c \in Clients, Step(c) PROVE IInv'
    BY <1>0, <1>2, StepTypes, StepRequests, StepCalls DEF IInv
  <1>3. CASE UNCHANGED vars
    BY <1>3 DEF vars, IInv, TypeOK, RequestInv, CallOK, Watches, Truthful, ItemStored,
                ValuesSeen, AbsenceSeen
  <1> QED  BY <1>1, <1>2, <1>3 DEF Next, Quiescent

\* The handlers and the client library keep their types: among others, no size is ever
\* reported that is not a number.
THEOREM TypeCorrect == Spec => []TypeOK
  <1>1. IInv => TypeOK
    BY DEF IInv
  <1> QED  BY InitIInv, NextIInv, <1>1, PTL DEF Spec

\* However the handlers of any number of clients interleave, what a put or an erase
\* tells its caller is true.
THEOREM WritesAreReported == Spec => []WritesAreTrue
  <1>1. IInv => WritesAreTrue
    BY DEF IInv, CallOK, WritesAreTrue
  <1> QED  BY InitIInv, NextIInv, <1>1, PTL DEF Spec

-----------------------------------------------------------------------------
(* What reads tell.                                                        *)

\* What may be told of an item may still be told when its history has grown, and when
\* get_packed has found a value that does not fit.
LEMMA JustifiedIsStable ==
  ASSUME NEW c \in Clients, NEW i, i \in DOMAIN req[c].keys, NEW r, Justified(c, i, r),
         req[c].fn \in Reads, req[c].keys \in Seq(Keys), req'[c] = req[c],
         \A k \in Keys : saw[c][k] \subseteq saw'[c][k],
         \/ out'[c] = out[c]
         \/ req[c].fn = "get_packed" /\ ReportOK(c) /\ out'[c] = "SIZE"
  PROVE  Justified(c, i, r)'
  <1>1. req[c].keys[i] \in Keys
    OBVIOUS
  <1>2. ValuesSeen(c, i) \subseteq ValuesSeen(c, i)' /\ (AbsenceSeen(c, i) => AbsenceSeen(c, i)')
    BY <1>1 DEF ValuesSeen, AbsenceSeen
  <1>3. CASE out'[c] = out[c]
    <2>1. CASE req[c].fn = "get"
      BY <1>2, <1>3, <2>1 DEF Justified
    <2>2. CASE req[c].fn = "length"
      BY <1>2, <1>3, <2>2 DEF Justified
    <2>3. CASE req[c].fn \in {"exists", "exists_multi"}
      BY <1>2, <1>3, <2>3 DEF Justified
    <2>4. CASE req[c].fn \in {"length_multi", "length_packed"}
      BY <1>2, <1>3, <2>4 DEF Justified
    <2>5. CASE req[c].fn = "get_multi"
      BY <1>2, <1>3, <2>5 DEF Justified
    <2>6. CASE req[c].fn = "get_packed"
      BY <1>2, <1>3, <2>6 DEF Justified
    <2> QED  BY <2>1, <2>2, <2>3, <2>4, <2>5, <2>6 DEF Reads
  <1>4. CASE req[c].fn = "get_packed" /\ ReportOK(c) /\ out'[c] = "SIZE"
    BY <1>2, <1>4 DEF Justified, ReportOK
  <1> QED  BY <1>3, <1>4

\* A call stays as it is while its history grows.
LEMMA OtherReadStays ==
  ASSUME TypeOK, RequestInv, NEW d \in Clients, ReadOK(d),
         pc'[d] = pc[d], req'[d] = req[d], item'[d] = item[d], out'[d] = out[d],
         lost'[d] = lost[d], res'[d] = res[d], off'[d] = off[d], packed'[d] = packed[d],
         got'[d] = got[d], \A k \in Keys : saw[d][k] \subseteq saw'[d][k]
  PROVE  ReadOK(d)'
  <1>1. req[d].keys \in Seq(Keys) /\ item[d] \in Nat /\ res[d] \in Seq(Int)
    BY DEF TypeOK
  <1>2. ASSUME NEW i, i \in DOMAIN req[d].keys, NEW r, Justified(d, i, r), req[d].fn \in Reads
        PROVE  Justified(d, i, r)'
    BY <1>1, <1>2, JustifiedIsStable
  <1>3. ASSUME pc[d] = "serving", req[d].fn \in Reads, ReadingOK(d) PROVE ReadingOK(d)'
    <2>1. Len(res[d]) = item[d] - 1 /\ item[d] \in 1 .. Len(req[d].keys) + 1
      BY <1>3 DEF ReadingOK, RequestInv
    <2>2. Len(res[d]) \in Nat /\ Len(req[d].keys) \in Nat
      BY <1>1
    <2>3. \A i \in 1 .. Len(res[d]) : i \in 1 .. Len(req[d].keys)
      BY <1>1, <2>1, <2>2
    <2>4. DOMAIN res[d] = 1 .. Len(res[d]) /\ DOMAIN req[d].keys = 1 .. Len(req[d].keys)
      BY <1>1
    <2>5. \A i \in DOMAIN res[d] : Justified(d, i, res[d][i])'
      BY <1>2, <1>3, <2>3, <2>4 DEF ReadingOK
    <2>6. (ReportOK(d) => ReportOK(d)') /\ (PackedOK(d) => PackedOK(d)')
      BY DEF ReportOK, PackedOK
    <2> QED  BY <1>3, <2>5, <2>6 DEF ReadingOK
  <1>4. ASSUME Fresh(d) PROVE Fresh(d)'
    <2> SUFFICES ASSUME req[d].fn \in Reads, out[d] \in {"SUCCESS", "SIZE", "UNKNOWN_KEY"}
                 PROVE  /\ Len(got[d]) = Len(req[d].keys)
                        /\ \A i \in DOMAIN got[d] : Justified(d, i, got[d][i])'
      BY DEF Fresh
    <2>1. /\ Len(got[d]) = Len(req[d].keys)
          /\ \A i \in DOMAIN got[d] : Justified(d, i, got[d][i])
      BY <1>4 DEF Fresh
    <2>2. got[d] \in Seq(Int \cup {None})
      BY DEF TypeOK
    <2>3. DOMAIN got[d] = DOMAIN req[d].keys
      BY <1>1, <2>1, <2>2
    <2> QED  BY <1>2, <2>1, <2>3
  <1>5. Overrun(d)' <=> Overrun(d)
    BY DEF Overrun
  <1> QED  BY <1>3, <1>4, <1>5 DEF ReadOK

\* Step c touches nothing of the other calls but their histories, which grow.
Apart(c) ==
    \A d \in Clients : d # c =>
        /\ pc'[d] = pc[d] /\ req'[d] = req[d] /\ item'[d] = item[d] /\ out'[d] = out[d]
        /\ lost'[d] = lost[d] /\ res'[d] = res[d] /\ off'[d] = off[d]
        /\ packed'[d] = packed[d] /\ got'[d] = got[d]
        /\ \A k \in Keys : saw[d][k] \subseteq saw'[d][k]

LEMMA ApartReads ==
  ASSUME IInv, ReadInv, NEW c \in Clients, Apart(c), ReadOK(c)'
  PROVE  ReadInv'
  <1> SUFFICES ASSUME NEW d \in Clients, d # c PROVE ReadOK(d)'
    BY DEF ReadInv
  <1>1. TypeOK /\ RequestInv /\ ReadOK(d)
    BY DEF IInv, ReadInv
  <1> QED  BY <1>1, OtherReadStays DEF Apart

\* Room for one item more.
LEMMA RoomAppends ==
  ASSUME NEW s \in Seq(Nat \cup {Absent}), NEW r \in Nat \cup {Absent}
  PROVE  /\ Room(s) \in Seq(Nat) /\ Len(Room(s)) = Len(s)
         /\ Room(Append(s, r)) = Append(Room(s), IF r = Absent THEN 0 ELSE r)
  <1>1. Room(s) \in Seq(Nat) /\ Len(Room(s)) = Len(s)
    BY DEF Room
  <1> DEFINE a == Append(s, r)
             b == Append(Room(s), IF r = Absent THEN 0 ELSE r)
  <1>2. a \in Seq(Nat \cup {Absent}) /\ Len(a) = Len(s) + 1 /\ Len(s) \in Nat
        /\ a[Len(s) + 1] = r /\ \A j \in 1 .. Len(s) : a[j] = s[j]
    OBVIOUS
  <1>3. b \in Seq(Nat) /\ Len(b) = Len(s) + 1
        /\ b[Len(s) + 1] = (IF r = Absent THEN 0 ELSE r)
        /\ \A j \in 1 .. Len(s) : b[j] = Room(s)[j]
    BY <1>1
  <1>4. \A j \in 1 .. Len(s) : Room(s)[j] = IF s[j] = Absent THEN 0 ELSE s[j]
    BY DEF Room
  <1> HIDE DEF a, b
  <1>5. Room(a) \in Seq(Nat) /\ Len(Room(a)) = Len(s) + 1
    BY <1>2 DEF Room
  <1>6. \A j \in 1 .. Len(s) + 1 : Room(a)[j] = b[j]
    <2> SUFFICES ASSUME NEW j \in 1 .. Len(s) + 1 PROVE Room(a)[j] = b[j]
      OBVIOUS
    <2>1. Room(a)[j] = IF a[j] = Absent THEN 0 ELSE a[j]
      BY <1>2 DEF Room
    <2>2. j \in 1 .. Len(s) \/ j = Len(s) + 1
      BY <1>2
    <2> QED  BY <1>2, <1>3, <1>4, <2>1, <2>2
  <1>7. Room(a) = b
    BY <1>3, <1>5, <1>6
  <1> QED  BY <1>1, <1>7 DEF a, b

\* A value that is packed at the end is found again, and so are those before it.
LEMMA PackingOne ==
  ASSUME TypeOK, NEW c \in Clients, PackedOK(c), res[c] \in Seq(Nat \cup {Absent}),
         NEW r \in Nat \cup {Absent}, res'[c] = Append(res[c], r),
         off'[c] = off[c] + (IF r = Absent THEN 0 ELSE r),
         packed[c] \subseteq packed'[c],
         r \in {0, Absent} \/ <<off[c], r>> \in packed'[c]
  PROVE  PackedOK(c)'
  <1> DEFINE s == res[c]
             x == IF r = Absent THEN 0 ELSE r
             R == Room(s)
             Q == Room(res'[c])
  <1>1. R \in Seq(Nat) /\ Len(R) = Len(s) /\ Q = Append(R, x) /\ x \in Nat
    BY RoomAppends
  <1>2. /\ \A n \in 1 .. Len(R) + 1 : Offset(Q, n) = Offset(R, n)
        /\ Total(Q) = Total(R) + x /\ Total(R) = Offset(R, Len(R) + 1)
    BY <1>1, OffsetsAppend, OffsetSteps
  <1>3. off[c] = Total(R)
    BY DEF PackedOK
  <1>4. ASSUME NEW i \in 1 .. Len(s) + 1
        PROVE  res'[c][i] \in {0, Absent} \/ <<Offset(Q, i), res'[c][i]>> \in packed'[c]
    <2>1. Offset(Q, i) = Offset(R, i)
      BY <1>1, <1>2
    <2>2. CASE i = Len(s) + 1
      <3>1. res'[c][i] = r /\ Offset(Q, i) = off[c]
        BY <1>1, <1>2, <1>3, <2>1, <2>2
      <3> QED  BY <3>1
    <2>3. CASE i \in 1 .. Len(s)
      <3>1. res'[c][i] = s[i] /\ i \in DOMAIN s
        BY <2>3
      <3>2. s[i] \in {0, Absent} \/ <<Offset(R, i), s[i]>> \in packed[c]
        BY <3>1 DEF PackedOK
      <3> QED  BY <2>1, <3>1, <3>2
    <2>4. Len(s) \in Nat
      OBVIOUS
    <2>5. i = Len(s) + 1 \/ i \in 1 .. Len(s)
      BY <2>4
    <2> QED  BY <2>2, <2>3, <2>5
  <1>5. DOMAIN res'[c] = 1 .. Len(s) + 1
    OBVIOUS
  <1>6. off'[c] = Total(Q)
    BY <1>2, <1>3
  <1> QED  BY <1>4, <1>5, <1>6 DEF PackedOK

\* What the database holds when a handler looks is part of the history of its call.
LEMMA NowSeen ==
  ASSUME IInv, NEW c \in Clients, NEW fs, AtItem(c, fs)
  PROVE  /\ item[c] \in 1 .. Len(req[c].keys) /\ pc[c] = "serving" /\ req[c].fn \in fs
         /\ DOMAIN req[c].keys = 1 .. Len(req[c].keys)
         /\ kv[key(c)] \in Sizes \cup {None} /\ kv[key(c)] \in saw[c][req[c].keys[item[c]]]
  <1>1. TypeOK /\ RequestInv
    BY DEF IInv
  <1>2. /\ item[c] \in 1 .. Len(req[c].keys) /\ pc[c] = "serving" /\ req[c].fn \in fs
        /\ kv[key(c)] \in Sizes \cup {None} /\ key(c) \in Keys
    BY <1>1, ItemAdvances, ItemTypes DEF AtItem
  <1>3. req[c].keys \in Seq(Keys)
    BY <1>1 DEF TypeOK
  <1>4. DOMAIN req[c].keys = 1 .. Len(req[c].keys)
    BY <1>3
  <1>5. Watches(c, key(c))
    BY <1>2, <1>4 DEF Watches, key
  <1>6. kv[key(c)] \in saw[c][key(c)]
    BY <1>2, <1>5 DEF IInv, CallOK
  <1> QED  BY <1>2, <1>4, <1>6 DEF key

\* The handler of a read finds one thing out, r, which may be told.
LEMMA ReadingOne ==
  ASSUME IInv, ReadInv, NEW c \in Clients, NEW fs \in SUBSET Reads, AtItem(c, fs),
         UNCHANGED <<database, pc, req, saw, lost, got>>,
         NEW r \in Nat \cup {Absent}, Found(c, r), NEW i, i = item[c],
         \/ out'[c] = out[c] \/ Len(req[c].keys) = 1
         \/ req[c].fn = "get_packed" /\ out'[c] = "SIZE",
         ReportOK(c)', Justified(c, i, r)',
         req[c].fn \in {"get_multi", "get_packed"} => PackedOK(c)'
  PROVE  ReadOK(c)'
  <1>1. /\ i \in 1 .. Len(req[c].keys) /\ pc[c] = "serving" /\ req[c].fn \in Reads
        /\ DOMAIN req[c].keys = 1 .. Len(req[c].keys)
    BY NowSeen
  <1>2. ReadingOK(c)
    BY <1>1 DEF ReadInv, ReadOK
  <1>3. item'[c] = item[c] + 1 /\ res'[c] = Append(res[c], r) /\ i \in Nat
    BY <1>1 DEF AtItem, Found, IInv, TypeOK
  <1>4. res[c] \in Seq(Nat \cup {Absent}) /\ Len(res[c]) = i - 1
    BY <1>2 DEF ReadingOK
  <1>5. /\ res'[c] \in Seq(Nat \cup {Absent}) /\ Len(res'[c]) = i /\ res'[c][i] = r
        /\ DOMAIN res'[c] = 1 .. i /\ \A j \in 1 .. i - 1 : res'[c][j] = res[c][j]
    <2>1. Len(res[c]) + 1 = i
      BY <1>3, <1>4
    <2> QED  BY <1>3, <1>4, <2>1
  <1>6. ASSUME NEW j \in 1 .. i PROVE Justified(c, j, res[c][j])'
    <2>1. CASE j = i
      BY <1>5, <2>1
    <2>2. CASE j # i
      <3>1. j \in 1 .. i - 1 /\ j \in DOMAIN req[c].keys /\ j \in DOMAIN res[c]
        BY <1>1, <1>3, <1>4, <2>2
      <3>2. PICK q : q = res[c][j] /\ q = res'[c][j]
        BY <1>5, <3>1
      <3>3. Justified(c, j, q) /\ ReportOK(c)
        BY <1>2, <3>1, <3>2 DEF ReadingOK
      <3>4. Len(req[c].keys) # 1
        <4>1. Len(req[c].keys) \in Nat
          BY DEF IInv, TypeOK
        <4>2. i \in 1 .. Len(req[c].keys) /\ j \in 1 .. i - 1 /\ i \in Nat
          BY <1>1, <1>3, <3>1
        <4>3. i >= 2
          BY ONLY <4>2
        <4>4. PICK n \in Nat : n = Len(req[c].keys)
          BY <4>1
        <4>5. i \in 1 .. n
          BY <4>2, <4>4
        <4>6. n # 1
          BY <4>3, <4>5
        <4> QED  BY <4>4, <4>6
      <3>5. req[c].keys \in Seq(Keys)
        BY DEF IInv, TypeOK
      <3>6. Justified(c, j, q)'
        BY <1>1, <3>1, <3>3, <3>4, <3>5, JustifiedIsStable
      <3> QED  BY <3>2, <3>6
    <2> QED  BY <2>1, <2>2
  <1>7. ReadingOK(c)'
    <2>1. req'[c].fn = "get_packed" => Len(req'[c].arg) = 1
      BY <1>2 DEF ReadingOK
    <2>2. Len(res'[c]) = item'[c] - 1
      BY <1>3, <1>5
    <2> QED  BY <1>5, <1>6, <2>1, <2>2 DEF ReadingOK
  <1> QED  BY <1>1, <1>7 DEF ReadOK

\* A step at an item concerns no other call.
LEMMA ReadingApart ==
  ASSUME IInv, NEW c \in Clients, NEW fs, AtItem(c, fs), NEW r, Found(c, r),
         UNCHANGED <<pc, req, saw, lost, got>>,
         \A d \in Clients : d # c => out'[d] = out[d] /\ off'[d] = off[d] /\ packed'[d] = packed[d]
  PROVE  Apart(c)
  BY DEF Apart, AtItem, Found, IInv, TypeOK

\* Every handler that reads tells what is right of the item it is at.
LEMMA ReadingSteps ==
  ASSUME IInv, ReadInv, NEW c \in Clients,
         GetItem(c) \/ GetMultiItem(c) \/ GetPackedItem(c) \/ LengthItem(c) \/ ExistsItem(c)
  PROVE  ReadInv'
  <1>0. /\ out \in [Clients -> Codes] /\ mem[c] \in Nat /\ off \in [Clients -> Nat]
        /\ packed \in [Clients -> SUBSET (Nat \X Nat)] /\ TypeOK /\ RequestInv
    BY DEF IInv, TypeOK
  <1>s. \A v \in Sizes : v \in Nat /\ v # None
    BY SizesAreNumbers
  <1>1. CASE GetItem(c)
    <2>1. AtItem(c, {"get"}) /\ UNCHANGED <<database, pc, req, saw, lost, got, packed, off>>
      BY <1>1 DEF GetItem
    <2>2. PICK i, v, a : i = item[c] /\ v = kv[key(c)] /\ a = arg(c)
      OBVIOUS
    <2>3. /\ i \in 1 .. Len(req[c].keys) /\ req[c].fn = "get" /\ pc[c] = "serving"
          /\ v \in Sizes \cup {None} /\ v \in saw[c][req[c].keys[i]]
      BY <2>1, <2>2, NowSeen
    <2>4. Len(req[c].keys) = 1 /\ i = 1
      <3>1. Len(req[c].keys) = 1
        BY <1>0, <2>3 DEF RequestInv
      <3> QED  BY <2>3, <3>1
    <2>5. a = req[c].arg[1] /\ a \in Sizes /\ a \in Nat
      <3>1. arg(c) \in Sizes
        BY <1>0, <2>1, ItemTypes
      <3> QED  BY <1>s, <2>2, <2>4, <3>1 DEF arg
    <2>6. PICK r \in Nat : r = (IF v = None THEN 0 ELSE v)
      BY <1>s, <2>3
    <2>7. /\ Found(c, r)
          /\ out'[c] = IF v = None THEN "UNKNOWN_KEY" ELSE IF v <= a THEN "SUCCESS" ELSE "SIZE"
          /\ \A d \in Clients : d # c => out'[d] = out[d]
      BY <1>0, <1>1, <2>2, <2>6 DEF GetItem, Report
    <2>8. ReportOK(c)' /\ Justified(c, i, r)'
      <3>1. ReportOK(c)'
        BY <2>1, <2>3, <2>7 DEF ReportOK
      <3>2. CASE v = None
        <4>1. AbsenceSeen(c, i)' /\ req'[c].fn = "get" /\ out'[c] = "UNKNOWN_KEY"
          BY <2>1, <2>3, <2>7, <3>2 DEF AbsenceSeen
        <4> QED  BY <3>1, <4>1 DEF Justified
      <3>3. CASE v # None
        <4>1. v \in Nat /\ r = v /\ r \in ValuesSeen(c, i)'
          BY <1>s, <2>1, <2>3, <2>6, <3>3 DEF ValuesSeen
        <4>2. req'[c].fn = "get" /\ req'[c].arg[1] = a
          BY <2>1, <2>3, <2>5
        <4>3. \/ out'[c] = "SUCCESS" /\ r <= a
              \/ out'[c] = "SIZE" /\ r > a
          BY <2>5, <2>7, <3>3, <4>1
        <4> QED  BY <3>1, <4>1, <4>2, <4>3 DEF Justified
      <3> QED  BY <3>2, <3>3
    <2>9. ReadOK(c)'
      BY <2>1, <2>2, <2>3, <2>4, <2>7, <2>8, ReadingOne DEF Reads
    <2>10. Apart(c)
      BY <2>1, <2>7, ReadingApart
    <2> QED  BY <2>9, <2>10, ApartReads
  <1>2. CASE GetMultiItem(c)
    <2>1. AtItem(c, {"get_multi"}) /\ UNCHANGED <<database, pc, req, saw, lost, got, out>>
      BY <1>2 DEF GetMultiItem
    <2>2. PICK i, v, a : i = item[c] /\ v = kv[key(c)] /\ a = arg(c)
      OBVIOUS
    <2>3. /\ i \in 1 .. Len(req[c].keys) /\ req[c].fn = "get_multi" /\ pc[c] = "serving"
          /\ v \in Sizes \cup {None} /\ v \in saw[c][req[c].keys[i]]
      BY <2>1, <2>2, NowSeen
    <2>4. a = req[c].arg[i] /\ a \in Sizes
      BY <1>0, <2>1, <2>2, ItemTypes DEF arg
    <2>5. PICK r \in Nat : r = (IF v # None /\ v <= a THEN v ELSE 0)
      BY <1>s, <2>3
    <2>6. /\ Found(c, r) /\ packed' = [packed EXCEPT ![c] = @ \cup {<<off[c], r>>}]
          /\ off' = [off EXCEPT ![c] = @ + r]
      BY <1>2, <2>2, <2>5 DEF GetMultiItem
    <2>7. ReadingOK(c)
      BY <2>3 DEF ReadInv, ReadOK, Reads
    <2>8. ReportOK(c)'
      BY <2>1, <2>7 DEF ReadingOK, ReportOK
    <2>9. Justified(c, i, r)'
      <3>1. CASE v = None
        BY <2>1, <2>3, <2>5, <3>1 DEF Justified, AbsenceSeen
      <3>2. CASE v # None /\ v <= a
        BY <1>s, <2>1, <2>3, <2>4, <2>5, <3>2 DEF Justified, ValuesSeen
      <3>3. CASE v # None /\ ~(v <= a)
        <4>0. v \in Nat /\ a \in Nat /\ r = 0
          BY <1>s, <2>3, <2>4, <2>5, <3>3
        <4>1. v > a /\ r = 0
          BY <3>3, <4>0
        <4>2. v \in ValuesSeen(c, i)' /\ a = req'[c].arg[i]
          BY <2>1, <2>3, <2>4, <3>3 DEF ValuesSeen
        <4> QED  BY <2>1, <2>3, <4>1, <4>2 DEF Justified
      <3> QED  BY <3>1, <3>2, <3>3
    <2>10. PackedOK(c)'
      <3>1. PackedOK(c) /\ res[c] \in Seq(Nat \cup {Absent})
        BY <2>3, <2>7 DEF ReadingOK
      <3>2. /\ res'[c] = Append(res[c], r) /\ off'[c] = off[c] + r
            /\ packed'[c] = packed[c] \cup {<<off[c], r>>}
        BY <1>0, <2>6 DEF Found, TypeOK
      <3>3. r # Absent
        OBVIOUS
      <3> QED  BY <1>0, <3>1, <3>2, <3>3, PackingOne
    <2>11. ReadOK(c)'
      BY <2>1, <2>2, <2>3, <2>6, <2>8, <2>9, <2>10, ReadingOne DEF Reads
    <2>12. Apart(c)
      BY <1>0, <2>1, <2>6, ReadingApart
    <2> QED  BY <2>11, <2>12, ApartReads
  <1>3. CASE GetPackedItem(c)
    <2>1. AtItem(c, {"get_packed"}) /\ UNCHANGED <<database, pc, req, saw, lost, got>>
      BY <1>3 DEF GetPackedItem
    <2>2. PICK i, v : i = item[c] /\ v = kv[key(c)]
      OBVIOUS
    <2>3. /\ i \in 1 .. Len(req[c].keys) /\ req[c].fn = "get_packed" /\ pc[c] = "serving"
          /\ v \in Sizes \cup {None} /\ v \in saw[c][req[c].keys[i]]
      BY <2>1, <2>2, NowSeen
    <2>4. ReadingOK(c)
      BY <2>3 DEF ReadInv, ReadOK, Reads
    <2>5. ReportOK(c) /\ PackedOK(c) /\ res[c] \in Seq(Nat \cup {Absent}) /\ off[c] \in Nat
      BY <1>0, <2>3, <2>4 DEF ReadingOK
    <2>6. PICK r \in Nat \cup {Absent} :
              /\ Found(c, r)
              /\ \/ r = 0 /\ Report(c, "SIZE") /\ UNCHANGED <<packed, off>>
                 \/ /\ v # None /\ r = v /\ UNCHANGED out
                    /\ packed' = [packed EXCEPT ![c] = @ \cup {<<off[c], v>>}]
                    /\ off' = [off EXCEPT ![c] = @ + v]
                 \/ v = None /\ r = Absent /\ UNCHANGED <<out, packed, off>>
      <3>1. CASE Found(c, 0) /\ Report(c, "SIZE") /\ UNCHANGED <<packed, off>>
        BY <3>1
      <3>2. CASE /\ v # None /\ Found(c, v) /\ UNCHANGED out
                 /\ packed' = [packed EXCEPT ![c] = @ \cup {<<off[c], v>>}]
                 /\ off' = [off EXCEPT ![c] = @ + v]
        BY <1>s, <2>3, <3>2
      <3>3. CASE v = None /\ Found(c, Absent) /\ UNCHANGED <<out, packed, off>>
        BY <3>3
      <3> QED  BY <1>3, <2>2, <3>1, <3>2, <3>3 DEF GetPackedItem
    <2>7. /\ out'[c] = out[c] \/ (r = 0 /\ out'[c] = "SIZE")
          /\ \A d \in Clients : d # c => out'[d] = out[d]
      BY <1>0, <2>6 DEF Report
    <2>8. ReportOK(c)'
      BY <2>1, <2>3, <2>5, <2>7 DEF ReportOK
    <2>9. Justified(c, i, r)'
      <3>1. CASE r = 0 /\ Report(c, "SIZE")
        BY <1>0, <2>1, <2>3, <3>1 DEF Justified, Report
      <3>2. CASE v # None /\ r = v
        BY <2>1, <2>3, <3>2 DEF Justified, ValuesSeen
      <3>3. CASE v = None /\ r = Absent
        BY <2>1, <2>3, <3>3 DEF Justified, AbsenceSeen
      <3> QED  BY <2>6, <3>1, <3>2, <3>3
    <2>10. PackedOK(c)'
      <3>1. res'[c] = Append(res[c], r)
        BY <1>0, <2>6 DEF Found, TypeOK
      <3>2. /\ off'[c] = off[c] + (IF r = Absent THEN 0 ELSE r)
            /\ packed[c] \subseteq packed'[c]
            /\ r \in {0, Absent} \/ <<off[c], r>> \in packed'[c]
        <4>1. CASE r = 0 /\ UNCHANGED <<packed, off>>
          BY <2>5, <4>1
        <4>2. CASE /\ v # None /\ r = v
                   /\ packed' = [packed EXCEPT ![c] = @ \cup {<<off[c], v>>}]
                   /\ off' = [off EXCEPT ![c] = @ + v]
          <5>1. r # Absent
            BY <1>s, <2>3, <4>2
          <5> QED  BY <1>0, <4>2, <5>1
        <4>3. CASE r = Absent /\ UNCHANGED <<packed, off>>
          BY <2>5, <4>3
        <4> QED  BY <2>6, <4>1, <4>2, <4>3
      <3> QED  BY <1>0, <2>5, <3>1, <3>2, PackingOne
    <2>11. ReadOK(c)'
      BY <2>1, <2>2, <2>3, <2>6, <2>7, <2>8, <2>9, <2>10, ReadingOne DEF Reads
    <2>12. Apart(c)
      BY <1>0, <2>1, <2>6, <2>7, ReadingApart
    <2> QED  BY <2>11, <2>12, ApartReads
  <1>4. CASE LengthItem(c)
    <2>1. /\ AtItem(c, {"length", "length_multi", "length_packed"})
          /\ UNCHANGED <<database, pc, req, saw, lost, got, packed, off>>
      BY <1>4 DEF LengthItem
    <2>2. PICK i, v : i = item[c] /\ v = kv[key(c)]
      OBVIOUS
    <2>3. /\ i \in 1 .. Len(req[c].keys) /\ pc[c] = "serving"
          /\ req[c].fn \in {"length", "length_multi", "length_packed"}
          /\ v \in Sizes \cup {None} /\ v \in saw[c][req[c].keys[i]]
      BY <2>1, <2>2, NowSeen
    <2>4. PICK r \in Nat : r = (IF v = None THEN 0 ELSE v)
      BY <1>s, <2>3
    <2>5. /\ Found(c, r)
          /\ out'[c] = IF v = None /\ req[c].fn = "length" THEN "UNKNOWN_KEY" ELSE out[c]
          /\ \A d \in Clients : d # c => out'[d] = out[d]
      BY <1>0, <1>4, <2>2, <2>4 DEF LengthItem, Report
    <2>6. ReportOK(c)
      BY <2>3 DEF ReadInv, ReadOK, Reads, ReadingOK
    <2>7. req[c].fn = "length" => Len(req[c].keys) = 1 /\ out[c] = "SUCCESS"
      <3>1. req[c].fn = "length" => Len(req[c].keys) = 1
        BY <1>0, <2>3 DEF RequestInv
      <3>2. Len(req[c].keys) = 1 => i = 1
        BY <2>3
      <3> QED  BY <2>2, <2>3, <3>1, <3>2 DEF IInv, CallOK
    <2>8. ReportOK(c)'
      BY <2>1, <2>5, <2>6 DEF ReportOK
    <2>9. Justified(c, i, r)'
      <3>1. CASE v = None
        BY <2>1, <2>3, <2>4, <2>5, <3>1 DEF Justified, AbsenceSeen
      <3>2. CASE v # None
        BY <2>1, <2>3, <2>4, <2>5, <2>7, <3>2 DEF Justified, ValuesSeen
      <3> QED  BY <3>1, <3>2
    <2>10. out'[c] = out[c] \/ Len(req[c].keys) = 1
      BY <2>5, <2>7
    <2>11. ReadOK(c)'
      BY <2>1, <2>2, <2>3, <2>5, <2>8, <2>9, <2>10, ReadingOne DEF Reads
    <2>12. Apart(c)
      BY <2>1, <2>5, ReadingApart
    <2> QED  BY <2>11, <2>12, ApartReads
  <1>5. CASE ExistsItem(c)
    <2>1. /\ AtItem(c, {"exists", "exists_multi"})
          /\ UNCHANGED <<database, pc, req, saw, lost, got, packed, off, out>>
      BY <1>5 DEF ExistsItem
    <2>2. PICK i, v : i = item[c] /\ v = kv[key(c)]
      OBVIOUS
    <2>3. /\ i \in 1 .. Len(req[c].keys) /\ pc[c] = "serving"
          /\ req[c].fn \in {"exists", "exists_multi"}
          /\ v \in Sizes \cup {None} /\ v \in saw[c][req[c].keys[i]]
      BY <2>1, <2>2, NowSeen
    <2>4. PICK r \in Nat : r = (IF v = None THEN 0 ELSE 1)
      OBVIOUS
    <2>5. Found(c, r)
      BY <1>5, <2>2, <2>4 DEF ExistsItem
    <2>6. ReportOK(c)'
      BY <2>1, <2>3 DEF ReadInv, ReadOK, Reads, ReadingOK, ReportOK
    <2>7. Justified(c, i, r)'
      <3>1. CASE v = None
        BY <2>1, <2>3, <2>4, <3>1 DEF Justified, AbsenceSeen
      <3>2. CASE v # None
        BY <2>1, <2>3, <2>4, <3>2 DEF Justified, ValuesSeen
      <3> QED  BY <3>1, <3>2
    <2>8. ReadOK(c)'
      BY <2>1, <2>2, <2>3, <2>5, <2>6, <2>7, ReadingOne DEF Reads
    <2>9. Apart(c)
      BY <2>1, <2>5, ReadingApart
    <2> QED  BY <2>8, <2>9, ApartReads
  <1> QED  BY <1>1, <1>2, <1>3, <1>4, <1>5

\* A new call has found nothing out yet.
LEMMA NewCallReads ==
  ASSUME IInv, ReadInv, NEW c \in Clients, NEW f, NEW ks, NEW as, IsRequest(f, ks, as),
         \/ NewCall(c, f, ks, as, "serving", "SUCCESS")
         \/ NewCall(c, f, ks, as, "returned", "INVALID_ARG")
  PROVE  ReadInv'
  <1>1. Apart(c)
    <2>1. /\ UNCHANGED <<item, res, off, packed, got, lost>>
          /\ \A d \in Clients : d # c =>
                 pc'[d] = pc[d] /\ req'[d] = req[d] /\ out'[d] = out[d] /\ saw'[d] = saw[d]
      BY DEF NewCall, IInv, TypeOK
    <2> QED  BY <2>1 DEF Apart
  <1>2. /\ pc[c] = "idle" /\ UNCHANGED <<item, res, off, packed, got, lost>>
        /\ req'[c] = [fn |-> f, keys |-> ks, arg |-> as]
        /\ \/ pc'[c] = "serving" /\ out'[c] = "SUCCESS"
           \/ pc'[c] = "returned" /\ out'[c] = "INVALID_ARG"
    BY DEF NewCall, IInv, TypeOK
  <1>3. res[c] = <<>> /\ off[c] = 0 /\ item[c] = 1
    BY <1>2 DEF ReadInv, ReadOK, IInv, RequestInv
  <1>4. ASSUME pc'[c] = "serving" PROVE ReadingOK(c)'
    <2>1. res'[c] = <<>> /\ off'[c] = 0 /\ item'[c] = 1 /\ out'[c] = "SUCCESS"
      BY <1>2, <1>3, <1>4
    <2>2. Room(<<>>) = <<>>
      BY DEF Room
    <2>3. Total(<<>>) = 0
      <3>1. <<>> \in Seq(Nat) /\ Len(<<>>) + 1 = 1
        OBVIOUS
      <3> QED  BY <3>1, OffsetSteps
    <2>4. PackedOK(c)'
      BY <2>1, <2>2, <2>3 DEF PackedOK
    <2>5. ReportOK(c)'
      BY <2>1 DEF ReportOK
    <2>6. req'[c].fn = "get_packed" => Len(req'[c].arg) = 1
      <3>1. req'[c].fn = f /\ req'[c].arg = as
        BY <1>2
      <3>2. f = "get_packed" => Len(as) = 1
        BY DEF IsRequest
      <3> QED  BY <3>1, <3>2
    <2> QED  BY <2>1, <2>4, <2>5, <2>6 DEF ReadingOK
  <1>5. pc'[c] = "returned" => Fresh(c)'
    BY <1>2 DEF Fresh
  <1>6. ReadOK(c)'
    BY <1>2, <1>4, <1>5 DEF ReadOK
  <1> QED  BY <1>1, <1>6, ApartReads

\* A handler that writes is not one that reads.
LEMMA WritingReads ==
  ASSUME IInv, ReadInv, NEW c \in Clients, PutItem(c) \/ EraseItem(c)
  PROVE  ReadInv'
  <1>1. /\ pc[c] = "serving" /\ req[c].fn \notin Reads
        /\ UNCHANGED <<pc, req, res, packed, off, got, lost>>
    BY DEF PutItem, EraseItem, AtItem, Reads
  <1>2. \A d \in Clients : d # c => out'[d] = out[d] /\ item'[d] = item[d]
    BY DEF PutItem, EraseItem, Report, AtItem, IInv, TypeOK
  <1>3. \A d \in Clients, k \in Keys : saw[d][k] \subseteq saw'[d][k]
    <2>1. CASE saw' = saw
      BY <2>1
    <2>2. ASSUME NEW k, NEW w, Store(k, w)
          PROVE  \A d \in Clients, l \in Keys : saw[d][l] \subseteq saw'[d][l]
      BY <2>2 DEF Store, IInv, TypeOK
    <2>3. saw' = saw \/ \E k, w : Store(k, w)
      BY DEF PutItem, StoreItem, EraseItem
    <2> QED  BY <2>1, <2>2, <2>3
  <1>4. Apart(c)
    BY <1>1, <1>2, <1>3 DEF Apart
  <1>5. ReadOK(c)'
    BY <1>1 DEF ReadOK
  <1> QED  BY <1>4, <1>5, ApartReads

\* What the caller receives is what the handler has found out.
LEMMA ReceivedIsFound ==
  ASSUME IInv, NEW c \in Clients, ReadingOK(c), ~Overrun(c), pc[c] = "serving",
         req[c].fn \in Reads, out[c] \in {"SUCCESS", "SIZE", "UNKNOWN_KEY"}
  PROVE  Received(c) = res[c]
  <1>1. CASE req[c].fn \notin {"get_multi", "get_packed"}
    BY <1>1 DEF Received
  <1>2. CASE req[c].fn \in {"get_multi", "get_packed"}
    <2> DEFINE s == res[c]
               R == Room(s)
    <2>1. s \in Seq(Nat \cup {Absent}) /\ PackedOK(c)
      BY <1>2 DEF ReadingOK
    <2>2. R \in Seq(Nat) /\ Len(R) = Len(s)
      BY <2>1, RoomAppends
    <2>3. ASSUME NEW i \in DOMAIN s PROVE At(Pushed(c), Offset(R, i), s[i]) = s[i]
      <3>1. CASE s[i] \in {0, Absent}
        BY <3>1 DEF At
      <3>2. CASE s[i] \notin {0, Absent}
        <4>1. <<Offset(R, i), s[i]>> \in packed[c]
          BY <2>1, <3>2 DEF PackedOK
        <4>2. i \in 1 .. Len(s) /\ s[i] \in Nat
          BY <2>1, <3>2
        <4>3. R[i] = s[i]
          BY <3>2 DEF Room
        <4>4. Offset(R, i) + s[i] <= off[c]
          <5>1. off[c] = Total(R)
            BY <2>1 DEF PackedOK
          <5>2. i \in 1 .. Len(R) /\ i + 1 \in i + 1 .. Len(R) + 1
            BY <2>2, <4>2
          <5>3. Offset(R, i) + R[i] <= Offset(R, i + 1) /\ Offset(R, i + 1) <= Total(R)
            BY <2>2, <5>2, BuffersApart
          <5>4. Offset(R, i) \in Nat /\ Offset(R, i + 1) \in Nat /\ Total(R) \in Nat
            <6>1. /\ i \in 1 .. Len(R) + 1 /\ i + 1 \in 1 .. Len(R) + 1
                  /\ Len(R) + 1 \in 1 .. Len(R) + 1
              BY <2>2, <5>2
            <6> QED  BY <2>2, <6>1, OffsetSteps
          <5> QED  BY <4>2, <4>3, <5>1, <5>3, <5>4
        <4>5. <<Offset(R, i), s[i]>> \in Pushed(c)
          <5>1. CASE req[c].fn = "get_multi"
            BY <4>1, <5>1 DEF Pushed
          <5>2. CASE req[c].fn = "get_packed"
            <6>1. PICK o, n, b : o = Offset(R, i) /\ n = s[i] /\ b = req[c].arg[1]
              OBVIOUS
            <6>2. o \in Nat /\ n \in Nat
              BY <4>1, <6>1 DEF IInv, TypeOK
            <6>3. b \in Nat
              <7>1. req[c].arg \in Seq(Sizes) /\ Len(req[c].arg) = 1
                BY <5>2 DEF IInv, TypeOK, ReadingOK
              <7>2. b \in Sizes
                BY <6>1, <7>1
              <7> QED  BY <7>2, SizesAreNumbers
            <6>4. off[c] <= b /\ off[c] \in Nat
              <7>1. off[c] \in Nat
                BY DEF IInv, TypeOK
              <7>2. ~(off[c] > b)
                BY <5>2, <6>1 DEF Overrun
              <7> QED  BY <6>3, <7>1, <7>2
            <6>5. o + n <= b
              BY <4>4, <6>1, <6>2, <6>3, <6>4
            <6>6. <<o, n>>[1] = o /\ <<o, n>>[2] = n
              OBVIOUS
            <6> QED  BY <4>1, <5>2, <6>1, <6>5, <6>6 DEF Pushed
          <5> QED  BY <1>2, <5>1, <5>2
        <4> QED  BY <4>5 DEF At
      <3> QED  BY <3>1, <3>2
    <2>4. Received(c) = [i \in DOMAIN s |-> At(Pushed(c), Offset(R, i), s[i])]
      BY <1>2 DEF Received
    <2>5. s = [i \in DOMAIN s |-> s[i]]
      BY <2>1
    <2> QED  BY <2>3, <2>4, <2>5, Zenon
  <1> QED  BY <1>1, <1>2

\* The end of a call.
LEMMA EndingReads ==
  ASSUME IInv, ReadInv, NEW c \in Clients,
         Refuse(c) \/ PushFails(c) \/ Return(c) \/ TransportFails(c) \/ Forget(c)
  PROVE  ReadInv'
  <1>0. TypeOK /\ RequestInv /\ CallOK(c) /\ ReadOK(c)
    BY DEF IInv, ReadInv
  <1>1. Apart(c)
    BY <1>0 DEF Apart, TypeOK, Refuse, PushFails, Return, TransportFails, Forget, Report
  <1>2. CASE Refuse(c) \/ PushFails(c)
    <2>1. pc'[c] = "answered"
      BY <1>0, <1>2 DEF Refuse, PushFails, TypeOK
    <2>2. ReadOK(c)'
      BY <2>1 DEF ReadOK
    <2> QED  BY <1>1, <2>2, ApartReads
  <1>3. CASE Return(c)
    <2>1. /\ pc'[c] = "returned" /\ got'[c] = Received(c) /\ pc[c] \in {"serving", "answered"}
          /\ UNCHANGED <<req, out, res, off, saw, lost>>
      BY <1>0, <1>3 DEF Return, TypeOK, ItemsDone
    <2>2. ASSUME ~Overrun(c), req[c].fn \in Reads, out[c] \in {"SUCCESS", "SIZE", "UNKNOWN_KEY"}
          PROVE  /\ Len(got'[c]) = Len(req[c].keys)
                 /\ \A i \in DOMAIN got'[c] : Justified(c, i, got[c][i])'
      <3>1. ItemsDone(c) /\ pc[c] = "serving"
        BY <1>0, <1>3, <2>2 DEF Return, CallOK, ItemsDone
      <3>2. ReadingOK(c)
        BY <1>0, <2>2, <3>1 DEF ReadOK
      <3>3. got'[c] = res[c]
        BY <2>1, <2>2, <3>1, <3>2, ReceivedIsFound
      <3>4. Len(res[c]) = Len(req[c].keys)
        <4>1. item[c] > Len(req[c].keys) /\ item[c] \in 1 .. Len(req[c].keys) + 1
          BY <1>0, <3>1 DEF ItemsDone, RequestInv
        <4>2. Len(req[c].keys) \in Nat /\ Len(res[c]) = item[c] - 1
          BY <1>0, <3>2 DEF TypeOK, ReadingOK
        <4>3. item[c] = Len(req[c].keys) + 1
          BY <4>1, <4>2
        <4> QED  BY <4>2, <4>3
      <3>5. \A i \in DOMAIN res[c] : Justified(c, i, res[c][i])
        BY <3>2 DEF ReadingOK
      <3>6. ASSUME NEW i \in DOMAIN res[c] PROVE Justified(c, i, got[c][i])'
        <4>1. PICK r : r = res[c][i] /\ r = got'[c][i]
          BY <3>3
        <4>2. Justified(c, i, r)
          BY <3>5, <4>1
        <4>3. Justified(c, i, r)'
          BY <2>1, <4>2 DEF Justified, ValuesSeen, AbsenceSeen
        <4> QED  BY <4>1, <4>3
      <3> QED  BY <3>3, <3>4, <3>6
    <2>3. Overrun(c)' <=> Overrun(c)
      BY <2>1 DEF Overrun
    <2>4. ~Overrun(c)' => Fresh(c)'
      BY <2>1, <2>2, <2>3 DEF Fresh
    <2>5. ReadOK(c)'
      BY <2>1, <2>4 DEF ReadOK
    <2> QED  BY <1>1, <2>5, ApartReads
  <1>4. CASE TransportFails(c)
    <2>1. pc'[c] = "returned" /\ lost'[c] = TRUE
      BY <1>0, <1>4 DEF TransportFails, TypeOK
    <2>2. ReadOK(c)'
      BY <2>1 DEF ReadOK
    <2> QED  BY <1>1, <2>2, ApartReads
  <1>5. CASE Forget(c)
    <2>1. pc'[c] = "idle" /\ res'[c] = <<>> /\ off'[c] = 0
      BY <1>0, <1>5 DEF Forget, TypeOK
    <2>2. ReadOK(c)'
      BY <2>1 DEF ReadOK
    <2> QED  BY <1>1, <2>2, ApartReads
  <1> QED  BY <1>2, <1>3, <1>4, <1>5

LEMMA InitReads == Init => ReadInv
  BY DEF Init, ReadInv, ReadOK

LEMMA NextReads == IInv /\ ReadInv /\ [Next]_vars => ReadInv'
  <1> SUFFICES ASSUME IInv, ReadInv, [Next]_vars PROVE ReadInv'
    OBVIOUS
  <1>1. ASSUME NEW c \in Clients, Call(c) PROVE ReadInv'
    <2>1. PICK f, ks, as : /\ IsRequest(f, ks, as)
                           /\ \/ NewCall(c, f, ks, as, "serving", "SUCCESS")
                              \/ NewCall(c, f, ks, as, "returned", "INVALID_ARG")
      BY <1>1, CallsMakeRequests DEF Send
    <2> QED  BY <2>1, NewCallReads
  <1>2. ASSUME NEW c \in Clients, Step(c) PROVE ReadInv'
    BY <1>2, ReadingSteps, WritingReads, EndingReads DEF Step
  <1>3. CASE UNCHANGED vars
    <2> SUFFICES ASSUME NEW d \in Clients PROVE ReadOK(d)'
      BY DEF ReadInv
    <2>1. TypeOK /\ RequestInv /\ ReadOK(d)
      BY DEF IInv, ReadInv
    <2> QED  BY <1>3, <2>1, OtherReadStays DEF vars
  <1> QED  BY <1>1, <1>2, <1>3 DEF Next, Quiescent

\* However the handlers of any number of clients interleave, for batches of any length:
\* what a read tells of each key was true of that key during the call, at the index of
\* that key, and the values of get_multi and get_packed are found where they were packed.
THEOREM ReadsAreJustified == Spec => []ReadsAreFresh
  <1>1. ReadInv => ReadsAreFresh
    BY DEF ReadInv, ReadOK, ReadsAreFresh
  <1> QED  BY InitIInv, NextIInv, InitReads, NextReads, <1>1, PTL DEF Spec

=============================================================================
