------------------------------ MODULE DataRpc -------------------------------
(***************************************************************************)
(* The data RPCs: the functions of the client library that put, get,       *)
(* measure, test and erase one key or many, and the handlers that serve    *)
(* them on one database.                                                   *)
(*                                                                         *)
(* A handler works through the keys of its request one by one, and other   *)
(* handlers run in between; each call on the database takes effect at once *)
(* (DataStoreProofs!CallsAreAtomic).  The transport can fail before the    *)
(* request is served, while data is moved, or after it is answered.  Puts  *)
(* and erases can fail; a read that the storage library fails, which the   *)
(* backends report as a key that is absent or a value that is empty        *)
(* (KVStore), is left out here.                                            *)
(*                                                                         *)
(* A value stands for its size, the only thing the handlers look at.  The  *)
(* keys, sizes and flags of a batch travel in arrays that are read by the  *)
(* index of the item.  The values of get_multi and get_packed are packed   *)
(* back to back, and are found again by adding up sizes: Packed values are *)
(* pairs of an offset and a size.                                          *)
(***************************************************************************)
EXTENDS Integers, Sequences, FiniteSets, Layout

CONSTANTS
    Clients,    \* threads of clients, each with one call at a time
    Keys,
    EmptyKeys,  \* the keys of size 0
    Sizes,      \* values, that is their sizes, and sizes of buffers
    EagerSize,  \* the largest value that fits in MAX_RPC_MESSAGE_SIZE
    Functions,  \* Functions[c]: the functions that client c calls
    MaxItems,   \* bound: keys of a batch
    MaxCalls,   \* bound: calls of one client
    None

Single == {"put", "get", "length", "exists", "erase"}
Multi  == {"put_multi", "get_multi", "length_multi", "exists_multi", "erase_multi"}
Packed == {"put_packed", "get_packed", "length_packed"}
Puts   == {"put", "put_multi", "put_packed"}

Codes == {"SUCCESS", "HG", "UNKNOWN_PR", "UNKNOWN_DB", "UNKNOWN_KEY", "SIZE", "KEYEXISTS",
          "PUT", "ERASE", "INVALID_ARG"}

Absent == -1   \* (hg_size_t)(-1)

\* What an uninitialized ret holds: success or an error, to the caller.
Uninitialized == {"SUCCESS", "HG"}

ASSUME DataRpcConstants ==
    /\ EmptyKeys \subseteq Keys
    /\ Sizes \subseteq Nat /\ EagerSize \in Nat
    /\ Functions \in [Clients -> SUBSET (Single \cup Multi \cup Packed)]
    /\ MaxItems \in Nat \ {0} /\ MaxCalls \in Nat
    /\ None \notin Sizes /\ None \notin Int

VARIABLES
    no_overwrite, kv,  \* the database: its option, and its content
    pc,                \* where the call of each client is
    req,               \* its function, keys, and values to put or sizes of buffers
    item,              \* the item its handler is at
    out,               \* out.ret of the handler, then what the call returned
    res,               \* what the handler found out of each item
    packed, off,       \* the values it has packed, and where the next one goes
    mem,               \* available_client_memory
    got,               \* what the caller received of each item
    left,              \* how many calls each client may still make
    saw,               \* history: what each key of the call has been during it
    wrote,             \* history: each pair the call has stored, and what it replaced
    lost               \* history: the transport failed in the call

database == <<no_overwrite, kv>>
handler  == <<item, out, res, packed, off, mem>>
vars     == <<database, pc, req, handler, got, left, saw, wrote, lost>>

NoRequest == [fn |-> None, keys |-> <<>>, arg |-> <<>>]

Init ==
    /\ no_overwrite \in BOOLEAN
    /\ kv \in [Keys -> Sizes \cup {None}]
    /\ pc = [c \in Clients |-> "idle"]
    /\ req = [c \in Clients |-> NoRequest]
    /\ item = [c \in Clients |-> 1]
    /\ out = [c \in Clients |-> "SUCCESS"]
    /\ res = [c \in Clients |-> <<>>]
    /\ packed = [c \in Clients |-> {}]
    /\ off = [c \in Clients |-> 0] /\ mem = [c \in Clients |-> 0]
    /\ got = [c \in Clients |-> <<>>]
    /\ left = [c \in Clients |-> MaxCalls]
    /\ saw = [c \in Clients |-> [k \in Keys |-> {}]]
    /\ wrote = [c \in Clients |-> {}]
    /\ lost = [c \in Clients |-> FALSE]

-----------------------------------------------------------------------------
(* The functions of the client library.                                    *)

Goto(c, from, to) == pc[c] = from /\ pc' = [pc EXCEPT ![c] = to]

\* A new call.
NewCall(c, f, ks, as, to, code) ==
    /\ left[c] > 0 /\ f \in Functions[c]
    /\ Goto(c, "idle", to)
    /\ left' = [left EXCEPT ![c] = @ - 1]
    /\ req' = [req EXCEPT ![c] = [fn |-> f, keys |-> ks, arg |-> as]]
    /\ out' = [out EXCEPT ![c] = code]
    /\ mem' = [mem EXCEPT ![c] = IF f = "get_packed" THEN as[1] ELSE 0]
    /\ saw' = [saw EXCEPT ![c] = [k \in Keys |-> {kv[k] : i \in {j \in DOMAIN ks : ks[j] = k}}]]
    /\ UNCHANGED <<database, item, res, packed, off, got, wrote, lost>>

Send(c, f, ks, as) == NewCall(c, f, ks, as, "serving", "SUCCESS")

Put(c)    == \E k \in Keys, v \in Sizes : Send(c, "put", <<k>>, <<v>>)
Get(c)    == \E k \in Keys, b \in Sizes : Send(c, "get", <<k>>, <<b>>)
Length(c) == \E k \in Keys : Send(c, "length", <<k>>, <<>>)
Exists(c) == \E k \in Keys : Send(c, "exists", <<k>>, <<>>)
Erase(c)  == \E k \in Keys : Send(c, "erase", <<k>>, <<>>)

Batches(S) == UNION {[1..n -> S] : n \in 1..MaxItems}

PutMulti(c) ==
    \E ks \in Batches(Keys) : \E vs \in [DOMAIN ks -> Sizes] :
        /\ \A i \in DOMAIN ks : ks[i] \notin EmptyKeys
        /\ Send(c, "put_multi", ks, vs)

\* A key of size 0 is refused before anything is sent.
PutMultiInvalid(c) ==
    \E ks \in Batches(Keys) : \E vs \in [DOMAIN ks -> Sizes] :
        /\ \E i \in DOMAIN ks : ks[i] \in EmptyKeys
        /\ NewCall(c, "put_multi", ks, vs, "returned", "INVALID_ARG")

PutPacked(c) ==
    \E ks \in Batches(Keys) : \E vs \in [DOMAIN ks -> Sizes] :
        Send(c, "put_packed", ks, vs)

GetMulti(c) ==
    \E ks \in Batches(Keys) : \E bs \in [DOMAIN ks -> Sizes] :
        Send(c, "get_multi", ks, bs)

GetPacked(c) ==
    \E ks \in Batches(Keys), b \in Sizes : Send(c, "get_packed", ks, <<b>>)

LengthMulti(c)  == \E ks \in Batches(Keys) : Send(c, "length_multi", ks, <<>>)
LengthPacked(c) == \E ks \in Batches(Keys) : Send(c, "length_packed", ks, <<>>)
ExistsMulti(c)  == \E ks \in Batches(Keys) : Send(c, "exists_multi", ks, <<>>)
EraseMulti(c)   == \E ks \in Batches(Keys) : Send(c, "erase_multi", ks, <<>>)

Call(c) ==
    \/ Put(c) \/ Get(c) \/ Length(c) \/ Exists(c) \/ Erase(c)
    \/ PutMulti(c) \/ PutMultiInvalid(c) \/ PutPacked(c) \/ GetMulti(c) \/ GetPacked(c)
    \/ LengthMulti(c) \/ LengthPacked(c) \/ ExistsMulti(c) \/ EraseMulti(c)

-----------------------------------------------------------------------------
(* The handlers.                                                           *)

\* No provider, no input, no such database, or the pull of keys or values fails.
Refuse(c) ==
    /\ item[c] = 1 /\ Goto(c, "serving", "answered")
    /\ \E code \in {"UNKNOWN_PR", "UNKNOWN_DB", "HG"} : out' = [out EXCEPT ![c] = code]
    /\ UNCHANGED <<database, req, item, res, packed, off, mem, got, left, saw, wrote, lost>>

key(c) == req[c].keys[item[c]]
arg(c) == req[c].arg[item[c]]

\* The handler of c, which serves one of the functions fs, is at an item.
AtItem(c, fs) ==
    /\ pc[c] = "serving" /\ req[c].fn \in fs /\ item[c] <= Len(req[c].keys)
    /\ item' = [item EXCEPT ![c] = @ + 1]

\* A call of c that is about key k is under way.
Watches(c, k) ==
    /\ pc[c] \in {"serving", "answered"}
    /\ \E i \in DOMAIN req[c].keys : req[c].keys[i] = k

\* Key k of the database becomes w, which every call under way may observe.
Store(k, w) ==
    /\ kv' = [kv EXCEPT ![k] = w]
    /\ saw' = [c \in Clients |-> IF Watches(c, k) THEN [saw[c] EXCEPT ![k] = @ \cup {w}]
                                ELSE saw[c]]
    /\ UNCHANGED no_overwrite

\* The call of c stores the pair of the item it is at.
StoreItem(c) ==
    /\ Store(key(c), arg(c))
    /\ wrote' = [wrote EXCEPT ![c] = @ \cup {<<key(c), arg(c), kv[key(c)]>>}]

Report(c, code) == out' = [out EXCEPT ![c] = code]

Unpacked == <<packed, off, mem>>

\* ret = ret == 0 ? r : 0 of put_multi and put_packed; a single put has one item.
PutResult(ret, r) == IF ret = "SUCCESS" THEN r ELSE "SUCCESS"

\* Mutant: a put does not look for the key.
PutOverwrites(c) ==
    /\ AtItem(c, Puts)
    /\ \/ /\ StoreItem(c)
          /\ Report(c, PutResult(out[c], "SUCCESS"))
       \/ /\ Report(c, PutResult(out[c], "PUT"))
          /\ UNCHANGED <<database, saw, wrote>>
    /\ UNCHANGED <<pc, req, res, Unpacked, got, left, lost>>

PutItem(c) ==
    /\ AtItem(c, Puts)
    /\ \/ /\ ~(no_overwrite /\ kv[key(c)] # None)
          /\ StoreItem(c)
          /\ Report(c, PutResult(out[c], "SUCCESS"))
       \/ /\ no_overwrite /\ kv[key(c)] # None
          /\ Report(c, PutResult(out[c], "KEYEXISTS"))
          /\ UNCHANGED <<database, saw, wrote>>
       \/ /\ Report(c, PutResult(out[c], "PUT"))
          /\ UNCHANGED <<database, saw, wrote>>
    /\ UNCHANGED <<pc, req, res, Unpacked, got, left, lost>>

\* erase_multi does not look at what erase returns.  LevelDB erases an absent key
\* with success.
EraseItem(c) ==
    /\ AtItem(c, {"erase", "erase_multi"})
    /\ \E code \in {"SUCCESS", "ERASE"} :
           /\ Report(c, IF req[c].fn = "erase" THEN code ELSE out[c])
           /\ IF code = "SUCCESS" THEN Store(key(c), None) ELSE UNCHANGED <<database, saw>>
    /\ UNCHANGED <<pc, req, res, Unpacked, got, left, wrote, lost>>

Found(c, r) == res' = [res EXCEPT ![c] = Append(@, r)]

\* sdskv_get_ult and sdskv_bulk_get_ult
GetItem(c) ==
    /\ AtItem(c, {"get"})
    /\ LET v == kv[key(c)] IN
           /\ Found(c, IF v = None THEN 0 ELSE v)
           /\ Report(c, IF v = None THEN "UNKNOWN_KEY"
                        ELSE IF v <= arg(c) THEN "SUCCESS" ELSE "SIZE")
    /\ UNCHANGED <<database, pc, req, Unpacked, got, left, saw, wrote, lost>>

\* Mutant: the next value goes after the space the caller gave to this one.
GetMultiUnpacked(c) ==
    /\ AtItem(c, {"get_multi"})
    /\ LET v == kv[key(c)]
           n == IF v # None /\ v <= arg(c) THEN v ELSE 0
       IN  /\ Found(c, n)
           /\ packed' = [packed EXCEPT ![c] = @ \cup {<<off[c], n>>}]
           /\ off' = [off EXCEPT ![c] = @ + arg(c)]
    /\ UNCHANGED <<database, pc, req, out, mem, got, left, saw, wrote, lost>>

\* A value that fits is packed; otherwise its size is 0.
GetMultiItem(c) ==
    /\ AtItem(c, {"get_multi"})
    /\ LET v == kv[key(c)]
           n == IF v # None /\ v <= arg(c) THEN v ELSE 0
       IN  /\ Found(c, n)
           /\ packed' = [packed EXCEPT ![c] = @ \cup {<<off[c], n>>}]
           /\ off' = [off EXCEPT ![c] = @ + n]
    /\ UNCHANGED <<database, pc, req, out, mem, got, left, saw, wrote, lost>>

\* available_client_memory only ever drops to 0.
GetPackedItem(c) ==
    /\ AtItem(c, {"get_packed"})
    /\ LET v == kv[key(c)] IN
           \/ /\ mem[c] = 0 \/ (v # None /\ v > mem[c])
              /\ Found(c, 0) /\ Report(c, "SIZE")
              /\ mem' = [mem EXCEPT ![c] = 0]
              /\ UNCHANGED <<packed, off>>
           \/ /\ mem[c] # 0 /\ v # None /\ v <= mem[c]
              /\ Found(c, v)
              /\ packed' = [packed EXCEPT ![c] = @ \cup {<<off[c], v>>}]
              /\ off' = [off EXCEPT ![c] = @ + v]
              /\ UNCHANGED <<out, mem>>
           \/ /\ mem[c] # 0 /\ v = None
              /\ Found(c, Absent)
              /\ UNCHANGED <<out, Unpacked>>
    /\ UNCHANGED <<database, pc, req, got, left, saw, wrote, lost>>

\* Mutant: the result of length is not looked at.
LengthUnchecked(c) ==
    /\ AtItem(c, {"length", "length_multi", "length_packed"})
    /\ Found(c, kv[key(c)])
    /\ UNCHANGED <<database, pc, req, out, Unpacked, got, left, saw, wrote, lost>>

LengthItem(c) ==
    /\ AtItem(c, {"length", "length_multi", "length_packed"})
    /\ LET v == kv[key(c)] IN
           /\ Found(c, IF v = None THEN 0 ELSE v)
           /\ Report(c, IF v = None /\ req[c].fn = "length" THEN "UNKNOWN_KEY" ELSE out[c])
    /\ UNCHANGED <<database, pc, req, Unpacked, got, left, saw, wrote, lost>>

ExistsItem(c) ==
    /\ AtItem(c, {"exists", "exists_multi"})
    /\ Found(c, IF kv[key(c)] = None THEN 0 ELSE 1)
    /\ UNCHANGED <<database, pc, req, out, Unpacked, got, left, saw, wrote, lost>>

ItemsDone(c) == pc[c] = "serving" /\ item[c] > Len(req[c].keys)

\* The handler has results to push besides the response.
Pushes(c) ==
    \/ req[c].fn \in {"get_multi", "get_packed", "length_multi", "length_packed", "exists_multi"}
    \/ req[c].fn = "get" /\ req[c].arg[1] > EagerSize /\ out[c] = "SUCCESS" /\ res[c][1] > 0

PushFails(c) ==
    /\ ItemsDone(c) /\ Pushes(c) /\ Goto(c, "serving", "answered")
    /\ Report(c, "HG")
    /\ UNCHANGED <<database, req, item, res, packed, off, mem, got, left, saw, wrote, lost>>

-----------------------------------------------------------------------------
(* The end of the call.                                                    *)

\* The room that the value of each item takes.
Room(s) == [j \in DOMAIN s |-> IF s[j] = Absent THEN 0 ELSE s[j]]

\* The value of n bytes at offset o of what was pushed, None if no value lies there.
At(pushed, o, n) ==
    IF n \in {0, Absent} \/ <<o, n>> \in pushed THEN n ELSE None

\* Only what lies within the buffer of get_packed is pushed.
Pushed(c) ==
    IF req[c].fn = "get_packed"
    THEN {p \in packed[c] : p[1] + p[2] <= req[c].arg[1]} ELSE packed[c]

\* get_multi copies each value to its buffer; the caller of get_packed does likewise.
\* The number of values that get_packed returns besides is left out.
Received(c) ==
    IF out[c] \in {"HG", "UNKNOWN_PR", "UNKNOWN_DB"} THEN <<>>
    ELSE IF req[c].fn \in {"get_multi", "get_packed"}
    THEN [i \in DOMAIN res[c] |-> At(Pushed(c), Offset(Room(res[c]), i), res[c][i])]
    ELSE res[c]

\* The response, sent when the handler ends, reaches the caller.
Return(c) ==
    /\ ItemsDone(c) \/ pc[c] = "answered"
    /\ pc' = [pc EXCEPT ![c] = "returned"]
    /\ got' = [got EXCEPT ![c] = Received(c)]
    /\ UNCHANGED <<database, req, handler, left, saw, wrote, lost>>

\* A handle cannot be created, forward fails or the response cannot be read, before
\* or after the handler has run.  The _multi functions return an uninitialized ret.
TransportFails(c) ==
    /\ ItemsDone(c) \/ pc[c] = "answered" \/ (pc[c] = "serving" /\ item[c] = 1)
    /\ pc' = [pc EXCEPT ![c] = "returned"]
    /\ \E code \in (IF req[c].fn \in Multi THEN Uninitialized ELSE {"HG"}) : Report(c, code)
    /\ lost' = [lost EXCEPT ![c] = TRUE]
    /\ UNCHANGED <<database, req, item, res, packed, off, mem, got, left, saw, wrote>>

\* The caller has looked at what it got.
Forget(c) ==
    /\ Goto(c, "returned", "idle")
    /\ req' = [req EXCEPT ![c] = NoRequest]
    /\ item' = [item EXCEPT ![c] = 1]
    /\ out' = [out EXCEPT ![c] = "SUCCESS"]
    /\ res' = [res EXCEPT ![c] = <<>>]
    /\ packed' = [packed EXCEPT ![c] = {}]
    /\ off' = [off EXCEPT ![c] = 0] /\ mem' = [mem EXCEPT ![c] = 0]
    /\ got' = [got EXCEPT ![c] = <<>>]
    /\ saw' = [saw EXCEPT ![c] = [k \in Keys |-> {}]]
    /\ wrote' = [wrote EXCEPT ![c] = {}]
    /\ lost' = [lost EXCEPT ![c] = FALSE]
    /\ UNCHANGED <<database, left>>

-----------------------------------------------------------------------------
Step(c) ==
    \/ Refuse(c)
    \/ PutItem(c) \/ EraseItem(c) \/ GetItem(c) \/ GetMultiItem(c) \/ GetPackedItem(c)
    \/ LengthItem(c) \/ ExistsItem(c)
    \/ PushFails(c) \/ Return(c) \/ TransportFails(c)
    \/ Forget(c)

Quiescent == (\A c \in Clients : pc[c] = "idle" /\ left[c] = 0) /\ UNCHANGED vars

Next == (\E c \in Clients : Call(c) \/ Step(c)) \/ Quiescent

Spec == Init /\ [][Next]_vars
-----------------------------------------------------------------------------
(* Correctness.                                                            *)

TypeOK ==
    /\ no_overwrite \in BOOLEAN /\ kv \in [Keys -> Sizes \cup {None}]
    /\ pc \in [Clients -> {"idle", "serving", "answered", "returned"}]
    /\ req \in [Clients -> [fn : Single \cup Multi \cup Packed \cup {None},
                            keys : Seq(Keys), arg : Seq(Sizes)]]
    /\ item \in [Clients -> Nat] /\ out \in [Clients -> Codes]
    /\ res \in [Clients -> Seq(Int)]
    /\ packed \in [Clients -> SUBSET (Nat \X Nat)]
    /\ off \in [Clients -> Nat] /\ mem \in [Clients -> Nat]
    /\ got \in [Clients -> Seq(Int \cup {None})]
    /\ left \in [Clients -> 0..MaxCalls]
    /\ saw \in [Clients -> [Keys -> SUBSET (Sizes \cup {None})]]
    /\ wrote \in [Clients -> SUBSET (Keys \X Sizes \X (Sizes \cup {None}))]
    /\ lost \in [Clients -> BOOLEAN]

\* The values item i's key has had during the call of c, and whether it was absent.
ValuesSeen(c, i) == saw[c][req[c].keys[i]] \ {None}
AbsenceSeen(c, i) == None \in saw[c][req[c].keys[i]]

\* What the caller may be told of item i, given what the key has been.
Justified(c, i, r) ==
    LET fn  == req[c].fn
        as  == req[c].arg
        was == ValuesSeen(c, i)
    IN  CASE fn = "get" /\ out[c] = "SUCCESS"    -> r \in was /\ r <= as[1]
          [] fn = "get" /\ out[c] = "SIZE"       -> r \in was /\ r > as[1]
          [] fn = "length" /\ out[c] = "SUCCESS" -> r \in was
          [] fn \in {"get", "length"} /\ out[c] = "UNKNOWN_KEY" -> AbsenceSeen(c, i)
          [] fn \in {"exists", "exists_multi"} ->
                 IF r = 1 THEN was # {} ELSE r = 0 /\ AbsenceSeen(c, i)
          [] fn \in {"length_multi", "length_packed"} ->
                 r \in was \/ (r = 0 /\ AbsenceSeen(c, i))
          [] fn = "get_multi" ->
                 \/ r \in was /\ r <= as[i]
                 \/ r = 0 /\ (AbsenceSeen(c, i) \/ \E v \in was : v > as[i])
          [] fn = "get_packed" ->
                 \/ r \in was \/ (r = Absent /\ AbsenceSeen(c, i))
                 \/ r = 0 /\ out[c] = "SIZE"
          [] OTHER -> FALSE

\* The handler of get_packed has packed more than the buffer holds.
Overrun(c) == req[c].fn = "get_packed" /\ off[c] > req[c].arg[1]

Reads == {"get", "length", "exists", "get_multi", "length_multi", "exists_multi",
          "get_packed", "length_packed"}

Fresh(c) ==
    req[c].fn \in Reads /\ out[c] \in {"SUCCESS", "SIZE", "UNKNOWN_KEY"} =>
        /\ Len(got[c]) = Len(req[c].keys)
        /\ \A i \in DOMAIN got[c] : Justified(c, i, got[c][i])

\* What a call that reads tells its caller of each key was true of that key at some
\* moment during the call, however handlers interleave and whatever did not fit:
\* values, sizes and flags are handed out at the index of their key, and values are
\* found again where they were packed.  A get_packed that overran its buffer, which
\* the handler does not notice, is left out, and so is a read that the storage library
\* fails, which no handler can tell from an absent key.
ReadsAreFresh ==
    \A c \in Clients : pc[c] = "returned" /\ ~lost[c] /\ ~Overrun(c) => Fresh(c)

\* The call itself stored item i, and with no_overwrite it replaced nothing.
ItemStored(c, i) ==
    \E old \in Sizes \cup {None} :
        /\ <<req[c].keys[i], req[c].arg[i], old>> \in wrote[c]
        /\ no_overwrite => old = None

Truthful(c) ==
    /\ req[c].fn \in Puts /\ out[c] = "SUCCESS" /\ Len(req[c].keys) = 1 => ItemStored(c, 1)
    /\ req[c].fn \in Puts /\ out[c] = "KEYEXISTS" =>
           no_overwrite /\ \E i \in DOMAIN req[c].keys : ValuesSeen(c, i) # {}
    /\ req[c].fn = "erase" /\ out[c] = "SUCCESS" => AbsenceSeen(c, 1)

\* What a call that writes tells its caller is true: a put of one pair that returns
\* SUCCESS has stored that pair itself, whatever other puts of the key ran beside it, and
\* with no_overwrite it replaced nothing, so that two such puts of a key can both return
\* SUCCESS only if the key was erased between them; one that returns SDSKV_ERR_KEYEXISTS
\* found a key that was there; and an erase that returns SUCCESS has left the key absent.
\* A database whose put is two steps (LevelDB with no_overwrite) is left out, as is a
\* _multi call whose transport failed.
WritesAreTrue ==
    \A c \in Clients :
        pc[c] = "returned" /\ ~(lost[c] /\ req[c].fn \in Multi) => Truthful(c)

\* A batch that returns SUCCESS has stored all its pairs.
EveryPairIsStored ==
    \A c \in Clients :
        pc[c] = "returned" /\ req[c].fn \in Puts /\ out[c] = "SUCCESS" /\ ~lost[c] =>
            \A i \in DOMAIN req[c].keys : ItemStored(c, i)

-----------------------------------------------------------------------------
(* The inductive invariant behind WritesAreTrue.                           *)

\* The request of a call has the shape its handler relies on.
RequestInv ==
    \A c \in Clients :
        /\ pc[c] = "idle" => item[c] = 1
        /\ pc[c] # "idle" =>
               /\ Len(req[c].keys) >= 1 /\ item[c] \in 1..Len(req[c].keys) + 1
               /\ req[c].fn \in Single => Len(req[c].keys) = 1
               /\ req[c].fn \in Puts \cup {"get", "get_multi"} =>
                      Len(req[c].arg) = Len(req[c].keys)

\* The history of a call under way includes the present, and what its handler has found
\* out so far is true already.
CallOK(c) ==
    /\ \A k \in Keys : Watches(c, k) => kv[k] \in saw[c][k]
    /\ pc[c] = "serving" /\ item[c] = 1 => out[c] = "SUCCESS"
    /\ pc[c] = "serving" /\ item[c] > 1 => Truthful(c)
    /\ pc[c] = "answered" => out[c] \in {"UNKNOWN_PR", "UNKNOWN_DB", "HG"}
    /\ pc[c] = "returned" /\ ~(lost[c] /\ req[c].fn \in Multi) => Truthful(c)

IInv == TypeOK /\ RequestInv /\ \A c \in Clients : CallOK(c)

-----------------------------------------------------------------------------
(* What the handler of a read keeps true besides, behind ReadsAreFresh.    *)

\* The handler reports nothing that has no meaning for its function.
ReportOK(c) ==
    \/ out[c] = "SUCCESS"
    \/ out[c] = "SIZE" /\ req[c].fn \in {"get", "get_packed"}
    \/ out[c] = "UNKNOWN_KEY" /\ req[c].fn \in {"get", "length"}

\* Each value lies where the sizes of those before it add up to.
PackedOK(c) ==
    /\ off[c] = Total(Room(res[c]))
    /\ \A i \in DOMAIN res[c] :
           res[c][i] \in {0, Absent} \/ <<Offset(Room(res[c]), i), res[c][i]>> \in packed[c]

\* The handler has found out what is right of each item it has passed.
ReadingOK(c) ==
    /\ res[c] \in Seq(Nat \cup {Absent}) /\ Len(res[c]) = item[c] - 1
    /\ ReportOK(c)
    /\ \A i \in DOMAIN res[c] : Justified(c, i, res[c][i])
    /\ req[c].fn \in {"get_multi", "get_packed"} => PackedOK(c)
    /\ req[c].fn = "get_packed" => Len(req[c].arg) = 1

ReadOK(c) ==
    /\ pc[c] = "idle" => res[c] = <<>> /\ off[c] = 0
    /\ pc[c] = "serving" /\ req[c].fn \in Reads => ReadingOK(c)
    /\ pc[c] = "returned" /\ ~lost[c] /\ ~Overrun(c) => Fresh(c)

ReadInv == \A c \in Clients : ReadOK(c)
=============================================================================
