----------------------------- MODULE DataStore ------------------------------
(***************************************************************************)
(* One database under concurrent handlers, step by step: MapDataStore with *)
(* its reader-writer lock, LevelDBDataStore and BerkeleyDBDataStore with   *)
(* the calls they make to their libraries, each of which is atomic.        *)
(*                                                                         *)
(* Listings walk the database key by key: under the read lock in the map,  *)
(* on the snapshot of an iterator in LevelDB, with a cursor on the living  *)
(* database in BerkeleyDB.  "get" stands for get and length, which run the *)
(* same steps.  Keys are ordered as by the default comparison.             *)
(***************************************************************************)
EXTENDS Integers, FiniteSets

CONSTANTS
    Threads,   \* ULTs that call the database
    Keys,      \* keys, as positive numbers in the order of the database
    Values,    \* values
    Configs,   \* the databases considered: records [backend, no_overwrite]
    Functions, \* the functions threads call
    Starts,    \* start keys of listings, 0 for the empty one
    MaxKeys,   \* counts of listings
    Matching,  \* the keys that start with the prefix of the listings
    Short,     \* the keys that are a proper prefix of it
    MaxCalls,  \* bound: how many calls each thread makes
    None

\* What a call may answer besides a value; "EMPTY" is success with an empty value.
Answers == {"SUCCESS", "KEYEXISTS", "PUT", "ERASE", "UNKNOWN_KEY", "EMPTY",
            "THERE", "NOT_THERE"}

ASSUME DataStoreConstants ==
    /\ Keys \subseteq Nat \ {0} /\ Starts \subseteq Keys \cup {0}
    /\ MaxKeys \subseteq Nat \ {0}
    /\ Configs \subseteq [backend : {"map", "leveldb", "bdb"}, no_overwrite : BOOLEAN]
    /\ Functions \subseteq {"put", "get", "exists", "erase", "list"}
    /\ Matching \subseteq Keys /\ Short \subseteq Keys /\ Matching \cap Short = {}
    /\ MaxCalls \in [Threads -> Nat]
    /\ \A i, j \in Matching, k \in Keys : i < k /\ k < j => k \in Matching
    /\ None \notin Values /\ None \notin Threads /\ None \notin Answers \cup {"list"}

VARIABLES
    db,              \* the configuration of the database
    kv,              \* its content
    writer, readers, \* _map_lock
    pc,              \* where each thread is
    fn, key, val,    \* its call
    start, count,
    found,           \* whether it has found the key
    it,              \* the key its iterator is at, 0 before the first
    snap,            \* the database when its iterator was made: what LevelDB's reads
    list,            \* the keys it has listed
    ans,             \* what its call returns, None before
    left,            \* how many calls it may still make
    failed,          \* history: the threads whose call the library has failed
    ever, always     \* history: keys that were there during its listing, and throughout

lock  == <<writer, readers>>
args  == <<fn, key, val, start, count>>
walk  == <<it, snap, list>>
seen  == <<ever, always>>
vars  == <<db, kv, lock, pc, args, found, walk, ans, left, failed, seen>>

Empty == [k \in Keys |-> None]

Present(m) == {k \in Keys : m[k] # None}

Init ==
    /\ db \in Configs
    /\ kv \in [Keys -> Values \cup {None}]
    /\ writer = None /\ readers = {}
    /\ pc = [t \in Threads |-> "idle"]
    /\ fn = [t \in Threads |-> None]
    /\ key \in [Threads -> {None}] /\ val \in [Threads -> {None}]
    /\ start = [t \in Threads |-> 0] /\ count = [t \in Threads |-> 0]
    /\ found = [t \in Threads |-> FALSE]
    /\ it = [t \in Threads |-> 0]
    /\ snap = [t \in Threads |-> Empty]
    /\ list = [t \in Threads |-> {}]
    /\ ans = [t \in Threads |-> None]
    /\ left = MaxCalls
    /\ failed = {}
    /\ ever = [t \in Threads |-> {}] /\ always = [t \in Threads |-> {}]

Goto(t, from, to) == pc[t] = from /\ pc' = [pc EXCEPT ![t] = to]

IsMap  == db.backend = "map"
IsDisk == db.backend \in {"leveldb", "bdb"}

-----------------------------------------------------------------------------
(* Calls and returns.                                                      *)

CallKey(t) ==
    \E f \in Functions \ {"list"}, k \in Keys, v \in Values :
        /\ left[t] > 0 /\ left' = [left EXCEPT ![t] = @ - 1]
        /\ Goto(t, "idle", "called")
        /\ fn' = [fn EXCEPT ![t] = f]
        /\ key' = [key EXCEPT ![t] = k]
        /\ val' = [val EXCEPT ![t] = v]
        /\ UNCHANGED <<db, kv, lock, start, count, found, walk, ans, failed, seen>>

CallList(t) ==
    \E s \in Starts, n \in MaxKeys :
        /\ "list" \in Functions
        /\ left[t] > 0 /\ left' = [left EXCEPT ![t] = @ - 1]
        /\ Goto(t, "idle", "called")
        /\ fn' = [fn EXCEPT ![t] = "list"]
        /\ start' = [start EXCEPT ![t] = s]
        /\ count' = [count EXCEPT ![t] = n]
        /\ ever' = [ever EXCEPT ![t] = Present(kv)]
        /\ always' = [always EXCEPT ![t] = Present(kv)]
        /\ UNCHANGED <<db, kv, lock, key, val, found, walk, ans, failed>>

\* The call returns and its locals are gone.
Return(t) ==
    /\ Goto(t, "done", "idle")
    /\ fn' = [fn EXCEPT ![t] = None]
    /\ key' = [key EXCEPT ![t] = None] /\ val' = [val EXCEPT ![t] = None]
    /\ start' = [start EXCEPT ![t] = 0] /\ count' = [count EXCEPT ![t] = 0]
    /\ found' = [found EXCEPT ![t] = FALSE]
    /\ it' = [it EXCEPT ![t] = 0] /\ snap' = [snap EXCEPT ![t] = Empty]
    /\ list' = [list EXCEPT ![t] = {}]
    /\ ans' = [ans EXCEPT ![t] = None]
    /\ failed' = failed \ {t}
    /\ ever' = [ever EXCEPT ![t] = {}] /\ always' = [always EXCEPT ![t] = {}]
    /\ UNCHANGED <<db, kv, lock, left>>

\* The thread sets its key to w (None to erase it) and has its answer.
Effect(t, w, a) ==
    /\ kv' = [kv EXCEPT ![key[t]] = w]
    /\ ans' = [ans EXCEPT ![t] = a]
    /\ ever' = [u \in Threads |-> IF w = None \/ fn[u] # "list" THEN ever[u]
                                 ELSE ever[u] \cup {key[t]}]
    /\ always' = [u \in Threads |-> IF w = None THEN always[u] \ {key[t]} ELSE always[u]]
    /\ UNCHANGED <<db, lock, args, found, walk, left, failed>>

\* The library's call fails: nothing is changed, and the call of t is answered a.
Fail(t, a) ==
    /\ ans' = [ans EXCEPT ![t] = a]
    /\ failed' = failed \cup {t}
    /\ UNCHANGED <<db, kv, lock, args, found, walk, left, seen>>

-----------------------------------------------------------------------------
(* MapDataStore.                                                           *)

MapWrlock(t) ==
    /\ IsMap /\ fn[t] \in {"put", "erase"}
    /\ writer = None /\ readers = {}
    /\ Goto(t, "called", "locked")
    /\ writer' = t
    /\ UNCHANGED <<db, kv, readers, args, found, walk, ans, left, failed, seen>>

\* Mutant: the reader does not wait for the writer.
MapRdlockUnlocked(t) ==
    /\ IsMap /\ fn[t] \in {"get", "exists", "list"}
    /\ Goto(t, "called", IF fn[t] = "list" THEN "listing" ELSE "locked")
    /\ readers' = readers
    /\ it' = [it EXCEPT ![t] = start[t]]
    /\ snap' = [snap EXCEPT ![t] = IF fn[t] = "list" THEN kv ELSE @]
    /\ UNCHANGED <<db, kv, writer, args, found, list, ans, left, failed, seen>>

MapRdlock(t) ==
    /\ IsMap /\ fn[t] \in {"get", "exists", "list"}
    /\ writer = None
    /\ Goto(t, "called", IF fn[t] = "list" THEN "listing" ELSE "locked")
    /\ readers' = readers \cup {t}
    /\ it' = [it EXCEPT ![t] = start[t]]
    /\ snap' = [snap EXCEPT ![t] = IF fn[t] = "list" THEN kv ELSE @]
    /\ UNCHANGED <<db, kv, writer, args, found, list, ans, left, failed, seen>>

\* _map.count(key), _map.find(key)
MapFind(t) ==
    /\ Goto(t, "locked", "found")
    /\ found' = [found EXCEPT ![t] = kv[key[t]] # None]
    /\ UNCHANGED <<db, kv, lock, args, walk, ans, left, failed, seen>>

\* Mutant: the lock stays taken when the key exists.
MapPutLocked(t) ==
    /\ fn[t] = "put"
    /\ IF db.no_overwrite /\ found[t]
       THEN Goto(t, "found", "done") /\ Effect(t, kv[key[t]], "KEYEXISTS")
       ELSE Goto(t, "found", "unlock") /\ Effect(t, val[t], "SUCCESS")

MapPut(t) ==
    /\ fn[t] = "put" /\ Goto(t, "found", "unlock")
    /\ IF db.no_overwrite /\ found[t]
       THEN Effect(t, kv[key[t]], "KEYEXISTS")
       ELSE Effect(t, val[t], "SUCCESS")

MapErase(t) ==
    /\ fn[t] = "erase" /\ Goto(t, "found", "unlock")
    /\ Effect(t, None, IF found[t] THEN "SUCCESS" ELSE "ERASE")

MapGet(t) ==
    /\ fn[t] = "get" /\ Goto(t, "found", "unlock")
    /\ Effect(t, kv[key[t]], IF found[t] THEN kv[key[t]] ELSE "UNKNOWN_KEY")

MapExists(t) ==
    /\ fn[t] = "exists" /\ Goto(t, "found", "unlock")
    /\ Effect(t, kv[key[t]], IF found[t] THEN "THERE" ELSE "NOT_THERE")

MapUnlock(t) ==
    /\ Goto(t, "unlock", "done")
    /\ writer' = IF writer = t THEN None ELSE writer
    /\ readers' = readers \ {t}
    /\ UNCHANGED <<db, kv, args, found, walk, ans, left, failed, seen>>

-----------------------------------------------------------------------------
(* LevelDBDataStore and BerkeleyDBDataStore.                               *)

\* LevelDBDataStore::put looks for the key first ...
LevelDBExists(t) ==
    /\ db.backend = "leveldb" /\ db.no_overwrite /\ fn[t] = "put"
    /\ \/ /\ kv[key[t]] # None
          /\ Goto(t, "called", "done")
          /\ Effect(t, kv[key[t]], "KEYEXISTS")
       \/ /\ kv[key[t]] = None
          /\ Goto(t, "called", "checked")
          /\ UNCHANGED <<db, kv, lock, args, found, walk, ans, left, failed, seen>>

\* ... takes an error for a key that is not there ...
LevelDBExistsFails(t) ==
    /\ db.backend = "leveldb" /\ db.no_overwrite /\ fn[t] = "put"
    /\ Goto(t, "called", "checked")
    /\ failed' = failed \cup {t}
    /\ UNCHANGED <<db, kv, lock, args, found, walk, ans, left, seen>>

\* ... and then puts it.
LevelDBPut(t) ==
    /\ db.backend = "leveldb" /\ fn[t] = "put"
    /\ Goto(t, IF db.no_overwrite THEN "checked" ELSE "called", "done")
    /\ Effect(t, val[t], "SUCCESS")

\* BerkeleyDBDataStore::put leaves it to DB_NOOVERWRITE.
BerkeleyDBPut(t) ==
    /\ db.backend = "bdb" /\ fn[t] = "put" /\ Goto(t, "called", "done")
    /\ IF db.no_overwrite /\ kv[key[t]] # None
       THEN Effect(t, kv[key[t]], "KEYEXISTS")
       ELSE Effect(t, val[t], "SUCCESS")

\* The library's put fails.
DiskPutFails(t) ==
    /\ IsDisk /\ fn[t] = "put"
    /\ Goto(t, IF db.backend = "leveldb" /\ db.no_overwrite THEN "checked" ELSE "called",
            "done")
    /\ Fail(t, "PUT")

\* LevelDB's Delete succeeds whether the key is there or not.
DiskErase(t) ==
    /\ IsDisk /\ fn[t] = "erase" /\ Goto(t, "called", "done")
    /\ Effect(t, None, IF db.backend = "leveldb" \/ kv[key[t]] # None
                       THEN "SUCCESS" ELSE "ERASE")

DiskEraseFails(t) ==
    /\ IsDisk /\ fn[t] = "erase" /\ Goto(t, "called", "done")
    /\ Fail(t, "ERASE")

DiskGet(t) ==
    /\ IsDisk /\ fn[t] = "get" /\ Goto(t, "called", "done")
    /\ Effect(t, kv[key[t]], IF kv[key[t]] # None THEN kv[key[t]] ELSE "UNKNOWN_KEY")

DiskExists(t) ==
    /\ IsDisk /\ fn[t] = "exists" /\ Goto(t, "called", "done")
    /\ Effect(t, kv[key[t]], IF kv[key[t]] # None THEN "THERE" ELSE "NOT_THERE")

\* BerkeleyDBDataStore::get knows two codes for a key that is not there and takes any
\* other for success, with the empty value; LevelDBDataStore::get takes any error for a
\* key that is not there.
DiskGetFails(t) ==
    /\ IsDisk /\ fn[t] = "get" /\ Goto(t, "called", "done")
    /\ Fail(t, IF db.backend = "bdb" THEN "EMPTY" ELSE "UNKNOWN_KEY")

\* exists the same.
DiskExistsFails(t) ==
    /\ IsDisk /\ fn[t] = "exists" /\ Goto(t, "called", "done")
    /\ Fail(t, IF db.backend = "bdb" THEN "THERE" ELSE "NOT_THERE")

\* Mutant: the start key itself is not skipped.
DiskListInclusive(t) ==
    /\ IsDisk /\ fn[t] = "list" /\ Goto(t, "called", "listing")
    /\ it' = [it EXCEPT ![t] = IF start[t] = 0 THEN 0 ELSE start[t] - 1]
    /\ snap' = [snap EXCEPT ![t] = kv]
    /\ UNCHANGED <<db, kv, lock, args, found, list, ans, left, failed, seen>>

\* A new iterator, which reads a snapshot, or a new cursor, after the start key.
DiskListBegin(t) ==
    /\ IsDisk /\ fn[t] = "list" /\ Goto(t, "called", "listing")
    /\ it' = [it EXCEPT ![t] = start[t]]
    /\ snap' = [snap EXCEPT ![t] = kv]
    /\ UNCHANGED <<db, kv, lock, args, found, list, ans, left, failed, seen>>

-----------------------------------------------------------------------------
(* The walk of vlist_keys and vlist_keyvals.                               *)

\* Mutant: LevelDB's iterator reads the living database.
WalkedLive(t) == kv

\* In the map this is the database under the read lock.
Walked(t) == IF db.backend = "leveldb" THEN snap[t] ELSE kv

\* k is the next key of the iterator.
IsNext(t, k) ==
    /\ Walked(t)[k] # None /\ k > it[t]
    /\ \A j \in Keys : Walked(t)[j] # None /\ j > it[t] => k <= j

AtEnd(t) == \A k \in Keys : Walked(t)[k] = None \/ k <= it[t]

Full(t) == Cardinality(list[t]) >= count[t]

\* memcmp(prefix, key, prefix.size()): a key that has the whole prefix compares
\* equal, the keys before these smaller, those after them greater.  On a key that
\* is a proper prefix of it memcmp reads what lies behind the key.
Before == {k \in Keys \ (Matching \cup Short) : \A j \in Matching : k < j}
After  == Keys \ (Matching \cup Short \cup Before)

ListDone(t) == pc' = [pc EXCEPT ![t] = IF IsMap THEN "unlock" ELSE "done"]

\* The end of the database, or count keys.
ListEnds(t) ==
    /\ pc[t] = "listing" /\ (AtEnd(t) \/ Full(t))
    /\ ListDone(t)
    /\ UNCHANGED <<db, kv, lock, args, found, walk, ans, left, failed, seen>>

\* Reading the next key fails: the walk ends as if there were no more keys.
ListFails(t) ==
    /\ IsDisk /\ pc[t] = "listing" /\ ~Full(t)
    /\ ListDone(t)
    /\ failed' = failed \cup {t}
    /\ UNCHANGED <<db, kv, lock, args, found, walk, ans, left, seen>>

\* Mutant: the iterator is moved past one key too many.
ListPushSkips(t) ==
    /\ pc[t] = "listing" /\ ~Full(t)
    /\ \E k \in Matching \cup (IF IsMap THEN {} ELSE Short) :
           /\ IsNext(t, k)
           /\ list' = [list EXCEPT ![t] = @ \cup {k}]
           /\ it' = [it EXCEPT ![t] = k + 1]
    /\ UNCHANGED <<db, kv, lock, pc, args, found, snap, ans, left, failed, seen>>

\* The key starts with the prefix, or seems to.
ListPush(t) ==
    /\ pc[t] = "listing" /\ ~Full(t)
    /\ \E k \in Matching \cup (IF IsMap THEN {} ELSE Short) :
           /\ IsNext(t, k)
           /\ list' = [list EXCEPT ![t] = @ \cup {k}]
           /\ it' = [it EXCEPT ![t] = k]
    /\ UNCHANGED <<db, kv, lock, pc, args, found, snap, ans, left, failed, seen>>

\* The key is before those that start with the prefix, or seems to be.
ListSkip(t) ==
    /\ pc[t] = "listing" /\ ~Full(t)
    /\ \E k \in Before \cup (IF IsMap THEN {} ELSE Short) :
           /\ IsNext(t, k)
           /\ it' = [it EXCEPT ![t] = k]
    /\ UNCHANGED <<db, kv, lock, pc, args, found, snap, list, ans, left, failed, seen>>

\* The key is past those that start with the prefix, or seems to be.
ListBreak(t) ==
    /\ pc[t] = "listing" /\ ~Full(t)
    /\ \E k \in After \cup (IF IsMap THEN {} ELSE Short) : IsNext(t, k)
    /\ ListDone(t)
    /\ UNCHANGED <<db, kv, lock, args, found, walk, ans, left, failed, seen>>

\* MapDataStore tests for a key shorter than the prefix, and continues with the
\* iterator where it is.
ListShort(t) ==
    /\ IsMap /\ pc[t] = "listing" /\ ~Full(t)
    /\ \E k \in Short : IsNext(t, k)
    /\ UNCHANGED vars

-----------------------------------------------------------------------------
Step(t) ==
    \/ MapWrlock(t) \/ MapRdlock(t) \/ MapFind(t)
    \/ MapPut(t) \/ MapErase(t) \/ MapGet(t) \/ MapExists(t) \/ MapUnlock(t)
    \/ LevelDBExists(t) \/ LevelDBExistsFails(t) \/ LevelDBPut(t) \/ BerkeleyDBPut(t)
    \/ DiskPutFails(t) \/ DiskErase(t) \/ DiskEraseFails(t)
    \/ DiskGet(t) \/ DiskGetFails(t) \/ DiskExists(t) \/ DiskExistsFails(t)
    \/ DiskListBegin(t) \/ ListFails(t)
    \/ ListEnds(t) \/ ListPush(t) \/ ListSkip(t) \/ ListBreak(t) \/ ListShort(t)
    \/ Return(t)

Quiescent == (\A t \in Threads : pc[t] = "idle" /\ left[t] = 0) /\ UNCHANGED vars

Next == (\E t \in Threads : CallKey(t) \/ CallList(t) \/ Step(t)) \/ Quiescent

Spec == Init /\ [][Next]_vars

\* Every ULT that can run is scheduled.
FairSpec == Spec /\ \A t \in Threads : WF_vars(Step(t))

-----------------------------------------------------------------------------
(* Correctness.                                                            *)

TypeOK ==
    /\ db \in Configs
    /\ kv \in [Keys -> Values \cup {None}]
    /\ writer \in Threads \cup {None} /\ readers \subseteq Threads
    /\ pc \in [Threads -> {"idle", "called", "locked", "found", "checked", "listing",
                           "unlock", "done"}]
    /\ fn \in [Threads -> Functions \cup {None}]
    /\ key \in [Threads -> Keys \cup {None}] /\ val \in [Threads -> Values \cup {None}]
    /\ start \in [Threads -> Keys \cup {0}] /\ count \in [Threads -> Nat]
    /\ found \in [Threads -> BOOLEAN]
    /\ it \in [Threads -> Keys \cup {0}]
    /\ snap \in [Threads -> [Keys -> Values \cup {None}]]
    /\ list \in [Threads -> SUBSET Keys]
    /\ ans \in [Threads -> Values \cup Answers \cup {None}]
    /\ left \in [Threads -> Nat]
    /\ failed \subseteq Threads
    /\ ever \in [Threads -> SUBSET Keys] /\ always \in [Threads -> SUBSET Keys]

KV == INSTANCE KVStore WITH
    no_overwrite <- db.no_overwrite,
    call <- [t \in Threads |-> IF pc[t] = "idle" \/ fn[t] = "list" THEN None
                              ELSE <<fn[t], key[t], val[t]>>],
    failed <- {t \in failed : fn[t] # "list"}

\* However calls interleave, each one takes effect in one step on one map: the lock
\* of MapDataStore and the flags given to the libraries make the steps of put, get,
\* exists and erase indivisible.  no_overwrite is honoured by the map and BerkeleyDB;
\* LevelDB opened with it is left out of the configurations, as its put is two calls
\* that two threads can interleave.  Only a call that the library failed may be answered
\* otherwise than the map says, and it never changes the map: a failed get is answered
\* with success and an empty value by BerkeleyDB and as not found by LevelDB, a failed
\* exists with there and not there.
Implements == KV!Spec

\* memcmp was given no key shorter than the prefix in the listing of t: there was no such
\* key, or the database is the map, which tests for it.
LongKeys(t) == IsMap \/ Short \cap ever[t] = {}

\* A listing that runs among puts and erases returns only matching keys after the
\* start key that were there at some time during the call, at most as many as asked
\* for, and misses none that was there throughout, but those past the last it has
\* room for.  Two cases are left out: a LevelDB or BerkeleyDB listing while a key shorter
\* than the prefix is there, on which memcmp reads past the key, and, as to the keys
\* missed, one whose library failed to read on, which ends like a complete one.
ListContract ==
    \A t \in Threads : pc[t] = "done" /\ fn[t] = "list" /\ LongKeys(t) =>
        /\ list[t] \subseteq {k \in Matching \cap ever[t] : k > start[t]}
        /\ Cardinality(list[t]) <= count[t]
        /\ t \notin failed => \A k \in Matching \cap always[t] :
               \/ k <= start[t] \/ k \in list[t]
               \/ Full(t) /\ \A j \in list[t] : j < k

\* A listing of the map or of LevelDB is one look at the database, however many writes
\* run beside it: it returns the first keys, up to the count, of what the database was
\* at one moment of the call.  (BerkeleyDB's cursor gives no such promise.)  The cases
\* that ListContract leaves out are left out here.
ListIsOneLook ==
    \A t \in Threads : pc[t] = "done" /\ fn[t] = "list" /\ db.backend # "bdb" /\ LongKeys(t) =>
        LET wanted == {k \in Matching \cap Present(snap[t]) : k > start[t]}
        IN  /\ list[t] \subseteq wanted /\ Cardinality(list[t]) <= count[t]
            /\ t \notin failed =>
                   \A k \in wanted \ list[t] : Full(t) /\ \A j \in list[t] : j < k

\* A walk of the map that is at a key shorter than the prefix.
AtShortKey(t) ==
    IsMap /\ pc[t] = "listing" /\ ~Full(t) /\ \E k \in Short : IsNext(t, k)

\* Every call returns: the lock of the map is released on every path, and walks end.
\* One case is left out: a walk of the map that comes to a key shorter than the prefix
\* never moves on (map_datastore.h:189 and 217 continue without it++), and keeps the read
\* lock, on which puts and erases wait.
EveryCallReturns ==
    \A t \in Threads :
        pc[t] = "called" ~> pc[t] = "idle" \/ \E u \in Threads : AtShortKey(u)

-----------------------------------------------------------------------------
(* The inductive invariant behind the proofs of DataStoreProofs.           *)

Holding == {"locked", "found", "unlock"}

\* A put or erase in the map holds the lock alone, the other calls share it.
LockInv ==
    /\ writer # None => readers = {}
    /\ \A t \in Threads : IsMap /\ pc[t] \in Holding \cup {"listing"} =>
           IF fn[t] \in {"put", "erase"} THEN writer = t ELSE t \in readers

\* A thread is only where its call takes it.
CallInv ==
    \A t \in Threads :
        /\ pc[t] # "idle" => fn[t] \in Functions
        /\ pc[t] # "idle" /\ fn[t] # "list" => key[t] \in Keys /\ val[t] \in Values
        /\ pc[t] \in Holding => IsMap
        /\ pc[t] \in {"locked", "found", "checked"} => fn[t] # "list"
        /\ pc[t] = "listing" => fn[t] = "list"
        /\ pc[t] = "checked" => db.backend = "leveldb" /\ db.no_overwrite

\* What a thread has found under the lock stays so, it has an answer exactly once its
\* call has taken effect, and none fails without a call.
FoundInv ==
    \A t \in Threads :
        /\ pc[t] = "found" => (found[t] <=> kv[key[t]] # None)
        /\ pc[t] = "idle" \/ fn[t] = "list" => ans[t] = None
        /\ pc[t] \in {"called", "locked", "found"} => ans[t] = None
        /\ pc[t] \in {"unlock", "done"} /\ fn[t] # "list" => ans[t] # None
        /\ pc[t] = "idle" => t \notin failed

IInv == TypeOK /\ LockInv /\ CallInv /\ FoundInv

-----------------------------------------------------------------------------
(* What a walk keeps true besides, which ListContract rests on.            *)

\* The history of a listing brackets what it walks on: the living database, and in
\* LevelDB the snapshot as well.
Bracketed(t) ==
    /\ fn[t] = "list" => always[t] \subseteq Present(kv) /\ Present(kv) \subseteq ever[t]
    /\ pc[t] = "listing" /\ db.backend = "leveldb" =>
           always[t] \subseteq Present(snap[t]) /\ Present(snap[t]) \subseteq ever[t]

\* Up to the iterator nothing is missed that was there throughout, and nothing is
\* listed beyond it; a walk that has ended missed nothing beyond it, or is full.
Walking(t) ==
    /\ it[t] >= start[t]
    /\ \A k \in list[t] : k \in Matching \cap ever[t] /\ k > start[t] /\ k <= it[t]
    /\ IsFiniteSet(list[t]) /\ Cardinality(list[t]) <= count[t]
    /\ \A k \in Matching \cap always[t] : k > start[t] /\ k <= it[t] => k \in list[t]
    /\ pc[t] # "listing" /\ t \notin failed =>
           \A k \in Matching \cap always[t] : k > it[t] => Full(t)

WalkOK(t) ==
    /\ pc[t] \in {"idle", "called"} => list[t] = {}
    /\ Bracketed(t)
    /\ fn[t] = "list" /\ pc[t] \in {"listing", "unlock", "done"} /\ LongKeys(t) => Walking(t)

WalkInv == \A t \in Threads : WalkOK(t)

\* A walk of the map or of LevelDB sees one state of the database all the way, and has
\* listed what it should of that state up to the iterator.
ViewOK(t) ==
    fn[t] = "list" /\ db.backend # "bdb" /\ LongKeys(t) =>
        /\ IsMap /\ pc[t] = "listing" => snap[t] = kv
        /\ pc[t] \in {"listing", "unlock", "done"} =>
               /\ list[t] \subseteq Present(snap[t])
               /\ \A k \in Matching \cap Present(snap[t]) :
                      k > start[t] /\ k <= it[t] => k \in list[t]
        /\ pc[t] \in {"unlock", "done"} /\ t \notin failed =>
               \A k \in Matching \cap Present(snap[t]) : k > it[t] => Full(t)

ViewInv == \A t \in Threads : ViewOK(t)
=============================================================================
