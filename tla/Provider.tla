------------------------------ MODULE Provider ------------------------------
(***************************************************************************)
(* The registry of databases kept by one SDSKV provider (struct            *)
(* sdskv_server_context_t) and the ABT_rwlock that protects it.            *)
(*                                                                         *)
(* Every user-level thread (ULT) runs one request at a time: an operation  *)
(* of the server API (attach, remove, remove_all, count, list) or an RPC   *)
(* handler.  ULTs run on several execution streams, so their steps         *)
(* interleave.  A database id is the address of the AbstractDataStore it   *)
(* names (the cast in sdskv_provider_attach_database), and the allocator   *)
(* may give the address of a deleted datastore to a later one.             *)
(*                                                                         *)
(* A critical section of the write lock takes two steps here, so that what *)
(* a reader could see in the middle of it is a state of the model and only *)
(* the lock keeps readers from it.                                         *)
(***************************************************************************)
EXTENDS Integers, FiniteSets

CONSTANTS
    ULTs,         \* threads serving requests
    Names,        \* database names, as numbers: std::map iterates in their order
    Addrs,        \* addresses the allocator can return for a datastore
    None,         \* an absent map entry, an idle thread's argument
    MaxRequests   \* bound: how many requests are served in a behaviour

\* The requests, by what they do to the registry.
AdminWrites == {"attach", "remove", "remove_all"}
Users       == {"access", "migrate_db", "receive"}
Reads       == {"count", "list", "list_rpc", "open"} \cup Users
Requests    == AdminWrites \cup Reads

ASSUME ProviderConstants ==
    /\ Names \subseteq Nat
    /\ None \notin Names /\ None \notin Addrs
    /\ None \notin ULTs /\ None \notin Requests
    /\ MaxRequests \in Nat

VARIABLES
    readers,    \* ULTs that hold the lock for reading
    writer,     \* the ULT that holds it for writing, or None
    databases,  \* the ids in provider->databases (an id is its own pointer)
    name2id,    \* provider->name2id
    id2name,    \* provider->id2name
    shared,     \* history: the names ever attached while bound to another id
    heap,       \* addresses of datastores that are allocated and not deleted
    pc, req,    \* per ULT: where it is, and which request it serves
    nm, id,     \* per ULT: its name (config->db_name, dbname) and id/pointer
    res,        \* per ULT: the ids a listing collected
    ret,        \* per ULT: the code the last request returned
    left        \* requests that may still arrive

registry == <<databases, name2id, id2name, shared>>
lock     == <<readers, writer>>
locals   == <<req, nm, id, res>>
vars     == <<lock, registry, heap, pc, locals, ret, left>>

Codes       == {"SUCCESS", "UNKNOWN_DB", "DB_NAME", "COMP_FUNC", "DB_CREATE", "REFUSED"}
PCs         == {"idle", "rdlock", "read", "rdunlock", "use",
                "wrlock", "write1", "write2", "wrunlock"}

Init ==
    /\ readers = {} /\ writer = None
    /\ databases = {} /\ heap = {} /\ shared = {}
    /\ name2id = [n \in Names |-> None]
    /\ id2name = [a \in Addrs |-> None]
    /\ pc  = [u \in ULTs |-> "idle"]
    /\ req = [u \in ULTs |-> None]
    /\ nm  = [u \in ULTs |-> None]
    /\ id  = [u \in ULTs |-> None]
    /\ res = [u \in ULTs |-> {}]
    /\ ret = [u \in ULTs |-> "SUCCESS"]
    /\ left = MaxRequests

-----------------------------------------------------------------------------
(* The parts the actions are made of.                                      *)

Goto(u, from, to) == pc[u] = from /\ pc' = [pc EXCEPT ![u] = to]

\* A request arrives at an idle ULT.
Accept(u, r, n, a, to) ==
    /\ left > 0 /\ left' = left - 1
    /\ Goto(u, "idle", to)
    /\ req' = [req EXCEPT ![u] = r]
    /\ nm'  = [nm EXCEPT ![u] = n]
    /\ id'  = [id EXCEPT ![u] = a]
    /\ res' = [res EXCEPT ![u] = {}]

Return(u, code) == ret' = [ret EXCEPT ![u] = code]

\* The handler returns: its locals are gone.
Finish(u) ==
    /\ req' = [req EXCEPT ![u] = None]
    /\ nm'  = [nm EXCEPT ![u] = None]
    /\ id'  = [id EXCEPT ![u] = None]
    /\ res' = [res EXCEPT ![u] = {}]

\* ABT_rwlock: readers share it, a writer is alone.
Rdlock(u) ==
    /\ Goto(u, "rdlock", "read")
    /\ writer = None
    /\ readers' = readers \cup {u}
    /\ UNCHANGED <<writer, registry, heap, locals, ret, left>>

Wrlock(u) ==
    /\ Goto(u, "wrlock", "write1")
    /\ writer = None /\ readers = {}
    /\ writer' = u
    /\ UNCHANGED <<readers, registry, heap, locals, ret, left>>

Wrunlock(u) ==
    /\ Goto(u, "wrunlock", "idle")
    /\ writer' = None
    /\ Finish(u)
    /\ UNCHANGED <<readers, registry, heap, ret, left>>

-----------------------------------------------------------------------------
(* sdskv_provider_attach_database.                                         *)

\* The comparison function is not registered, or the factory returns null.
AttachFails(u) ==
    /\ left > 0 /\ left' = left - 1
    /\ pc[u] = "idle"
    /\ \E code \in {"COMP_FUNC", "DB_CREATE"} : Return(u, code)
    /\ UNCHANGED <<lock, registry, heap, pc, locals>>

\* Mutant: no test for a null pointer after open_datastore.
AttachOpenUnchecked(u) ==
    \E n \in Names, a \in (Addrs \ heap) \cup {None} :
        /\ Accept(u, "attach", n, a, "wrlock")
        /\ heap' = heap \cup ({a} \ {None})
        /\ UNCHANGED <<lock, registry, ret>>

\* The datastore is opened before the lock is taken.
AttachOpen(u) ==
    \E n \in Names, a \in Addrs \ heap :
        /\ Accept(u, "attach", n, a, "wrlock")
        /\ heap' = heap \cup {a}
        /\ UNCHANGED <<lock, registry, ret>>

\* Mutant: the entry of name2id is not written.
AttachIdOnly(u) ==
    /\ req[u] = "attach" /\ Goto(u, "write1", "write2")
    /\ id2name' = [id2name EXCEPT ![id[u]] = nm[u]]
    /\ UNCHANGED <<lock, databases, name2id, shared, heap, locals, ret, left>>

AttachNames(u) ==
    /\ req[u] = "attach" /\ Goto(u, "write1", "write2")
    /\ name2id' = [name2id EXCEPT ![nm[u]] = id[u]]
    /\ id2name' = [id2name EXCEPT ![id[u]] = nm[u]]
    /\ shared' = IF name2id[nm[u]] = None THEN shared ELSE shared \cup {nm[u]}
    /\ UNCHANGED <<lock, databases, heap, locals, ret, left>>

AttachDatabase(u) ==
    /\ req[u] = "attach" /\ Goto(u, "write2", "wrunlock")
    /\ databases' = databases \cup {id[u]}
    /\ Return(u, "SUCCESS")
    /\ UNCHANGED <<lock, name2id, id2name, shared, heap, locals, left>>

-----------------------------------------------------------------------------
(* sdskv_provider_remove_database and sdskv_provider_remove_all_databases. *)

RemoveCall(u) ==
    \E a \in Addrs :
        /\ Accept(u, "remove", None, a, "wrlock")
        /\ UNCHANGED <<lock, registry, heap, ret>>

\* Mutant: the early return does not release the lock.
RemoveUnknownLocked(u) ==
    /\ req[u] = "remove" /\ Goto(u, "write1", "idle")
    /\ id[u] \notin databases
    /\ Return(u, "UNKNOWN_DB")
    /\ Finish(u)
    /\ UNCHANGED <<lock, registry, heap, left>>

RemoveUnknown(u) ==
    /\ req[u] = "remove" /\ Goto(u, "write1", "wrunlock")
    /\ id[u] \notin databases
    /\ Return(u, "UNKNOWN_DB")
    /\ UNCHANGED <<lock, registry, heap, locals, left>>

\* Mutant: the name is not erased from name2id.
RemoveIdOnly(u) ==
    /\ req[u] = "remove" /\ Goto(u, "write1", "write2")
    /\ id[u] \in databases
    /\ nm' = [nm EXCEPT ![u] = id2name[id[u]]]
    /\ id2name' = [id2name EXCEPT ![id[u]] = None]
    /\ UNCHANGED <<lock, databases, name2id, shared, heap, req, id, res, ret, left>>

\* id2name.erase(db_id), then name2id.erase(dbname): whatever id the name has.
RemoveNames(u) ==
    /\ req[u] = "remove" /\ Goto(u, "write1", "write2")
    /\ id[u] \in databases
    /\ nm' = [nm EXCEPT ![u] = id2name[id[u]]]
    /\ id2name' = [id2name EXCEPT ![id[u]] = None]
    /\ name2id' = [n \in Names |-> IF n = id2name[id[u]] THEN None ELSE name2id[n]]
    /\ UNCHANGED <<lock, databases, shared, heap, req, id, res, ret, left>>

\* Mutant: the datastore is dropped from the maps and not deleted.
RemoveWithoutDelete(u) ==
    /\ req[u] = "remove" /\ Goto(u, "write2", "wrunlock")
    /\ databases' = databases \ {id[u]}
    /\ Return(u, "SUCCESS")
    /\ UNCHANGED <<lock, name2id, id2name, shared, heap, locals, left>>

RemoveDatabase(u) ==
    /\ req[u] = "remove" /\ Goto(u, "write2", "wrunlock")
    /\ heap' = heap \ {id[u]}
    /\ databases' = databases \ {id[u]}
    /\ Return(u, "SUCCESS")
    /\ UNCHANGED <<lock, name2id, id2name, shared, locals, left>>

RemoveAllCall(u) ==
    /\ Accept(u, "remove_all", None, None, "wrlock")
    /\ UNCHANGED <<lock, registry, heap, ret>>

RemoveAllDelete(u) ==
    /\ req[u] = "remove_all" /\ Goto(u, "write1", "write2")
    /\ heap' = heap \ databases
    /\ UNCHANGED <<lock, registry, locals, ret, left>>

\* Mutant: id2name is not cleared.
RemoveAllKeepsNames(u) ==
    /\ req[u] = "remove_all" /\ Goto(u, "write2", "wrunlock")
    /\ databases' = {}
    /\ name2id' = [n \in Names |-> None]
    /\ Return(u, "SUCCESS")
    /\ UNCHANGED <<lock, id2name, shared, heap, locals, left>>

RemoveAllClear(u) ==
    /\ req[u] = "remove_all" /\ Goto(u, "write2", "wrunlock")
    /\ databases' = {}
    /\ name2id' = [n \in Names |-> None]
    /\ id2name' = [a \in Addrs |-> None]
    /\ Return(u, "SUCCESS")
    /\ UNCHANGED <<lock, shared, heap, locals, left>>

-----------------------------------------------------------------------------
(* Requests that only read the registry.                                   *)

\* sdskv_provider_count_databases, sdskv_count_db_ult
CountCall(u) ==
    /\ Accept(u, "count", None, None, "rdlock")
    /\ UNCHANGED <<lock, registry, heap, ret>>

\* The count is kept as the set whose size it is.
Count(u) ==
    /\ req[u] = "count" /\ Goto(u, "read", "rdunlock")
    /\ res' = [res EXCEPT ![u] = databases]
    /\ Return(u, "SUCCESS")
    /\ UNCHANGED <<lock, registry, heap, req, nm, id, left>>

\* sdskv_provider_list_databases
ListCall(u) ==
    /\ Accept(u, "list", None, None, "rdlock")
    /\ UNCHANGED <<lock, registry, heap, ret>>

BoundNames == {n \in Names : name2id[n] # None}

List(u) ==
    /\ req[u] = "list" /\ Goto(u, "read", "rdunlock")
    /\ res' = [res EXCEPT ![u] = {name2id[n] : n \in BoundNames}]
    /\ Return(u, "SUCCESS")
    /\ UNCHANGED <<lock, registry, heap, req, nm, id, left>>

\* sdskv_list_db_ult stops after in.count names.
ListRpcCall(u) ==
    /\ Accept(u, "list_rpc", None, None, "rdlock")
    /\ UNCHANGED <<lock, registry, heap, ret>>

FirstNames(c) ==
    {n \in BoundNames : Cardinality({m \in BoundNames : m < n}) < c}

ListRpc(u) ==
    /\ req[u] = "list_rpc" /\ Goto(u, "read", "rdunlock")
    /\ \E c \in 0..Cardinality(Names) :
           res' = [res EXCEPT ![u] = {name2id[n] : n \in FirstNames(c)}]
    /\ Return(u, "SUCCESS")
    /\ UNCHANGED <<lock, registry, heap, req, nm, id, left>>

\* sdskv_open_ult
OpenCall(u) ==
    \E n \in Names :
        /\ Accept(u, "open", n, None, "rdlock")
        /\ UNCHANGED <<lock, registry, heap, ret>>

Open(u) ==
    /\ req[u] = "open" /\ Goto(u, "read", "rdunlock")
    /\ id' = [id EXCEPT ![u] = name2id[nm[u]]]
    /\ Return(u, IF name2id[nm[u]] = None THEN "DB_NAME" ELSE "SUCCESS")
    /\ UNCHANGED <<lock, registry, heap, req, nm, res, left>>

-----------------------------------------------------------------------------
(* Handlers that find a database and then work on it.                      *)

\* Any id may come in: clients keep ids for as long as they like.
AccessCall(u) ==
    \E a \in Addrs, r \in {"access", "migrate_db"} :
        /\ Accept(u, r, None, a, "rdlock")
        /\ UNCHANGED <<lock, registry, heap, ret>>

\* FIND_DATABASE, and the same lines written out in the migration handlers
FindDatabase(u) ==
    /\ req[u] \in {"access", "migrate_db"} /\ Goto(u, "read", "rdunlock")
    /\ Return(u, IF id[u] \in databases THEN "SUCCESS" ELSE "UNKNOWN_DB")
    /\ UNCHANGED <<lock, registry, heap, locals, left>>

\* The lock is released before the pointer is used ...
FoundUnlock(u) ==
    /\ req[u] \in Users /\ ret[u] = "SUCCESS"
    /\ Goto(u, "rdunlock", "use")
    /\ readers' = readers \ {u}
    /\ UNCHANGED <<writer, registry, heap, locals, ret, left>>

\* ... and on every other path the request ends there.
Rdunlock(u) ==
    /\ ~(req[u] \in Users /\ ret[u] = "SUCCESS")
    /\ Goto(u, "rdunlock", "idle")
    /\ readers' = readers \ {u}
    /\ Finish(u)
    /\ UNCHANGED <<writer, registry, heap, ret, left>>

\* The handler's calls on db, and the transfers and RPCs it waits for; or the files
\* of a database that is received do not arrive or cannot be opened.
UseDatabase(u) ==
    /\ Goto(u, "use", "idle")
    /\ Finish(u)
    /\ UNCHANGED <<lock, registry, heap, ret, left>>

\* sdskv_migrate_database_ult with remove_src: after the fileset is sent the
\* handler calls sdskv_provider_remove_database, which takes the lock again.
MigrateRemovesSource(u) ==
    /\ req[u] = "migrate_db" /\ Goto(u, "use", "wrlock")
    /\ req' = [req EXCEPT ![u] = "remove"]
    /\ UNCHANGED <<lock, registry, heap, nm, id, res, ret, left>>

-----------------------------------------------------------------------------
(* The other side of a database migration, called by REMI.                 *)

ReceiveCall(u) ==
    \E n \in Names :
        /\ Accept(u, "receive", n, None, "rdlock")
        /\ UNCHANGED <<lock, registry, heap, ret>>

\* sdskv_pre_migration_callback: the name must be free now, and the type and the
\* comparison function must be known.
PreMigration(u) ==
    /\ req[u] = "receive" /\ Goto(u, "read", "rdunlock")
    /\ \E known \in BOOLEAN :
           Return(u, IF known /\ name2id[nm[u]] = None THEN "SUCCESS" ELSE "REFUSED")
    /\ UNCHANGED <<lock, registry, heap, locals, left>>

\* sdskv_post_migration_callback: the files have arrived, and it attaches the
\* database, whatever has become of the name.
PostMigration(u) ==
    /\ req[u] = "receive" /\ Goto(u, "use", "wrlock")
    /\ \E a \in Addrs \ heap :
           id' = [id EXCEPT ![u] = a] /\ heap' = heap \cup {a}
    /\ req' = [req EXCEPT ![u] = "attach"]
    /\ UNCHANGED <<lock, registry, nm, res, ret, left>>

-----------------------------------------------------------------------------
Arrival(u) ==
    \/ AttachFails(u) \/ AttachOpen(u) \/ RemoveCall(u) \/ RemoveAllCall(u)
    \/ CountCall(u) \/ ListCall(u) \/ ListRpcCall(u) \/ OpenCall(u) \/ AccessCall(u)
    \/ ReceiveCall(u)

Step(u) ==
    \/ Rdlock(u) \/ Wrlock(u) \/ Rdunlock(u) \/ Wrunlock(u)
    \/ AttachNames(u) \/ AttachDatabase(u)
    \/ RemoveUnknown(u) \/ RemoveNames(u) \/ RemoveDatabase(u)
    \/ RemoveAllDelete(u) \/ RemoveAllClear(u)
    \/ Count(u) \/ List(u) \/ ListRpc(u) \/ Open(u)
    \/ FindDatabase(u) \/ FoundUnlock(u) \/ UseDatabase(u) \/ MigrateRemovesSource(u)
    \/ PreMigration(u) \/ PostMigration(u)

\* No request left to serve: the only state in which nothing happens.
Quiescent == left = 0 /\ (\A u \in ULTs : pc[u] = "idle") /\ UNCHANGED vars

Next == (\E u \in ULTs : Arrival(u) \/ Step(u)) \/ Quiescent

Spec == Init /\ [][Next]_vars

\* Argobots schedules every runnable ULT, and wakes a waiter of a free lock.
FairSpec == Spec /\ \A u \in ULTs : WF_vars(Step(u))

-----------------------------------------------------------------------------
(* Correctness.                                                            *)

TypeOK ==
    /\ readers \subseteq ULTs /\ writer \in ULTs \cup {None}
    /\ databases \subseteq Addrs /\ heap \subseteq Addrs
    /\ name2id \in [Names -> Addrs \cup {None}]
    /\ id2name \in [Addrs -> Names \cup {None}]
    /\ pc \in [ULTs -> PCs]
    /\ req \in [ULTs -> Requests \cup {None}]
    /\ nm \in [ULTs -> Names \cup {None}]
    /\ id \in [ULTs -> Addrs \cup {None}]
    /\ res \in [ULTs -> SUBSET Addrs]
    /\ ret \in [ULTs -> Codes]
    /\ left \in 0..MaxRequests

\* The three maps agree and hold no pointer to a deleted datastore.
Consistent ==
    /\ databases = {a \in Addrs : id2name[a] # None}
    /\ databases \subseteq heap
    /\ \A n \in Names : name2id[n] # None => id2name[name2id[n]] = n

\* Whoever holds the read lock (FIND_DATABASE, sdskv_open_ult, the listings)
\* sees databases, name2id and id2name agree and every pointer in them live,
\* although attach, remove and remove_all change the maps one after another.
ReaderSeesConsistentRegistry == readers # {} => Consistent

\* A datastore between open_datastore and its insertion in the maps.
Attaching(u) == req[u] = "attach" /\ pc[u] \in {"wrlock", "write1", "write2"}

BeingAttached == {id[u] : u \in {v \in ULTs : Attaching(v)}}

\* While nobody writes, the allocated datastores are exactly the registered
\* ones and those being attached: remove, remove_all and a second attach under
\* the same name neither lose a datastore nor leave a deleted one registered.
NoLeakNoDangling == writer = None => heap = databases \cup BeingAttached

\* An id that stays registered keeps its name: erasing the maps on removal is
\* what makes the reuse of an address by a later datastore harmless here.
NameOfIdIsStable ==
    [][\A a \in Addrs :
          id2name[a] # None /\ id2name'[a] # None => id2name'[a] = id2name[a]]_vars

\* sdskv_provider_list_databases, called with an array sized by
\* sdskv_provider_count_databases, returns only databases being managed, and
\* every one whose name no two of them have ever shared.  The others may be
\* missing: the listing goes by name, a second attach takes the name away, and
\* its removal does not give it back.
ListIsComplete ==
    \A u \in ULTs : req[u] = "list" /\ pc[u] = "rdunlock" =>
        /\ res[u] \subseteq databases
        /\ {a \in databases : id2name[a] \notin shared} \subseteq res[u]

\* The comment on the lock in sdskv_server_context_t has every operation hold
\* it, so no datastore is deleted under a handler that works on it.
UsedDatabaseIsLive ==
    \A u \in ULTs : pc[u] = "use" /\ req[u] # "receive" => id[u] \in heap

\* Every request ends: no path of a handler leaves the lock held or waits for
\* it while holding it (sdskv_migrate_database_ult calls
\* sdskv_provider_remove_database, which takes the write lock).
EveryRequestCompletes == \A u \in ULTs : pc[u] # "idle" ~> pc[u] = "idle"

-----------------------------------------------------------------------------
(* The inductive invariant behind the proofs of ProviderProofs.            *)

InWrite2(u, r) == req[u] = r /\ pc[u] = "write2"

\* The pc of a ULT tells whether it holds the lock, and how.
LockInv ==
    /\ \A u \in ULTs : u \in readers <=> pc[u] \in {"read", "rdunlock"}
    /\ \A u \in ULTs : writer = u <=> pc[u] \in {"write1", "write2", "wrunlock"}
    /\ writer # None => readers = {}

\* Only the requests that change the registry get to the write lock, and every
\* request has the arguments its steps use.
RequestInv ==
    \A u \in ULTs :
        /\ pc[u] = "idle" <=> req[u] = None
        /\ pc[u] \in {"wrlock", "write1", "write2", "wrunlock"} <=> req[u] \in AdminWrites
        /\ req[u] \in {"attach", "remove", "access", "migrate_db"} => id[u] \in Addrs
        /\ req[u] \in {"attach", "open", "receive"} => nm[u] \in Names

\* Datastores being attached have one owner each and are not registered, unless
\* at the address of one that remove_all has deleted and not yet cleared.
AttachInv ==
    \A u \in ULTs : Attaching(u) =>
        /\ id[u] \notin databases \/ \E v \in ULTs : InWrite2(v, "remove_all")
        /\ \A v \in ULTs : Attaching(v) /\ id[v] = id[u] => v = u

\* A bound name is the name of the id it is bound to.
NamesInv == \A n \in Names : name2id[n] # None => id2name[name2id[n]] = n

\* The ids with a name are the registered ones, but in the middle of an attach
\* or a removal.
IdsInv ==
    \A a \in Addrs :
        id2name[a] # None <=>
            \/ a \in databases /\ \A u \in ULTs : ~(InWrite2(u, "remove") /\ id[u] = a)
            \/ \E u \in ULTs : InWrite2(u, "attach") /\ id[u] = a

\* A datastore is allocated while it is registered or being attached, but in
\* the middle of remove_all.
HeapInv ==
    \A a \in Addrs :
        a \in heap <=>
            \/ a \in databases /\ \A u \in ULTs : ~InWrite2(u, "remove_all")
            \/ \E u \in ULTs : Attaching(u) /\ id[u] = a

\* A removal in its second step removes a registered database.
RemoveInv == \A u \in ULTs : InWrite2(u, "remove") => id[u] \in databases

\* A name that was never shared leads to the id that has it.
SharedInv ==
    \A a \in Addrs : id2name[a] # None /\ id2name[a] \notin shared => name2id[id2name[a]] = a

IInv == /\ TypeOK /\ LockInv /\ RequestInv /\ AttachInv
        /\ NamesInv /\ IdsInv /\ HeapInv /\ RemoveInv /\ SharedInv

=============================================================================
