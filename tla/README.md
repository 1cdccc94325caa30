# A TLA+ verification of SDSKV

SDSKV (mochi-sdskv) is a key/value microservice of the Mochi suite. A *provider* in a server
process owns a set of databases and serves RPCs on them through Margo (Mercury for RPC and bulk
transfers, Argobots for threads); a client library turns function calls into those RPCs. This
directory holds TLA+ models of its concurrent and failure-prone parts, the TLC configurations that
check them on small instances, and TLAPS proofs for every size.

Paths are relative to the repository's root, with S = `src/sdskv-server.cc`, C =
`src/sdskv-client.c` and D = `src/datastore/`. `PROJECT.json` maps each definition to the lines it
models, and lists the runs, the mutants that show that each property can fail, the hazards, the
findings and the theorems.

## 1. Inventory

| Component | State | Operations | Interacts with |
|---|---|---|---|
| Provider registry (S) | maps `databases`, `name2id`, `id2name`; an `ABT_rwlock` | attach, remove, remove_all, count, list, open | every handler looks its database up here |
| Data RPC handlers (S) | locals of one handler | put, get, length, exists, erase: single, bulk, `_multi`, `_packed` | datastore calls; bulk pulls from and pushes to the client |
| Listing handlers (S) | locals | list_keys, list_keyvals, with prefix | datastore listings; sizes pulled and pushed, items pushed into the caller's buffers |
| Key migration (S) | `start_key`, the batch, `out.ret` | migrate_keys, _prefixed, _all_keys, _key_range | put RPCs to another provider, erases at its own |
| Database migration (S) | filesets, REMI client and provider | migrate_database, pre- and post-callbacks | REMI moves the files; registry on both sides |
| Provider lifecycle, configuration (S) | RPC ids, JSON, comparison functions | register, finalize, populate from configuration | the registry |
| Datastores (D) | `std::map` and a rwlock; a LevelDB or BerkeleyDB handle; nothing (null) | put, get, exists, erase, list, and batch defaults of `AbstractDataStore` | called by handlers of any number of ULTs at once |
| Bw-tree (`src/BwTree/src/bwtree.h`, T below) | the mapping table, chains of records, `root_id` | Insert, Delete, GetValue; split, merge, consolidate | lock-free threads; records are freed by epochs |
| Bw-tree garbage collection (T) | a global epoch, one epoch and one garbage list per thread | join, leave, retire, collect | every call of the tree |
| Client library (C) | client and provider handles with reference counts | one function per RPC | RPCs to one provider |
| Wrappers, daemon, Bedrock module, shutdown tool, benchmark | none of their own | forward | |

**What is hard.** Handlers are user-level threads on several execution streams. The registry's lock
covers the lookup and not the work that follows. A database call may be several library calls. A
batch is a sequence of database calls among which other handlers run. A migration waits for another
server between reading a key and erasing it, with every kind of failure in between, and loops until
a batch is not full. The transport may fail before or after a handler has run. A scan is many
calls, with writers in between, and writes into several buffers through one bulk handle. The Bw-tree
changes its structure by sequences of compare-and-swaps whose intermediate states every other
thread meets and has to finish, and it frees memory that other threads may still be reading.

**What makes each component correct.** *Registry*: readers see three maps that agree; no datastore
is leaked or dangling; ids keep their names; listings are complete; every request completes.
*Datastore*: calls are atomic; `no_overwrite` is honoured; listings are complete and terminate.
*Data RPCs*: what a caller is told was true during its call. *Listing*: every item is in the buffer
whose size it is reported with; a scan is complete and ends. *Migration*: no key is in neither
database; no acknowledged write is lost; a successful migration is complete; every migration ends.
*Bw-tree*: it is a linearizable dictionary; structure changes lose nothing and are finished; records
are freed once, and not while they are in use.

## 2. Modules

| Module | What it is |
|---|---|
| `Provider` | the registry and its lock, under concurrent requests |
| `KVStore` | abstract: a database as a map on which calls are atomic |
| `DataStore` | the Map, LevelDB and BerkeleyDB datastores step by step, listings included; refines `KVStore` |
| `Layout` | buffers back to back in memory: where each one begins, by adding up sizes |
| `DataRpc` | the data functions of the client library and their handlers, on one database with atomic calls |
| `Listing` | the list functions of the client library and their handlers, and a caller that scans a database page by page |
| `Migration` | key migration between two databases, while clients write to the source |
| `Dictionary` | abstract: a linearizable set of pairs with Insert, Delete and GetValue |
| `BwNodes` | the records of the Bw-tree and the operators on chains of them (navigation, consolidation, splitting) |
| `BwTree` | threads working on the tree, one access to shared memory per step; refines `Dictionary` |
| `Epoch` | the epoch-based garbage collection of the Bw-tree |
| `MCProvider`, `MCDataStore`, `MCDataRpc`, `MCListing`, `MCMigration`, `MCBwTree`, `MCEpoch` | instances, workloads and symmetry sets for TLC |
| `ProviderProofs`, `DataStoreProofs`, `LayoutProofs`, `DataRpcProofs`, `ListingProofs`, `MigrationProofs`, `BwTreeProofs`, `EpochProofs` | theorems and proofs |

The layers rest on each other by assume and guarantee. `DataRpc`, `Listing` and `Migration` take
database calls as atomic, which is what `DataStoreProofs!CallsAreAtomic` proves of `DataStore`,
under its assumption (no LevelDB database with `no_overwrite`, see the observations in section 3);
the contract of the listings that `Listing` builds on is `DataStore!ListContract`, proved as
`DataStoreProofs!ListingsAreRight`, and that a listing is one look at the database is
`DataStore!ListIsOneLook`, proved as `DataStoreProofs!ListingsAreAtomic` for the Map and LevelDB.
In `BwTree` a retired chain is freed only when every call of the time it was retired has left, which
is what `EpochProofs!Safe` shows of `Epoch`; `Epoch` in turn takes it that a retired node is out of
the tree, which is `BwTree!RetiredUnreachable`.
`Provider` models a handler's work on its database as one stretch between the lookup and the end of
the request.

### Provider

A ULT serves one request at a time. `pc` says where it is (waiting for the lock, in a critical
section, using the database). A write section is two steps, so a state halfway through it is a state
of the model and only the lock keeps readers out. An id is the address of the datastore, as in the
cast of `sdskv_provider_attach_database`; `heap` is the set of allocated addresses, and an address
is reused after a delete. `access` stands for the handlers that use `FIND_DATABASE`, `migrate_db`
for the one that also removes its source. `receive` is the other side of a database migration: the
callback before it tests under the read lock that the name is free, the files are transferred by
REMI, and the callback after it goes through the steps of an attach. A failing attach (unknown
comparison function, failed open) changes nothing and is one action. `shared` is a history
variable: the names that were ever bound to two databases at once.

### DataStore and KVStore

Each thread makes one call at a time. The Map datastore takes its lock, looks the key up and acts in
separate steps; the calls into LevelDB and BerkeleyDB are one atomic step each, and `put` with
`no_overwrite` on LevelDB is two (exists, then Put). A listing moves key by key: under the read lock
(Map), on the snapshot of its iterator (LevelDB), on the living database (BerkeleyDB). Prefixes are
abstracted to the class of each key: `Matching` keys start with the prefix, `Short` keys are a
proper prefix of it, all others compare before or after. On a `Short` key the `memcmp` of the disk
backends reads past the key, so any outcome is possible. `snap` is the snapshot of a LevelDB
iterator, and for the other backends a history variable: the database when the walk began. The
refinement mapping to `KVStore` hides listings and takes a call as pending until it returns.

Every call of a storage library may fail, and each wrapper has its own idea of what to make of it. A
failed put or erase is an error. A failed get is success with an empty value in BerkeleyDB, which
knows two codes for "not there" and takes all others for success, and "not found" in LevelDB; a
failed exists is "there" in the one and "not there" in the other, the latter also in the put of
LevelDB with `no_overwrite`. A read that fails in a walk ends the listing as if there were no more
keys. `KVStore` allows these answers to a call in `failed` and to no other, and lets such a call
change nothing.

### DataRpc

A client makes one call at a time; its handler works item by item. A value is represented by its
size, the only thing the code looks at. `get_multi` and `get_packed` pack values back to back, so
what the client finds at an offset (`Layout`) is modelled by (offset, size) pairs, and reading at a
wrong offset finds nothing. `saw` and `wrote` are history variables: what each key of the request
has been since the call began, and what the call has stored and replaced. With `wrote`,
`WritesAreTrue` says that a put that reports success stored its pair, and with `no_overwrite`
replaced nothing, so that of two puts that overlap only one can report it. `TransportFails` covers a
failure before the handler runs and one after it; the `_multi` functions then return a variable that
was never set, hence either outcome. Left out: a handler that still runs after its client was told
of an error; reads that the storage library fails (`DataStore` has them); BerkeleyDB's override of
`put_multi`; the number of values that `get_packed` returns, which counts found keys. Sending a
response and receiving it are one step, and the `exists_multi` flags are read by index.

### Listing

The caller's buffers are modelled byte by byte as the bulk handles show them: one stretch of memory,
in which buffer *n* begins at the sum of the sizes before it (`Layout`). A key is the sequence of
its bytes, so a byte that lands in another buffer is seen (`Holds`). What the database lists is the
ascending sequence of the first keys after `start_key` (`Listings`); taking it in one step is
proved for the Map and LevelDB (`DataStoreProofs!ListingsAreAtomic`), and holds for BerkeleyDB if no
write falls into the walk of its cursor.
`KeySize` gives one key another length. A value is told apart by its size. The caller is external:
it starts a page after the last key of the page before, retries a call that failed with
`SDSKV_ERR_SIZE` with the sizes and the count it was told, and any other failed call afresh.
`list_keys` exposes no buffer when one of them is empty (`Exposed`), as callers that ask for sizes
rely on. `list_keyvals` does not stop at a buffer that is too small: the model follows it, marks the
scan in `overrun`, and nothing but `TooSmallFails` is claimed of the rest. `always` and `ever` are
history variables: the keys that were there throughout the scan, and at some time of it.

### Migration

One migration at a time runs on a source that clients keep writing to. Keys are numbers in the order
of the database. A put RPC to the target is executed, refused, or its answer is lost.
`sdskv_migrate_keys_prefixed_ult` never sets `out.ret` on success, modelled by "GARBAGE" next to
"SUCCESS"; `sdskv_migrate_keys` of the client library sends the key-range RPC (C:1877), modelled by
`RpcOf`. `acked` (what clients wrote), `base` (the keys no client changed since the call began),
`moved`, `kept` (keys whose erase failed) and `raced` (keys written during a migration) are history
variables. With `NoOverwrite = FALSE` a target may
still refuse any put, so these behaviours include those of a target with `no_overwrite`.

### BwNodes, BwTree and Dictionary

`heap` holds every record; a record refers to others by address, as in the code, and a chain of
delta records ends in a base node. `BwNodes` defines what the code computes on chains without
touching shared memory: navigation through inserts, deletes, splits and merges, consolidation,
splitting a base in two, and what `FreeEpochDeltaChain` frees. In `BwTree` a thread is a context
(the snapshot of the current node and of its parent, the path above it) and a `pc` that names its
next access to shared memory. An action is that access (a load of `root_id` or of an entry, or the
compare-and-swap of `InstallNodeToReplace`) with the local work up to the next one. Records and
node ids are allocated in the step that links them, as they are private until then. The thresholds
are constants (the code has nodes of 32 to 128 items and chains of 8 records; small values make
structure changes frequent); a workload loads the tree with one thread and then lets the others
loose on it. `content` and `answers` are history variables: the set of pairs, and the answers that
were right during a call; the refinement mapping to `Dictionary` reads them. Reading the parent
snapshot of a read-optimized traversal before it is set (T:5496-5517) is undefined behaviour: the
thread goes to the `pc` "undefined" and nothing more is claimed of its call. A failed assertion, and
a load of an id whose entry holds no node (`HasNode`, the assertions of `GetNode`), ends in the `pc`
"failed". The operators on chains are recursive functions over addresses, so that theorems can be
stated in modules that use them.

`garbage` is the bag of retired chains, each with the threads that were in a call when it was
retired (`users`); a thread that returns is no longer one of them. `Collect` frees the chains
without users, also while calls that began later are under way, as `PerformGC` does. What is freed
when no call is under way is used again (`FreeCell`); what is freed beside a call is not
(`LostCell`), so that any later access to it would show. `FreedOnce` says that there is none:
nothing that a call under way may read or compare with is freed, and so no address that it holds is
used again either.

A node is removed under a lock: `PostAbortOnParent` puts an abort record on the parent's entry, at
which every other compare-and-swap on that entry fails, and `RemoveAbortOnParent` takes it away.
`AbortIsOwned` says that this record works as a lock and has one owner; `RemovedIsFrozen`, that the
remove record posted under it is the last of its node until the collector clears the entry. A thread
that loads an entry looks through an abort record (`UnderAbort`), so threads do carry snapshots of a
locked parent, and only the compare-and-swap keeps them from changing it.

### Epoch

Each thread publishes the global epoch when it joins and when it leaves a call, in two steps (it
reads, then writes). A node that is taken out of the tree goes to the thread's own list with the
global epoch of that moment. A collection reads the slots of all threads one by one, takes the
minimum, and frees from the head of its own list while a node is older. `held` is the set of nodes
that a call may refer to, which the code does not know.

One slot per thread is the contract of the library, and `Epoch` models a caller that keeps it. The
caller in this repository does not: `bwtree_datastore.cc:42-43` (in D) sets up one slot and assigns
it to the thread that opens the database, and every other thread keeps the `gc_id` -1 of
`bwtree.cpp:29`, which is an index outside of the array. What the model shows of the collection, and
what `BwTree` takes from it, therefore holds of the datastore only when that one thread makes all
calls.

## 3. Runs

| Run | Shows | Bounds |
|---|---|---|
| `registry` | `ReaderSeesConsistentRegistry`, `NoLeakNoDangling`, `ListIsComplete`, `NameOfIdIsStable`, `EveryRequestCompletes` | 2 ULTs, 2 names, 2 addresses, 5 requests: two attaches, a removal, a reuse of the address and a reader; duplicate names and both sides of a database migration |
| `registry_use` | violation of `UsedDatabaseIsLive` | 2 ULTs, 1 address |
| `store` | `Implements` (refinement of `KVStore`) | 3 threads on one key, where all conflicts are; every backend whose put is one step; any library call may fail |
| `store_list` | `ListContract`, `ListIsOneLook`, `EveryCallReturns` | 2 threads, one with 1 call and one with 2, listings, puts and erases; 4 keys: one shorter than the prefix, two that match, one after them; counts 1 and 2, start keys 0 and 2; reads may fail |
| `rpc` | `ReadsAreFresh`, `WritesAreTrue` | one call of every reading or batch function with up to 2 items, beside a put or an erase by another client; sizes 0 and 1, of which 1 exceeds the eager limit |
| `rpc_batch` | violation of `EveryPairIsStored` | one put_packed of 2 pairs |
| `listing` | `PageIsRight`, `ScanIsComplete`, `ScanEnds` | pages of 2 out of 3 wanted keys (a full and a last page), one key longer than the others, buffers of sizes 0, 1 and 2, a write by another client and a failure at any step |
| `listing_keyvals` | violation of `TooSmallFails` | the same |
| `migration` | `NoKeyVanishes`, `ThroughMeansComplete`, `NoWriteLost`, `AtMostOneInBoth`, `MigrationEnds` | 2 migrations of any kind in a row, 2 keys in batches of 1 (every batch full, then an empty one), 2 client writes before, between or during them, one failure at any step |
| `bwtree` | `ImplementsDictionary` (refinement), `LeavesHoldContent`, `CountsExact`, `QuiescentClean`, `NoAssertionFails`, `EveryCallReturns` | 2 threads and 2 or 3 concurrent calls on trees that are about to split a leaf, merge two, split a merged one again, or grow a level, with chains freed beside later calls; lookups beside splits only, and no root split beside a removal (see below); thresholds of 4 and 1, consolidation at each record |
| `bwtree_merge` | `FreedOnce`, `RetiredUnreachable`, `LeavesHoldContent`, `NoAssertionFails`, `AbortIsOwned`, `RemovedIsFrozen` | 2 threads and 2 concurrent calls on a tree of three levels that is about to merge leaves and inner nodes |
| `epoch` | `NoUseAfterFree`, `NothingLeftBehind` | 2 threads, 3 nodes, epochs up to 2, a collection from 1 node on |

The passing runs check `TypeOK` as well, but `store` and `bwtree_merge`, whose sisters do. A step
that changes nothing (`Quiescent`, or `Finished` in `Listing` and `BwTree`) stands for the end of a
finite load; any other state without a successor is reported as a deadlock.

**Why the bounds are enough.** Conflicts are pairwise: two writers and a reader, or two calls on one
key. A batch boundary needs one full batch and one more key; an off-by-one in an offset or a start
key needs two items. A structure change of the Bw-tree involves a node, its sibling and its parent,
so a tree of three levels has every case; the workloads start right before one, so that the few
concurrent calls all fall into it. The theorems cover the other sizes for the properties they name.

**Fairness.** Weak fairness on the steps of each ULT (`registry`, `store_list`): Argobots schedules
every ULT that can run, and the loads are finite, so a lock a ULT waits for becomes free for good.
Weak fairness of the handler (`migration`): an RPC ends in an answer or an error, and erases fail
finitely often. Weak fairness of the caller and its handler (`listing`); writes by others are
finitely many, as a writer that keeps lengthening a key can defeat any caller. Weak fairness on the
steps of each thread (`bwtree`): the operating system schedules every thread; no more is assumed,
so progress comes from the helping in the code. It is written with its ENABLED spelled out
(`BwTree!Fairness`: a thread in a call always has a step, which changes its context), which spares
TLC the evaluation of every action. Arrivals, client writes and failures are never
assumed fair.

### Disagreements with the repository

| Run | What the code does | What is said of it |
|---|---|---|
| `registry_use` | the lookup releases the lock before the database is used; a removal can delete it meanwhile | S:112, the lock is "write-locked during migration, read-locked by all other operations" |
| `rpc_batch` | the result of each item replaces an earlier error, so a batch with a refused pair returns SUCCESS | `include/sdskv-client.h:200`, "SDSKV_SUCCESS or error code" |
| `listing_keyvals` | a key or value larger than its buffer is pushed over the next one, and the call succeeds | `include/sdskv-client.h:529`, "If a buffer for a key or a value is too small, the call will fail" |

Observed without a run of their own. Where a property leaves such a case out, its text says so.

* Registry: two databases attached under one name leave the first unlisted, also when the second
  arrives by a migration whose callback had found the name free (`ListIsComplete` speaks of names
  never shared). Comparison functions are looked up outside of the lock, and set when the database
  has been opened already (S:661-668).
* Migration: a value put between the read of a key and the erase of its original is in neither
  database (`NoWriteLost` leaves out keys written during a migration). Erases that keep failing make
  a migration that removes its originals loop for ever. A migration onto its own source erases what
  it has just put. What clients write while REMI copies files is lost.
* Datastores: LevelDB with `no_overwrite` tests and puts in two calls, so two handlers can both
  succeed (with such a database among `Configs`, TLC finds `Implements` violated, which is why its
  text leaves it out). A key shorter than the prefix leaves the walk of the Map where it is, for
  ever, with the read lock held (`EveryCallReturns` leaves the calls out that then never return:
  `AtShortKey`), and the disk backends compare past the end of such a key (`LongKeys` leaves their
  listings out of `ListContract` and `ListIsOneLook`). BerkeleyDB's get takes most errors for an
  empty value, and a listing that fails half-way looks complete (`KVStore` and `ListContract` say
  so); BerkeleyDB's `put_multi` ignores `no_overwrite`. The range listings of the Map, which no
  handler calls, return with the lock held.
* Data RPCs: `get_packed` does not reduce the memory it may use and can pack more than the buffer
  holds (`Overrun`, exempted in `ReadsAreFresh`). The `_multi` functions return an unset value when
  the transport fails (exempted in `WritesAreTrue`). `erase_multi` ignores failures. `exists_multi`
  and `sdskv_proxy_put_packed` free what they do not own on error paths.
* Lifecycle: finalization deregisters 21 of the 25 RPCs before it deletes the provider
  (`put_packed`, `get_packed`, `length_packed` and `exists_multi` remain), and
  `populate_provider_from_config` keeps only the result of the last attach.
* Bw-tree: a lookup that passes a merge record uses index bounds of one branch in the base of the
  other (T:4375) and can miss a pair. TLC finds it with the load 1 to 4 and the deletion of 3,
  followed by inserts of 3 and 4 beside a lookup of 2; the workloads of `bwtree` therefore look up
  beside splits only, and `ImplementsDictionary` says so. A thread that read `root_id` before the
  root split and meets a remove or merge record on the node it takes for the root fails the
  assertion at T:5159, coming from T:5989; no workload has a root split beside a removal, and
  `NoAssertionFails` says so. The datastore on top of the tree no longer matches `AbstractDataStore`
  and is built only with `--enable-bwtree`, which `configure.ac` calls deprecated.

## 4. Proofs

All theorems hold for every value of the constants that satisfies the named assumption of the module
(`ProviderConstants`, `DataStoreConstants`, `DataRpcConstants`, `ListingConstants`,
`MigrationConstants`, and `ConstantsAssumption` of `Epoch`; `BwTree` needs none), and TLC evaluates
those assumptions in every run. `DataStoreProofs!CallsAreAtomic` and the theorems of `BwTreeProofs`
have a hypothesis besides, named below. The inductive invariants were checked by TLC on the
instances of the runs before they were proved.

* **ProviderProofs**: `TypeCorrect`, `ReadersAreSafe`, `RegistryOwnsHeap`, `IdsAreStable` and
  `ListingIsComplete`, which needs that a name never shared leads to its id (`SharedInv`). The
  invariant `IInv` says who holds the lock (`LockInv`), what a request carries (`RequestInv`), and
  how the maps and the heap differ from their resting state in the middle of each write section
  (`NamesInv`, `IdsInv`, `HeapInv`, `AttachInv`, `RemoveInv`). The properties speak of moments
  without a writer only, so they are not inductive: what holds inside the sections has to be said.
  `AttachInv` has one exception: `remove_all` deletes first and clears the maps afterwards, and in
  between an attach may receive an address that is still in the map.
* **MigrationProofs**: `TypeCorrect` and `KeysNeverVanish` from `VanishInv` (an acknowledged key is
  in the target before its original is erased), and `MigrationIsComplete` from `CompleteInv`: the
  keys up to `start_key` are done (`StartInv`), the keys of a batch are unchanged (`BatchInv`), and
  what a last batch leaves out is done (`CoverInv`). `WritesSurvive` needs that the value of a batch
  or a put is the acknowledged one unless a client raced (`WriteInv`), and `OneInBothAtMost` that a
  moved key is still in the source from its put to its erase only (`BothInv`).
* **DataStoreProofs**: `TypeCorrect`, and `CallsAreAtomic`: `DataStore` implements `KVStore` if no
  database is a LevelDB one with `no_overwrite` (`PutIsAtomic`). `IInv` adds that whoever has looked
  a key up in the Map holds the lock (`LockInv`), that what it found is still so (`FoundInv`), and
  that threads are only where their call takes them (`CallInv`). One lemma per kind of step maps it
  to a step of `KVStore` or to a stutter, the steps in which a library fails to the failures of
  `KVStore`. `ListingsAreRight` proves `ListContract` for listings that walk key by key while others
  write. The contract is false of a disk backend that compares a key shorter than the prefix, as the
  comparison reads past the key; `LongKeys` leaves such a listing out, by its own history and not by
  the constants. A listing cut short by a failure is right in what it has. The contract speaks of
  the end of a walk, so `WalkInv` says what holds in its middle: the history brackets what the walk
  sees, be it the database or a snapshot of it (`Bracketed`), no key up to the cursor is missed that
  was there throughout, and a walk that has ended missed none beyond it unless it was full
  (`Walking`). `ListingsAreAtomic` proves `ListIsOneLook` with the same exceptions: `ViewInv` says
  that the walk has every wanted key of `snap` up to the cursor and no other, and that the living
  map of a thread that walks it is `snap` still, which needs the read lock of `LockInv`.
* **LayoutProofs**: the lemmas about sums of sizes that the next two need: buffers do not overlap
  and lie within the whole (`BuffersApart`), an offset depends on the earlier sizes only
  (`OffsetsAgree`), and appending a size moves none (`OffsetsAppend`). They are inductions over the
  number of buffers. The sums are a recursive function, not a RECURSIVE operator; that there is such
  a function is shown by building tables (`TableExists`, `EndsTable`), and every induction goes
  through the least counterexample (`LeastNat`, `UpTo`), which is a set and not an operator.
* **DataRpcProofs**: `TypeCorrect`, and `WritesAreReported`. `CallOK` says that the history of a
  call under way includes the present, and that what its handler has found out so far is true
  already; truth about a write is stable as histories grow (`TruthIsStable`), so each step is looked
  at for the client that takes it only (`QuietStep`, `WritingStep`); that a put is true of its pair
  rests on `wrote`, which only its own steps extend. `ReadsAreJustified` proves `ReadsAreFresh`:
  `ReadInv` says of a handler that reads that each item it has passed has a right answer
  (`ReadingOK`), and that each packed value lies where the sizes reported so far add up to
  (`PackedOK`), which is where the client will look for it.
* **ListingProofs**: `TypeCorrect`, `PagesAreRight` and `ScansAreComplete`, for keys, buffers and
  pages of any size and any number of writes and failures. `IInv` says that the handler works with
  the sizes of the call (`RequestInv`), that the page has every key it should (`PageInv`), how much
  of it is in the caller's memory and where the next item goes (`HandlerInv`), that what fits is
  what is said to fit (`SizesInv`), what each answer means (`AnswerInv`), and that the scan has all
  up to `start_key` (`ScanInv`). The heart is that a push reaches its own buffer only (`HandlerInv`
  is preserved because of `BuffersApart`), which fails as soon as an item is larger than its buffer:
  hence the exception for `overrun`, where `list_keyvals` goes on.
* **BwTreeProofs**: `LocksAreOwned` (`AbortIsOwned`), `RemovedStays` (`RemovedIsFrozen`),
  `UnlockSucceeds` (the compare-and-swap that the code comments with "this CAS must succeed", a part
  of `NoAssertionFails`) and `NoLockAtRest` (half of `QuiescentClean`), for any number of threads,
  any calls, keys and thresholds. Their hypothesis is `[]FreedOnce`: a step of the collector frees
  nothing that a live entry, a snapshot or a lock refers to, which TLC checks in `bwtree_merge`.
  `AbortIsOwned` is not inductive. That nobody's compare-and-swap removes a lock by accident is
  decided when a snapshot is taken; so `LockInv` adds that a snapshot is never of an abort record,
  the parent's never of a remove record, the current node's of a remove record only on the way to
  its left sibling, and that a context has the snapshots its next step takes for granted
  (`ContextOK`). An address is used again after it was freed, so the invariant also needs that
  entries and snapshots are in use (`EntriesInUse`, `Held`), or else a stale snapshot could match a
  new record. The local work between two accesses is covered once and for all by lemmas that say of
  each operator that the context it ends in is in order and holds no lock (`NavigateGoesOn` to
  `FinishGoesOn`); every step then adds records and changes only entries that are neither locked nor
  removed (`Changes`, `LocksStay`), but for the three that take, keep and give back the lock
  (`LockMoves`) and the collector, which runs beside the calls (`CollectStep`, where the hypothesis
  is used).
* **EpochProofs**: `TypeCorrect`, `Safe` (no use after free) and `Complete`. `NoUseAfterFree` is not
  inductive: that a node is freed too early is decided when its epoch is written, long before. `Inv`
  adds that published epochs are never ahead of the global one (`EpochsBehind`), that nodes are held
  only within calls (`HeldInCall`), that a node of the tree is on no list (`LinkedApart`), that what
  a collector has summarized so far bounds the slots it has read, which only grow (`SummaryBound`),
  and the heart of it: a retired node that a call holds was retired in an epoch no earlier than the
  one the call published (`HeldYoung`). Lists are in the order of their epochs (`ListSorted`).

**Only model-checked**: the liveness properties (fairness is beyond the prover), and the invariants
of `BwTree` that speak of whole chains: `LeavesHoldContent`, `CountsExact`, `FreedOnce`,
`RetiredUnreachable`, the remove records of `QuiescentClean`, the other assertions of
`NoAssertionFails`, the counters of `TypeOK`, and the refinement of `Dictionary`. What they say is
computed by recursion through the heap; unfolding such a function needs that every chain ends in a
base node, and then an induction over the chain for what it returns, which is induction over data.

## 5. Not modelled

The libraries (Margo, Mercury, Argobots, REMI, LevelDB, BerkeleyDB) are external, described by what
the code relies on. Sizes do not overflow and memory is not exhausted. Of the Bw-tree: iterators and
backward traversals, `ConditionalInsert`, the sorted small set and the bloom filter that collect the
values of one key (modelled by the set they compute), the allocator of records next to their base,
and the older list of epochs, which is compiled out. The lifecycle of a provider and its
configuration run once and in sequence: registrations and JSON. The files that a database migration
moves are REMI's. Memory management of the client library, serialization, the null datastore (no
state), the C++ wrappers, the daemon, the Bedrock module, the shutdown tool and the benchmark have
no protocol of their own. Functions that no handler reaches (`vlist_key_range`,
`vlist_keyval_range`) are left out.

## 6. Plan

Done, in this order: `Provider`; `KVStore` and `DataStore`; `Migration`; `DataRpc`; their proofs;
`BwNodes`, `Dictionary` and `BwTree`; `Epoch` and its proofs; `Listing`; the receiving side of a
database migration in `Provider`; proofs of `ListIsComplete`, `NoWriteLost` and `AtMostOneInBoth`.

Then `Layout`, and the proofs of `ListContract`, `ReadsAreFresh` and the properties of `Listing`;
last, the operators of the Bw-tree as recursive functions, its locks and the atomicity of listings,
with their proofs.

Next:

1. *Proofs about the Bw-tree*: that chains are well-founded (a rank on addresses as a history
   variable), and from it `FreedOnce`, the hypothesis of `BwTreeProofs`.
2. *Bw-tree*: iterators, which copy a consolidated leaf and move along the links among splits and
   merges; `ConditionalInsert`.
3. *Client handles*: reference counts of clients and provider handles.
