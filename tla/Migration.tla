----------------------------- MODULE Migration ------------------------------
(***************************************************************************)
(* Migration of keys from a database of one provider to a database of      *)
(* another (sdskv_migrate_keys_ult, sdskv_migrate_keys_prefixed_ult,       *)
(* sdskv_migrate_all_keys_ult, sdskv_migrate_key_range_ult), while clients *)
(* keep writing to the source.                                             *)
(*                                                                         *)
(* The handler copies key after key with "put" RPCs and, when asked to     *)
(* remove the original, erases each key once its put is acknowledged.  It  *)
(* holds no lock meanwhile: every wait for the target is a point where     *)
(* other handlers of the source run.  A put RPC can fail before or after   *)
(* the target has executed it.                                             *)
(*                                                                         *)
(* list_keyvals is modelled by what it returns for byte-ordered keys: the  *)
(* first BatchSize matching keys after the start key, in order, read in    *)
(* one go.  Source and target are different databases.                     *)
(***************************************************************************)
EXTENDS Integers, FiniteSets

CONSTANTS
    Keys,          \* keys, as positive numbers in the order of the database
    Values,        \* values
    Prefixed,      \* the keys that match the prefix of a prefixed migration
    BatchSize,     \* 64 in the code
    NoOverwrite,   \* TRUE: the target was opened with no_overwrite
    Calls,         \* the migration calls clients make
    MaxCalls,      \* bound: how many of them
    MaxWrites,     \* bound: client writes
    MaxFailures,   \* bound: erases that leave the key (an error of the backend)
    None

\* A call of the client library and the RPC it sends: sdskv_migrate_keys creates
\* its handle from sdskv_migrate_key_range_id.  The other elements are RPCs sent
\* by a client of its own.
RPCs == {"keys", "range", "prefixed", "all"}

RpcOf(c) ==
    CASE c = "sdskv_migrate_keys"          -> "range"
      [] c = "sdskv_migrate_key_range"     -> "range"
      [] c = "sdskv_migrate_keys_prefixed" -> "prefixed"
      [] c = "sdskv_migrate_all_keys"      -> "all"
      [] OTHER                             -> c

Codes == {"SUCCESS", "GARBAGE", "UNKNOWN_DB", "HG", "NOT_IMPL", "LIST_ERROR", "MIGRATION"}

ASSUME MigrationConstants ==
    /\ Keys \subseteq Nat \ {0} /\ Prefixed \subseteq Keys
    /\ None \notin Keys /\ None \notin Values /\ None \notin Codes
    /\ BatchSize \in Nat \ {0}
    /\ NoOverwrite \in BOOLEAN
    /\ \A c \in Calls : RpcOf(c) \in RPCs
    /\ MaxCalls \in Nat /\ MaxWrites \in Nat /\ MaxFailures \in Nat

VARIABLES
    src, tgt,     \* the two databases
    mpc,          \* where the handler is; "idle" when no migration runs
    call, remove, \* the call being served, and whether it removes the originals
    want,         \* the keys it asks for
    start,        \* start_key, 0 when empty
    batch, full,  \* keys of the batch still to do, and whether it had BatchSize
    last,         \* the last key of the batch
    snap,         \* the values read with the batch
    cur,          \* the key being put
    reply,        \* what the target answered
    out,          \* out.ret of the last migration
    calls, writes, failures, \* how many calls, writes and failing erases are left
    acked,        \* history: what clients were told the source holds
    base,         \* history: what the source held at the call and no client changed
    moved,        \* history: keys this migration has put in the target
    kept,         \* history: keys it could not erase from the source
    raced         \* history: keys clients have written during a migration

databases == <<src, tgt>>
request   == <<call, remove, want>>
loop      == <<start, batch, full, last, snap>>
bounds    == <<calls, writes, failures>>
history   == <<acked, base, moved, kept, raced>>
vars      == <<databases, mpc, request, loop, cur, reply, out, bounds, history>>

rpc == RpcOf(call)

Store == [Keys -> Values \cup {None}]
Empty == [k \in Keys |-> None]

Init ==
    /\ src \in Store /\ tgt \in Store
    /\ mpc = "idle" /\ call = None /\ remove = FALSE /\ want = {}
    /\ start = 0 /\ batch = {} /\ full = FALSE /\ last = 0 /\ snap = Empty
    /\ cur = None /\ reply = None /\ out = None
    /\ calls = MaxCalls /\ writes = MaxWrites /\ failures = MaxFailures
    /\ acked = src /\ base = Empty /\ moved = {} /\ kept = {} /\ raced = {}

-----------------------------------------------------------------------------
(* The call, and what it asks for.                                         *)

Goto(from, to) == mpc = from /\ mpc' = to

Call(c, r, w) ==
    /\ calls > 0 /\ calls' = calls - 1
    /\ Goto("idle", "start")
    /\ call' = c /\ remove' = r /\ want' = w
    /\ start' = 0 /\ batch' = {} /\ full' = FALSE /\ last' = 0 /\ snap' = Empty
    /\ cur' = None /\ reply' = None /\ out' = None
    /\ base' = [k \in Keys |-> IF k \in w THEN src[k] ELSE None]
    /\ moved' = {} /\ kept' = {}
    /\ UNCHANGED <<databases, writes, failures, acked, raced>>

Wanted(r) == CASE r = "all" -> {Keys} [] r = "prefixed" -> {Prefixed}
               [] r = "keys" -> SUBSET Keys [] OTHER -> {{}}

\* The handler ends with a code.
Done(code) == mpc' = "idle" /\ out' = code

\* The source database is unknown, or the input, the address lookup, the bulk pull
\* of the keys or the creation of the put handle fails.
CannotStart ==
    /\ mpc = "start"
    /\ \E code \in {"UNKNOWN_DB", "HG"} : Done(code)
    /\ UNCHANGED <<databases, request, loop, cur, reply, bounds, history>>

\* sdskv_migrate_key_range_ult is not implemented.
KeyRange ==
    /\ mpc = "start" /\ rpc = "range"
    /\ Done("NOT_IMPL")
    /\ UNCHANGED <<databases, request, loop, cur, reply, bounds, history>>

\* sdskv_migrate_keys_ult has pulled the keys of the request.
PullKeys ==
    /\ rpc = "keys" /\ Goto("start", "next")
    /\ batch' = want
    /\ UNCHANGED <<databases, request, start, full, last, snap, cur, reply, out,
                   bounds, history>>

\* The two others enter the do loop.
EnterLoop ==
    /\ rpc \in {"all", "prefixed"} /\ Goto("start", "list")
    /\ UNCHANGED <<databases, request, loop, cur, reply, out, bounds, history>>

-----------------------------------------------------------------------------
(* The loop over batches.                                                  *)

\* list_keyvals(start_key, BatchSize, prefix) lists the first keys after start_key
\* and stops early only when it has BatchSize of them.
Candidates == {k \in want : src[k] # None /\ k > start}

ListKeyvals(L) ==
    /\ L \subseteq Candidates
    /\ \A k \in L, j \in Candidates : j < k => j \in L
    /\ Cardinality(L) <= BatchSize
    /\ L # Candidates => Cardinality(L) = BatchSize

\* out.ret is set on entry, but in sdskv_migrate_keys_prefixed_ult, which returns
\* an uninitialized value after its loop.
LoopCodes == IF rpc = "prefixed" THEN {"SUCCESS", "GARBAGE"} ELSE {"SUCCESS"}

\* Mutant: the loop goes on only if the batch was larger than asked for.
ListBatchNeverFull ==
    /\ Goto("list", "next")
    /\ \E L \in SUBSET Candidates :
           /\ ListKeyvals(L) /\ L # {}
           /\ batch' = L
           /\ full' = (Cardinality(L) > BatchSize)
           /\ \E k \in L : (\A j \in L : j <= k) /\ last' = k
    /\ snap' = src
    /\ UNCHANGED <<databases, request, start, cur, reply, out, bounds, history>>

ListBatch ==
    /\ Goto("list", "next")
    /\ \E L \in SUBSET Candidates :
           /\ ListKeyvals(L) /\ L # {}
           /\ batch' = L
           /\ full' = (Cardinality(L) = BatchSize)
           /\ \E k \in L : (\A j \in L : j <= k) /\ last' = k
    /\ snap' = src
    /\ UNCHANGED <<databases, request, start, cur, reply, out, bounds, history>>

ListNothing ==
    /\ mpc = "list"
    /\ ListKeyvals({})
    /\ \E code \in LoopCodes : Done(code)
    /\ UNCHANGED <<databases, request, loop, cur, reply, bounds, history>>

\* list_keyvals throws an error code.
ListThrows ==
    /\ mpc = "list"
    /\ Done("LIST_ERROR")
    /\ UNCHANGED <<databases, request, loop, cur, reply, bounds, history>>

\* Mutant: the next batch starts one key too far.
EndOfBatchSkips ==
    /\ mpc = "next" /\ batch = {}
    /\ start' = IF remove THEN start ELSE last + 1
    /\ IF full
       THEN mpc' = "list" /\ UNCHANGED out
       ELSE \E code \in LoopCodes : Done(code)
    /\ UNCHANGED <<databases, request, batch, full, last, snap, cur, reply,
                   bounds, history>>

\* Mutant: start_key is never moved.
EndOfBatchRestarts ==
    /\ mpc = "next" /\ batch = {}
    /\ start' = start
    /\ IF full
       THEN mpc' = "list" /\ UNCHANGED out
       ELSE \E code \in LoopCodes : Done(code)
    /\ UNCHANGED <<databases, request, batch, full, last, snap, cur, reply,
                   bounds, history>>

\* The batch is done: with the originals in place the next one starts after the
\* last key, otherwise again at the beginning.
EndOfBatch ==
    /\ mpc = "next" /\ batch = {}
    /\ start' = IF remove THEN start ELSE last
    /\ IF full
       THEN mpc' = "list" /\ UNCHANGED out
       ELSE \E code \in LoopCodes : Done(code)
    /\ UNCHANGED <<databases, request, batch, full, last, snap, cur, reply,
                   bounds, history>>

-----------------------------------------------------------------------------
(* One key: put it in the target, then erase it from the source.           *)

\* A batch goes in the order of its keys, with the values listed with them.
TakeKey ==
    /\ rpc # "keys" /\ Goto("next", "sent")
    /\ \E k \in batch : (\A j \in batch : k <= j) /\ cur' = k
    /\ UNCHANGED <<databases, request, loop, reply, out, bounds, history>>

\* sdskv_migrate_keys_ult reads each key when it comes to it ...
GetKey ==
    /\ rpc = "keys" /\ Goto("next", "sent")
    /\ \E k \in batch :
           /\ src[k] # None
           /\ cur' = k
           /\ snap' = [snap EXCEPT ![k] = src[k]]
    /\ UNCHANGED <<databases, request, start, batch, full, last, reply, out, bounds, history>>

\* ... and skips it when it is not there.
SkipKey ==
    /\ rpc = "keys" /\ Goto("next", "next")
    /\ \E k \in batch : src[k] = None /\ batch' = batch \ {k}
    /\ UNCHANGED <<databases, request, start, full, last, snap, cur, reply, out,
                   bounds, history>>

\* Mutant: a target that has the key keeps its value and reports success.
TargetKeepsOld ==
    /\ Goto("sent", "replied")
    /\ tgt' = [tgt EXCEPT ![cur] = IF @ = None THEN snap[cur] ELSE @]
    /\ moved' = moved \cup {cur}
    /\ reply' = "SUCCESS"
    /\ UNCHANGED <<src, request, loop, cur, out, bounds, acked, base, kept, raced>>

\* sdskv_put_ult at the target.
TargetPut ==
    /\ Goto("sent", "replied")
    /\ ~(NoOverwrite /\ tgt[cur] # None)
    /\ tgt' = [tgt EXCEPT ![cur] = snap[cur]]
    /\ moved' = moved \cup {cur}
    /\ reply' = "SUCCESS"
    /\ UNCHANGED <<src, request, loop, cur, out, bounds, acked, base, kept, raced>>

\* The target refuses: the key exists, the database is unknown, the put fails.
TargetRefuses ==
    /\ Goto("sent", "replied")
    /\ reply' = "ERROR"
    /\ UNCHANGED <<databases, request, loop, cur, out, bounds, history>>

\* margo_provider_forward or margo_get_output fails, before or after the put.
ForwardFails ==
    /\ mpc \in {"sent", "replied"}
    /\ Done("MIGRATION")
    /\ UNCHANGED <<databases, request, loop, cur, reply, bounds, history>>

PutFailed ==
    /\ mpc = "replied" /\ reply # "SUCCESS"
    /\ Done("MIGRATION")
    /\ UNCHANGED <<databases, request, loop, cur, reply, bounds, history>>

\* db->erase, whose result is ignored.
Erase(k) ==
    /\ remove
    /\ \/ src' = [src EXCEPT ![k] = None] /\ UNCHANGED <<kept, failures>>
       \/ /\ failures > 0 /\ failures' = failures - 1
          /\ kept' = kept \cup {k}
          /\ UNCHANGED src

\* Mutant: put_out.ret is not looked at.
EraseUnchecked ==
    /\ Goto("replied", "next")
    /\ batch' = batch \ {cur}
    /\ \/ Erase(cur)
       \/ ~remove /\ UNCHANGED <<src, kept, failures>>
    /\ UNCHANGED <<tgt, request, start, full, last, snap, cur, reply, out, calls, writes,
                   acked, base, moved, raced>>

\* Mutant: the test of the flag is the wrong way round.
EraseInverted ==
    /\ reply = "SUCCESS" /\ Goto("replied", "next")
    /\ batch' = batch \ {cur}
    /\ src' = IF remove THEN src ELSE [src EXCEPT ![cur] = None]
    /\ UNCHANGED <<tgt, request, start, full, last, snap, cur, reply, out, bounds, history>>

\* The put is acknowledged; the original is erased if so asked.
EraseOriginal ==
    /\ reply = "SUCCESS" /\ Goto("replied", "next")
    /\ batch' = batch \ {cur}
    /\ \/ Erase(cur)
       \/ ~remove /\ UNCHANGED <<src, kept, failures>>
    /\ UNCHANGED <<tgt, request, start, full, last, snap, cur, reply, out, calls, writes,
                   acked, base, moved, raced>>

-----------------------------------------------------------------------------
(* Clients of the source database: sdskv_put_ult and sdskv_erase_ult.      *)

Write(k, v) ==
    /\ writes > 0 /\ writes' = writes - 1
    /\ src' = [src EXCEPT ![k] = v]
    /\ acked' = [acked EXCEPT ![k] = v]
    /\ base' = [base EXCEPT ![k] = None]
    /\ raced' = IF mpc = "idle" THEN raced ELSE raced \cup {k}
    /\ UNCHANGED <<tgt, mpc, request, loop, cur, reply, out, calls, failures, moved, kept>>

ClientPut == \E k \in Keys, v \in Values : Write(k, v)

ClientErase == \E k \in Keys : src[k] # None /\ Write(k, None)

-----------------------------------------------------------------------------
Begin == \E c \in Calls, r \in BOOLEAN : \E w \in Wanted(RpcOf(c)) : Call(c, r, w)

Migrate ==
    \/ CannotStart \/ KeyRange \/ PullKeys \/ EnterLoop
    \/ ListBatch \/ ListNothing \/ ListThrows \/ EndOfBatch
    \/ TakeKey \/ GetKey \/ SkipKey
    \/ TargetPut \/ TargetRefuses \/ ForwardFails \/ PutFailed \/ EraseOriginal

Quiescent == mpc = "idle" /\ calls = 0 /\ UNCHANGED vars

Next == Begin \/ Migrate \/ ClientPut \/ ClientErase \/ Quiescent

Spec == Init /\ [][Next]_vars

\* The handler's ULT is scheduled, and a put RPC ends in an answer or an error.
FairSpec == Spec /\ WF_vars(Migrate)

-----------------------------------------------------------------------------
(* Correctness.                                                            *)

TypeOK ==
    /\ src \in Store /\ tgt \in Store /\ snap \in Store
    /\ acked \in Store /\ base \in Store
    /\ mpc \in {"idle", "start", "list", "next", "sent", "replied"}
    /\ call \in Calls \cup {None} /\ remove \in BOOLEAN /\ want \subseteq Keys
    /\ start \in Keys \cup {0} /\ last \in Keys \cup {0}
    /\ batch \subseteq Keys /\ full \in BOOLEAN /\ moved \subseteq Keys
    /\ cur \in Keys \cup {None} /\ reply \in {"SUCCESS", "ERROR", None}
    /\ out \in Codes \cup {None}
    /\ calls \in 0..MaxCalls /\ writes \in 0..MaxWrites /\ failures \in 0..MaxFailures
    /\ kept \subseteq Keys /\ raced \subseteq Keys

\* A key that clients wrote and did not erase is never in neither database,
\* whatever fails and whatever clients write meanwhile: the handlers erase an
\* original only after the target has acknowledged the key.
NoKeyVanishes ==
    \A k \in Keys : acked[k] # None => src[k] # None \/ tgt[k] # None

\* When a migration gets through its keys, each one that was asked for and that no
\* client changed meanwhile is in the target with its value, and is gone from the
\* source or still there as the flag says: batches, start_key and the test on the
\* size of the last batch skip nothing.
ThroughMeansComplete ==
    mpc = "idle" /\ out \in {"SUCCESS", "GARBAGE"} =>
        \A k \in Keys : base[k] # None =>
            /\ tgt[k] = base[k]
            /\ k \in kept \/ src[k] = IF remove THEN None ELSE base[k]

\* A migration that removes the originals and fails leaves at most one of the keys
\* it has moved in both databases, besides those whose erase failed: the one whose
\* put or erase it was at.
AtMostOneInBoth ==
    remove => Cardinality({k \in moved \ kept : base[k] # None /\ src[k] # None}) <= 1

\* A value that clients wrote before or between migrations is never lost: it is in
\* the source, or gone from there and in the target.  A write during a migration
\* may be lost, as provider->lock is not held through one: the handler erases what
\* it did not copy.
NoWriteLost ==
    \A k \in Keys \ raced : acked[k] # None =>
        src[k] = acked[k] \/ (src[k] = None /\ tgt[k] = acked[k])

\* Every migration ends once clients stop writing and erases stop failing.
MigrationEnds == mpc # "idle" ~> mpc = "idle"

-----------------------------------------------------------------------------
(* The inductive invariants behind the proofs of MigrationProofs.          *)

Working == mpc \in {"next", "sent", "replied"}

\* The key being put is one of the batch, and an acknowledged key is in the target.
PutInv ==
    /\ mpc \in {"sent", "replied"} => cur \in batch
    /\ mpc = "sent" => snap[cur] # None
    /\ mpc = "replied" /\ reply = "SUCCESS" => tgt[cur] # None
    /\ Working /\ rpc # "keys" => \A k \in batch : snap[k] # None

\* The key has been migrated as the flag says.
Migrated(k) ==
    /\ tgt[k] = base[k]
    /\ k \in kept \/ src[k] = IF remove THEN None ELSE base[k]

\* A key no client has changed is as it was in the source, or moved.
BaseInv ==
    \A k \in Keys : base[k] # None =>
        /\ mpc # "idle" => k \in want
        /\ mpc = "start" => src[k] = base[k]
        /\ src[k] = base[k] \/ (remove /\ src[k] = None /\ tgt[k] = base[k])

\* The keys still to do are in the source, and the values to put are theirs.
BatchInv ==
    Working => \A k \in batch : base[k] # None =>
        /\ src[k] = base[k]
        /\ (rpc # "keys" \/ (mpc # "next" /\ k = cur)) => snap[k] = base[k]
        /\ mpc = "replied" /\ reply = "SUCCESS" /\ k = cur => tgt[k] = base[k]

\* Keys up to start_key are done, and start_key stays empty when keys are removed.
StartInv ==
    /\ remove => start = 0
    /\ mpc \in {"list", "next", "sent", "replied"} /\ rpc # "keys" =>
           \A k \in Keys : base[k] # None /\ k <= start => Migrated(k)

\* In a batch, every key outside of it that it leaves behind is done: all keys if it
\* is the last batch, those up to its last key if the originals stay.
CoverInv ==
    Working => \A k \in Keys :
        base[k] # None /\ k \notin batch /\ (~full \/ (~remove /\ k <= last))
            => Migrated(k)

KindInv == /\ mpc = "start" => start = 0
           /\ mpc = "list" => rpc # "keys"
           /\ rpc = "keys" => ~full

\* What no client has raced with is in a batch, and in its put, with its value.
WriteInv ==
    \A k \in Keys :
        /\ acked[k] = None => src[k] = None
        /\ k \notin raced /\ k \in batch /\ acked[k] # None =>
               /\ Working /\ (rpc # "keys" \/ (mpc # "next" /\ k = cur)) => snap[k] = acked[k]
               /\ mpc = "replied" /\ reply = "SUCCESS" /\ k = cur => tgt[k] = acked[k]

\* A moved key is still in the source from its put to its erase only.
BothInv ==
    remove => \A k \in moved \ kept :
        base[k] # None /\ src[k] # None => k = cur /\ mpc \in {"replied", "idle"}

VanishInv   == TypeOK /\ PutInv /\ NoKeyVanishes
CompleteInv == /\ VanishInv /\ BaseInv /\ BatchInv /\ StartInv /\ CoverInv /\ KindInv
               /\ ThroughMeansComplete
LossInv     == VanishInv /\ WriteInv /\ NoWriteLost
OnceInv     == VanishInv /\ BothInv
=============================================================================
