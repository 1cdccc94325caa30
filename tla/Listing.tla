------------------------------ MODULE Listing -------------------------------
(***************************************************************************)
(* Listing a database page by page: sdskv_list_keys_with_prefix and        *)
(* sdskv_list_keyvals_with_prefix of the client library with the handlers  *)
(* sdskv_list_keys_ult and sdskv_list_keyvals_ult, while other clients put *)
(* and erase.                                                              *)
(*                                                                         *)
(* The caller gives one buffer per key (and per value) and their sizes.    *)
(* The handler pulls the sizes, lists, pushes the true sizes over them and *)
(* then key after key to where the caller's buffer begins.  A bulk handle  *)
(* shows several buffers as one stretch of memory, so an offset that is    *)
(* wrong, or a key that is too long, lands in the buffer of another.       *)
(*                                                                         *)
(* The caller is external: it starts each page after the last key of the   *)
(* page before, calls again with the sizes it was given when the call      *)
(* fails with SDSKV_ERR_SIZE, and afresh when it fails otherwise.          *)
(***************************************************************************)
EXTENDS Layout, SequencesExt

CONSTANTS
    Keys,        \* keys, as positive numbers in the order of the database
    Wanted,      \* those that start with the prefix of the listings
    KeySize,     \* the size of each key
    Sizes,       \* values, which are told apart by their size only
    PageSize,    \* how many keys the caller asks for
    BufferSizes, \* the sizes of buffers it starts with
    MaxWrites,   \* bound: puts and erases
    MaxFailures, \* bound: failures of the transport
    None

Functions == {"list_keys", "list_keyvals"}
Codes == {"SUCCESS", "SIZE", "HG"}

ASSUME ListingConstants ==
    /\ Keys \subseteq Nat \ {0} /\ Wanted \subseteq Keys
    /\ KeySize \in [Keys -> Nat \ {0}]
    /\ Sizes \subseteq Nat /\ BufferSizes \subseteq Nat
    /\ PageSize \in Nat \ {0}
    /\ MaxWrites \in Nat /\ MaxFailures \in Nat
    /\ None \notin Nat \cup Codes

VARIABLES
    db,             \* the database: the size of the value of each key
    pc,             \* where the call is
    fn, start,      \* the function called, and start_key, 0 when empty
    max_keys,       \* the caller's count
    ksizes, vsizes, \* the caller's sizes
    kmem, vmem,     \* the caller's buffers, as the bulk handles show them
    kgiven, vgiven, \* remote_ksizes, remote_vsizes: the sizes before the call
    page,           \* handler: the pairs that the database has listed
    i,              \* handler: the item it transfers
    remote_offset,  \* handler
    size_error,     \* handler
    nkeys,          \* handler: out.nkeys
    ret,            \* what the call returns
    got,            \* caller: the keys received so far
    writes, fails,  \* how many writes and failures are left
    always, ever,   \* history: keys there throughout the scan, and at some time
    overrun         \* history: list_keyvals was given a buffer that is too small

caller  == <<fn, start, got>>
sizes   == <<ksizes, vsizes>>
buffers == <<kmem, vmem>>
request == <<kgiven, vgiven>>
handler == <<page, i, remote_offset, size_error, nkeys>>
history == <<always, ever>>
vars    == <<db, pc, caller, max_keys, sizes, buffers, request, handler, ret, writes, fails,
             history, overrun>>

Present == {k \in Keys : db[k] # None}

Init ==
    /\ db \in [Keys -> Sizes \cup {None}]
    /\ pc = "idle" /\ fn \in Functions /\ start = 0
    /\ max_keys = 0 /\ ksizes = <<>> /\ vsizes = <<>> /\ kmem = <<>> /\ vmem = <<>>
    /\ kgiven = <<>> /\ vgiven = <<>>
    /\ page = <<>> /\ i = 0 /\ remote_offset = 0 /\ size_error = FALSE /\ nkeys = 0
    /\ ret = None /\ got = <<>>
    /\ writes = MaxWrites /\ fails = MaxFailures
    /\ always = Present /\ ever = Present /\ overrun = FALSE

Goto(from, to) == pc = from /\ pc' = to

-----------------------------------------------------------------------------
(* The caller's memory.                                                    *)

KeyBytes(k) == [j \in 1 .. KeySize[k] |-> <<"key", k, j>>]
ValueBytes(k, v) == [j \in 1 .. v |-> <<"value", k, v, j>>]

\* Buffers before the call.
Fresh(s) == [p \in 1 .. Total(s) |-> None]

\* margo_bulk_transfer to an offset of a bulk handle.
Fits(mem, offset, bytes) == offset + Len(bytes) <= Len(mem)

Transfer(mem, offset, bytes) ==
    [p \in DOMAIN mem |-> IF p - offset \in DOMAIN bytes THEN bytes[p - offset] ELSE mem[p]]

\* What the caller finds at an offset of its memory.
Holds(mem, offset, bytes) ==
    Fits(mem, offset, bytes) /\ \A j \in DOMAIN bytes : mem[offset + j] = bytes[j]

-----------------------------------------------------------------------------
(* The client functions.                                                   *)

\* list_keys exposes no buffer at all when one of them is empty.
Exposed(ks) == IF fn = "list_keys" /\ \E n \in DOMAIN ks : ks[n] = 0 THEN <<>> ELSE Fresh(ks)

\* The function exposes the caller's buffers and forwards the call (list_keys returns
\* at once when asked for no key, which this caller never does).
Forward(n, ks, vs) ==
    /\ max_keys' = n /\ ksizes' = ks /\ vsizes' = vs
    /\ kmem' = Exposed(ks) /\ vmem' = Fresh(vs)
    /\ kgiven' = ks /\ vgiven' = vs
    /\ pc' = "sent" /\ ret' = None
    /\ page' = <<>> /\ i' = 0 /\ remote_offset' = 0 /\ size_error' = FALSE /\ nkeys' = 0
    /\ UNCHANGED <<db, caller, writes, fails, history, overrun>>

\* A page is asked for with buffers of one size.
NewPage ==
    /\ pc = "idle" /\ ret # "SIZE"
    /\ \E s \in BufferSizes, t \in BufferSizes :
           Forward(PageSize, [n \in 1 .. PageSize |-> s],
                   IF fn = "list_keys" THEN <<>> ELSE [n \in 1 .. PageSize |-> t])

\* The call is made again with the sizes that were returned (by list_keys).
Retry ==
    /\ pc = "idle" /\ ret = "SIZE"
    /\ Forward(max_keys, SubSeq(ksizes, 1, max_keys), vsizes)

\* Mutant: the count asked for is returned.
ReturnCount ==
    /\ Goto("answered", "returned")
    /\ UNCHANGED <<db, caller, max_keys, sizes, buffers, request, handler, ret, writes, fails,
                   history, overrun>>

\* The call returns what the handler answered.
Return ==
    /\ Goto("answered", "returned")
    /\ max_keys' = nkeys
    /\ UNCHANGED <<db, caller, sizes, buffers, request, handler, ret, writes, fails, history,
                   overrun>>

\* The client cannot create a bulk handle or forward the call, or the answer is lost.
TransportFails ==
    /\ pc \in {"sent", "answered"}
    /\ fails > 0 /\ fails' = fails - 1
    /\ pc' = "returned" /\ ret' = "HG"
    /\ UNCHANGED <<db, caller, max_keys, sizes, buffers, request, handler, writes, history,
                   overrun>>

-----------------------------------------------------------------------------
(* The handlers.                                                           *)

Candidates == {k \in Wanted \cap Present : k > start}

Ascending(s) == \A m, n \in DOMAIN s : m < n => s[m] < s[n]

\* What the datastores list: the first n keys after start_key, in order (there is one
\* such sequence).
Listings(n) ==
    {ks \in UNION {[1 .. m -> Candidates] : m \in 0 .. n} :
        /\ Ascending(ks)
        /\ \A k \in Candidates :
               k \in Range(ks) \/ (Len(ks) = n /\ \A j \in Range(ks) : j < k)}

TooSmall(p, ks, vs) ==
    \E n \in DOMAIN p : \/ KeySize[p[n].key] > ks[n]
                        \/ fn = "list_keyvals" /\ p[n].value > vs[n]

Answer(code) == pc' = "answered" /\ ret' = code

\* A bulk handle of the handler cannot be created, or a transfer fails.
HandlerFails ==
    /\ pc \in {"sent", "sizes", "keys", "values"}
    /\ fails > 0 /\ fails' = fails - 1
    /\ Answer("HG")
    /\ UNCHANGED <<db, caller, max_keys, sizes, buffers, request, handler, writes, history,
                   overrun>>

\* Mutant: out.nkeys is set after the test of the sizes.
ListCountsLate ==
    /\ pc = "sent"
    /\ \E ks \in Listings(max_keys) :
           LET p == [n \in 1 .. Len(ks) |-> [key |-> ks[n], value |-> db[ks[n]]]]
           IN  /\ page' = p
               /\ size_error' = TooSmall(p, ksizes, vsizes)
               /\ IF p = <<>> THEN Answer("SUCCESS") ELSE pc' = "sizes" /\ UNCHANGED ret
    /\ i' = 1 /\ remote_offset' = 0 /\ nkeys' = IF size_error' THEN 0 ELSE Len(page')
    /\ UNCHANGED <<db, caller, max_keys, sizes, buffers, request, writes, fails, history, overrun>>

\* The sizes are pulled and the database lists; nothing listed is the answer.
List ==
    /\ pc = "sent"
    /\ \E ks \in Listings(max_keys) :
           LET p == [n \in 1 .. Len(ks) |-> [key |-> ks[n], value |-> db[ks[n]]]]
           IN  /\ page' = p
               /\ size_error' = TooSmall(p, ksizes, vsizes)
               /\ IF p = <<>> THEN Answer("SUCCESS") ELSE pc' = "sizes" /\ UNCHANGED ret
    /\ i' = 1 /\ remote_offset' = 0 /\ nkeys' = Len(page')
    /\ UNCHANGED <<db, caller, max_keys, sizes, buffers, request, writes, fails, history, overrun>>

true_ksizes == [n \in DOMAIN page |-> KeySize[page[n].key]]
true_vsizes == [n \in DOMAIN page |-> page[n].value]

\* The sizes pushed back: 0 where nothing was listed.
TrueSizes(given, true) ==
    [n \in DOMAIN given |-> IF n \in DOMAIN true THEN true[n] ELSE 0]

\* Mutant: list_keys fails before the true sizes are pushed.
PushSizesLate ==
    /\ pc = "sizes"
    /\ IF size_error /\ fn = "list_keys"
       THEN Answer("SIZE") /\ UNCHANGED sizes
       ELSE /\ pc' = "keys" /\ UNCHANGED ret
            /\ ksizes' = TrueSizes(kgiven, true_ksizes)
            /\ vsizes' = TrueSizes(vgiven, true_vsizes)
    /\ overrun' = (overrun \/ (size_error /\ fn = "list_keyvals"))
    /\ UNCHANGED <<db, caller, max_keys, buffers, request, handler, writes, fails, history>>

\* The true sizes are pushed.  list_keys then stops if a key does not fit;
\* list_keyvals goes on and forgets about it.
PushSizes ==
    /\ pc = "sizes"
    /\ ksizes' = TrueSizes(kgiven, true_ksizes)
    /\ vsizes' = TrueSizes(vgiven, true_vsizes)
    /\ IF size_error /\ fn = "list_keys"
       THEN Answer("SIZE")
       ELSE pc' = "keys" /\ UNCHANGED ret
    /\ overrun' = (overrun \/ (size_error /\ fn = "list_keyvals"))
    /\ UNCHANGED <<db, caller, max_keys, buffers, request, handler, writes, fails, history>>

\* Mutant: the keys are pushed back to back.
PushKeyPacked ==
    /\ pc = "keys" /\ i <= Len(page)
    /\ IF Fits(kmem, remote_offset, KeyBytes(page[i].key))
       THEN /\ kmem' = Transfer(kmem, remote_offset, KeyBytes(page[i].key))
            /\ i' = i + 1 /\ remote_offset' = remote_offset + KeySize[page[i].key]
            /\ UNCHANGED <<pc, ret>>
       ELSE Answer("HG") /\ UNCHANGED <<kmem, i, remote_offset>>
    /\ UNCHANGED <<db, caller, max_keys, sizes, vmem, request, page, size_error, nkeys, writes,
                   fails, history, overrun>>

\* The bytes of an item are pushed to the offset of its buffer; a transfer past the
\* end of the bulk handle fails.
PushKey ==
    /\ pc = "keys" /\ i <= Len(page)
    /\ IF Fits(kmem, remote_offset, KeyBytes(page[i].key))
       THEN /\ kmem' = Transfer(kmem, remote_offset, KeyBytes(page[i].key))
            /\ i' = i + 1 /\ remote_offset' = remote_offset + kgiven[i]
            /\ UNCHANGED <<pc, ret>>
       ELSE Answer("HG") /\ UNCHANGED <<kmem, i, remote_offset>>
    /\ UNCHANGED <<db, caller, max_keys, sizes, vmem, request, page, size_error, nkeys, writes,
                   fails, history, overrun>>

KeysPushed ==
    /\ pc = "keys" /\ i > Len(page)
    /\ IF fn = "list_keys" THEN Answer("SUCCESS") ELSE pc' = "values" /\ UNCHANGED ret
    /\ i' = 1 /\ remote_offset' = 0
    /\ UNCHANGED <<db, caller, max_keys, sizes, buffers, request, page, size_error, nkeys, writes,
                   fails, history, overrun>>

PushValue ==
    /\ pc = "values" /\ i <= Len(page)
    /\ IF Fits(vmem, remote_offset, ValueBytes(page[i].key, page[i].value))
       THEN /\ vmem' = Transfer(vmem, remote_offset, ValueBytes(page[i].key, page[i].value))
            /\ i' = i + 1 /\ remote_offset' = remote_offset + vgiven[i]
            /\ UNCHANGED <<pc, ret>>
       ELSE Answer("HG") /\ UNCHANGED <<vmem, i, remote_offset>>
    /\ UNCHANGED <<db, caller, max_keys, sizes, kmem, request, page, size_error, nkeys, writes,
                   fails, history, overrun>>

ValuesPushed ==
    /\ pc = "values" /\ i > Len(page)
    /\ Answer("SUCCESS")
    /\ UNCHANGED <<db, caller, max_keys, sizes, buffers, request, handler, writes, fails, history,
                   overrun>>
-----------------------------------------------------------------------------
(* The caller, and the other clients.                                      *)

\* The key that the n-th buffer holds.
ReadKey(n) ==
    LET S == {k \in Keys : /\ KeySize[k] = ksizes[n]
                           /\ Holds(kmem, Offset(kgiven, n), KeyBytes(k))}
    IN  IF S = {} THEN None ELSE CHOOSE k \in S : TRUE

Received == [n \in 1 .. max_keys |-> ReadKey(n)]

\* The caller takes the keys of the page and goes on after the last of them.
TakePage ==
    /\ ret = "SUCCESS" /\ max_keys > 0 /\ ~overrun /\ Goto("returned", "idle")
    /\ got' = got \o Received
    /\ start' = Last(Received)
    /\ UNCHANGED <<db, fn, max_keys, sizes, buffers, request, handler, ret, writes, fails, history,
                   overrun>>

\* A call that failed is made again.
CallFailed ==
    /\ ret # "SUCCESS" /\ ~overrun /\ Goto("returned", "idle")
    /\ UNCHANGED <<db, caller, max_keys, sizes, buffers, request, handler, ret, writes, fails,
                   history, overrun>>

\* No key is left.  A scan whose buffers have been overrun ends, too, and nothing is
\* claimed of it.
Finish ==
    /\ overrun \/ (ret = "SUCCESS" /\ max_keys = 0)
    /\ Goto("returned", "finished")
    /\ UNCHANGED <<db, caller, max_keys, sizes, buffers, request, handler, ret, writes, fails,
                   history, overrun>>

\* sdskv_put_ult and sdskv_erase_ult for other clients.
Write(k, v) ==
    /\ writes > 0 /\ writes' = writes - 1
    /\ db' = [db EXCEPT ![k] = v]
    /\ always' = IF v = None THEN always \ {k} ELSE always
    /\ ever' = IF v = None THEN ever ELSE ever \cup {k}
    /\ UNCHANGED <<pc, caller, max_keys, sizes, buffers, request, handler, ret, fails, overrun>>

Put   == \E k \in Keys, v \in Sizes : Write(k, v)
Erase == \E k \in Present : Write(k, None)

-----------------------------------------------------------------------------
Scan ==
    \/ NewPage \/ Retry \/ Return \/ List \/ PushSizes \/ PushKey \/ KeysPushed
    \/ PushValue \/ ValuesPushed \/ TakePage \/ CallFailed \/ Finish

Finished == pc = "finished" /\ UNCHANGED vars

Next == Scan \/ TransportFails \/ HandlerFails \/ Put \/ Erase \/ Finished

Spec == Init /\ [][Next]_vars

\* The caller goes on, and the handler's ULT is scheduled.
FairSpec == Spec /\ WF_vars(Scan)

-----------------------------------------------------------------------------
(* Correctness.                                                            *)

TypeOK ==
    /\ db \in [Keys -> Sizes \cup {None}]
    /\ pc \in {"idle", "sent", "sizes", "keys", "values", "answered", "returned", "finished"}
    /\ fn \in Functions /\ start \in Keys \cup {0}
    /\ max_keys \in 0 .. PageSize /\ nkeys \in 0 .. PageSize
    /\ ksizes \in Seq(Nat) /\ vsizes \in Seq(Nat)
    /\ Len(kgiven) <= PageSize /\ Len(ksizes) = Len(kgiven) /\ Len(vsizes) = Len(vgiven)
    /\ Len(kmem) \in {0, Total(kgiven)} /\ Len(vmem) = Total(vgiven)
    /\ \A n \in DOMAIN page : page[n] \in [key : Wanted, value : Sizes]
    /\ i \in 0 .. PageSize + 1 /\ remote_offset \in 0 .. Total(kgiven) + Total(vgiven)
    /\ size_error \in BOOLEAN /\ overrun \in BOOLEAN
    /\ ret \in Codes \cup {None} /\ got \in Seq(Keys)
    /\ writes \in 0 .. MaxWrites /\ fails \in 0 .. MaxFailures
    /\ always \subseteq ever /\ ever \subseteq Keys

\* A call that succeeds has put into every buffer the key, and the value of that
\* key, whose sizes it returns: keys in order after start_key, none of which is
\* missing that was there throughout, however long each key is and whatever size
\* each buffer has.  A call that fails with SDSKV_ERR_SIZE has touched no buffer,
\* and some size that it returns is larger than the buffer.
PageIsRight ==
    pc = "returned" /\ ~overrun =>
        /\ ret = "SUCCESS" =>
               /\ \A n \in 1 .. max_keys :
                      /\ Received[n] \in {k \in Wanted \cap ever : k > start}
                      /\ fn = "list_keyvals" =>
                             Holds(vmem, Offset(vgiven, n), ValueBytes(Received[n], vsizes[n]))
               /\ Ascending(Received)
               /\ \A k \in Wanted \cap always :
                      \/ k <= start \/ k \in Range(Received)
                      \/ max_keys = Len(kgiven) /\ k > Last(Received)
        /\ ret = "SIZE" =>
               /\ kmem = Exposed(kgiven)
               /\ \E n \in 1 .. max_keys : ksizes[n] > kgiven[n]

\* sdskv-client.h of sdskv_list_keyvals: "If a buffer for a key or a value is too
\* small, the call will fail".
TooSmallFails == pc = "returned" /\ overrun => ret # "SUCCESS"

\* A scan that goes on after the last key it received, and repeats failed calls with
\* the sizes they returned, ends with every key that was there throughout, each
\* once, although other clients put and erase between and during its calls.
ScanIsComplete ==
    pc = "finished" /\ ~overrun =>
        /\ Ascending(got)
        /\ Wanted \cap always \subseteq Range(got) /\ Range(got) \subseteq Wanted \cap ever

\* The scan ends: the sizes that a failed call returns are enough for the next one,
\* once other clients stop writing.
ScanEnds == <>(pc = "finished")

-----------------------------------------------------------------------------
(* The inductive invariant.                                                *)

IsSequence(s) == s = [n \in 1 .. Len(s) |-> s[n]]

\* The call in progress was made with the sizes that the handler pulls.
RequestInv ==
    /\ kgiven \in Seq(Nat) /\ vgiven \in Seq(Nat)
    /\ IsSequence(kmem) /\ IsSequence(vmem)
    /\ Len(vgiven) = IF fn = "list_keys" THEN 0 ELSE Len(kgiven)
    /\ pc \in {"sent", "sizes", "keys", "values", "answered"} => max_keys = Len(kgiven)
    /\ pc \notin {"idle", "finished"} => Len(kgiven) > 0
    /\ pc \in {"sent", "sizes", "keys", "values"} => ret = None
    /\ pc \in {"sent", "sizes"} => ksizes = kgiven /\ vsizes = vgiven /\ kmem = Exposed(kgiven)

\* The database has listed, and no failure hides it from the caller.
Listed ==
    \/ pc \in {"sizes", "keys", "values"}
    \/ pc \in {"answered", "returned"} /\ ret \in {"SUCCESS", "SIZE"}

\* A key is in the page, or out of its reach.
Accounted(k) ==
    \/ k <= start \/ \E n \in DOMAIN page : page[n].key = k
    \/ Len(page) = Len(kgiven) /\ \A n \in DOMAIN page : page[n].key < k

PageInv ==
    /\ IsSequence(page) /\ nkeys = Len(page) /\ Len(page) <= Len(kgiven)
    /\ \A m, n \in DOMAIN page : m < n => page[m].key < page[n].key
    /\ Listed => /\ \A n \in DOMAIN page : page[n].key \in ever /\ page[n].key > start
                 /\ \A k \in Wanted \cap always : Accounted(k)

\* The first m keys, and values, are in the buffers that they belong to.
KeysIn(m) == \A n \in 1 .. m : Holds(kmem, Offset(kgiven, n), KeyBytes(page[n].key))
ValuesIn(m) ==
    \A n \in 1 .. m : Holds(vmem, Offset(vgiven, n), ValueBytes(page[n].key, page[n].value))

\* What the handler has pushed, and where it pushes next.
HandlerInv ==
    /\ pc = "sizes" => /\ page # <<>> /\ i = 1 /\ remote_offset = 0
                       /\ size_error <=> TooSmall(page, kgiven, vgiven)
    /\ pc = "keys" => /\ i \in 1 .. Len(page) + 1 /\ remote_offset = Offset(kgiven, i)
                      /\ ~overrun => KeysIn(i - 1)
    /\ pc = "values" => /\ i \in 1 .. Len(page) + 1 /\ remote_offset = Offset(vgiven, i)
                        /\ fn = "list_keyvals"
                        /\ ~overrun => KeysIn(Len(page)) /\ ValuesIn(i - 1)

\* The sizes that the caller is given are those of keys and values that fit.
SizesInv ==
    /\ Listed /\ pc # "sizes" => ksizes = TrueSizes(kgiven, true_ksizes) \/ page = <<>>
    /\ Listed /\ pc # "sizes" => vsizes = TrueSizes(vgiven, true_vsizes) \/ page = <<>>
    /\ Listed /\ pc # "sizes" /\ ret # "SIZE" /\ ~overrun => ~TooSmall(page, kgiven, vgiven)

\* What an answer says.
AnswerInv ==
    /\ pc \in {"answered", "returned"} /\ ret = "SUCCESS" /\ ~overrun =>
           KeysIn(Len(page)) /\ (fn = "list_keyvals" => ValuesIn(Len(page)))
    /\ ret = "SIZE" => /\ fn = "list_keys" /\ kmem = Exposed(kgiven)
                       /\ \E n \in 1 .. nkeys : ksizes[n] > kgiven[n]
    /\ pc \in {"returned", "idle"} /\ ret \in {"SUCCESS", "SIZE"} => max_keys = nkeys

\* The scan has every key up to start_key.
ScanInv ==
    /\ always \subseteq Present /\ Present \subseteq ever
    /\ Ascending(got) /\ Range(got) \subseteq Wanted \cap ever
    /\ \A n \in DOMAIN got : got[n] <= start
    /\ \A k \in Wanted \cap always : k <= start => k \in Range(got)
    /\ pc = "finished" /\ ~overrun => \A k \in Wanted \cap always : k <= start

IInv == TypeOK /\ RequestInv /\ PageInv /\ HandlerInv /\ SizesInv /\ AnswerInv /\ ScanInv
=============================================================================
