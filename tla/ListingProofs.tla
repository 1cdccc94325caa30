--------------------------- MODULE ListingProofs ----------------------------
(***************************************************************************)
(* Proofs about listing a database page by page, for any keys, sizes of    *)
(* keys, values and buffers, any page size and any number of writes and    *)
(* failures: the handlers keep their types, a page is right, and a scan    *)
(* that ends is complete.                                                  *)
(***************************************************************************)
EXTENDS Listing, LayoutProofs

USE ListingConstants
USE DEF Goto, Functions, Codes, caller, sizes, buffers, request, handler, history

-----------------------------------------------------------------------------
(* Sequences and memory.                                                   *)

\* A function on 1 .. n is a sequence of length n.
LEMMA FunctionIsSequence ==
  ASSUME NEW n \in Nat, NEW f, f = [x \in 1 .. n |-> f[x]]
  PROVE  Len(f) = n /\ DOMAIN f = 1 .. n /\ IsSequence(f)
  <1> DEFINE S == {f[x] : x \in 1 .. n}
  <1>0. f \in [1 .. n -> S]
    OBVIOUS
  <1> HIDE DEF S
  <1>1. f \in Seq(S)
    BY <1>0
  <1>2. DOMAIN f = 1 .. n
    OBVIOUS
  <1>3. Len(f) = n
    BY <1>1, <1>2
  <1> QED  BY <1>2, <1>3 DEF IsSequence

LEMMA SequenceDomain ==
  ASSUME NEW s, IsSequence(s)
  PROVE  DOMAIN s = 1 .. Len(s)
  <1>1. DOMAIN [n \in 1 .. Len(s) |-> s[n]] = 1 .. Len(s)
    OBVIOUS
  <1> QED  BY <1>1 DEF IsSequence

LEMMA KeyBytesLength ==
  ASSUME NEW k \in Keys
  PROVE  /\ Len(KeyBytes(k)) = KeySize[k] /\ DOMAIN KeyBytes(k) = 1 .. KeySize[k]
         /\ KeySize[k] \in Nat /\ KeySize[k] > 0
  <1>1. KeySize[k] \in Nat \ {0}
    OBVIOUS
  <1> DEFINE f == KeyBytes(k)
  <1>2. f = [x \in 1 .. KeySize[k] |-> f[x]]
    BY DEF KeyBytes
  <1> HIDE DEF f
  <1>3. Len(f) = KeySize[k] /\ DOMAIN f = 1 .. KeySize[k]
    BY <1>1, <1>2, FunctionIsSequence
  <1> QED  BY <1>1, <1>3 DEF f

LEMMA ValueBytesLength ==
  ASSUME NEW k, NEW v \in Sizes
  PROVE  /\ Len(ValueBytes(k, v)) = v /\ DOMAIN ValueBytes(k, v) = 1 .. v /\ v \in Nat
  <1>1. v \in Nat
    OBVIOUS
  <1> DEFINE f == ValueBytes(k, v)
  <1>2. f = [x \in 1 .. v |-> f[x]]
    BY DEF ValueBytes
  <1> HIDE DEF f
  <1>3. Len(f) = v /\ DOMAIN f = 1 .. v
    BY <1>1, <1>2, FunctionIsSequence
  <1> QED  BY <1>1, <1>3 DEF f

LEMMA TotalIsNat ==
  ASSUME NEW s \in Seq(Nat)
  PROVE  Total(s) \in Nat /\ Len(s) \in Nat /\ (s = <<>> => Total(s) = 0)
  <1>1. Len(s) \in Nat /\ Len(s) + 1 \in 1 .. Len(s) + 1 /\ (s = <<>> => Len(s) + 1 = 1)
    OBVIOUS
  <1> QED  BY <1>1, OffsetSteps

\* Buffers before the call are as large as their sizes say.
LEMMA FreshLength ==
  ASSUME NEW s \in Seq(Nat)
  PROVE  Len(Fresh(s)) = Total(s) /\ IsSequence(Fresh(s))
  <1> DEFINE f == Fresh(s)
  <1>1. f = [x \in 1 .. Total(s) |-> f[x]]
    BY DEF Fresh
  <1> HIDE DEF f
  <1>2. Len(f) = Total(s) /\ IsSequence(f)
    BY <1>1, TotalIsNat, FunctionIsSequence
  <1> QED  BY <1>2 DEF f

LEMMA ExposedLength ==
  ASSUME NEW s \in Seq(Nat)
  PROVE  Len(Exposed(s)) \in {0, Total(s)} /\ IsSequence(Exposed(s))
  <1>1. Len(<<>>) = 0 /\ IsSequence(<<>>)
    BY DEF IsSequence
  <1> QED  BY <1>1, FreshLength DEF Exposed

\* A transfer leaves the size of the memory as it is, ...
LEMMA TransferLength ==
  ASSUME NEW mem, IsSequence(mem), Len(mem) \in Nat, NEW o, NEW bytes
  PROVE  Len(Transfer(mem, o, bytes)) = Len(mem) /\ IsSequence(Transfer(mem, o, bytes))
  <1> DEFINE f == Transfer(mem, o, bytes)
  <1>1. DOMAIN mem = 1 .. Len(mem)
    BY SequenceDomain
  <1>2. f = [x \in 1 .. Len(mem) |-> f[x]]
    BY <1>1 DEF Transfer
  <1> HIDE DEF f
  <1>3. Len(f) = Len(mem) /\ IsSequence(f)
    BY <1>2, FunctionIsSequence
  <1> QED  BY <1>3 DEF f

\* ... brings the bytes to where they belong, ...
LEMMA TransferHolds ==
  ASSUME NEW mem, IsSequence(mem), Len(mem) \in Nat, NEW o \in Nat, NEW bytes,
         Len(bytes) \in Nat, DOMAIN bytes = 1 .. Len(bytes), Fits(mem, o, bytes)
  PROVE  Holds(Transfer(mem, o, bytes), o, bytes)
  <1>1. DOMAIN mem = 1 .. Len(mem)
    BY SequenceDomain
  <1>2. Fits(Transfer(mem, o, bytes), o, bytes)
    BY TransferLength DEF Fits
  <1>3. ASSUME NEW j \in DOMAIN bytes PROVE Transfer(mem, o, bytes)[o + j] = bytes[j]
    <2>1. o + j \in DOMAIN mem /\ (o + j) - o = j
      BY <1>1 DEF Fits
    <2> QED  BY <2>1 DEF Transfer
  <1> QED  BY <1>2, <1>3 DEF Holds

\* ... and leaves alone what lies before them.
LEMMA TransferKeeps ==
  ASSUME NEW mem, IsSequence(mem), Len(mem) \in Nat, NEW o \in Nat, NEW bytes,
         DOMAIN bytes = 1 .. Len(bytes), NEW p \in Nat, NEW b,
         Len(b) \in Nat, DOMAIN b = 1 .. Len(b), Holds(mem, p, b), p + Len(b) <= o
  PROVE  Holds(Transfer(mem, o, bytes), p, b)
  <1>1. DOMAIN mem = 1 .. Len(mem)
    BY SequenceDomain
  <1>2. Fits(Transfer(mem, o, bytes), p, b)
    BY TransferLength DEF Fits, Holds
  <1>3. ASSUME NEW j \in DOMAIN b PROVE Transfer(mem, o, bytes)[p + j] = b[j]
    <2>1. p + j \in DOMAIN mem /\ (p + j) - o \notin 1 .. Len(bytes)
      BY <1>1 DEF Fits, Holds
    <2>2. mem[p + j] = b[j]
      BY DEF Holds
    <2> QED  BY <2>1, <2>2 DEF Transfer
  <1> QED  BY <1>2, <1>3 DEF Holds

\* Memory holds one key at a place at most.
LEMMA OneKeyHeld ==
  ASSUME NEW mem, NEW o, NEW k \in Keys, NEW j \in Keys,
         Holds(mem, o, KeyBytes(k)), Holds(mem, o, KeyBytes(j))
  PROVE  k = j
  <1>1. 1 \in 1 .. KeySize[k] /\ 1 \in 1 .. KeySize[j]
    BY KeyBytesLength
  <1>2. mem[o + 1] = KeyBytes(k)[1] /\ mem[o + 1] = KeyBytes(j)[1]
    BY <1>1, KeyBytesLength DEF Holds
  <1>3. KeyBytes(k)[1] = <<"key", k, 1>> /\ KeyBytes(j)[1] = <<"key", j, 1>>
    BY <1>1 DEF KeyBytes
  <1>4. <<"key", k, 1>>[2] = k /\ <<"key", j, 1>>[2] = j
    OBVIOUS
  <1>5. <<"key", k, 1>> = <<"key", j, 1>>
    BY <1>2, <1>3, Zenon
  <1> QED  BY <1>4, <1>5, Zenon

-----------------------------------------------------------------------------
(* The caller.                                                             *)

\* The types, in three parts.
ScanTypes ==
    /\ db \in [Keys -> Sizes \cup {None}] /\ fn \in Functions
    /\ start \in Keys \cup {0} /\ got \in Seq(Keys)
    /\ writes \in 0 .. MaxWrites /\ fails \in 0 .. MaxFailures
    /\ always \subseteq ever /\ ever \subseteq Keys /\ overrun \in BOOLEAN

CallTypes ==
    /\ pc \in {"idle", "sent", "sizes", "keys", "values", "answered", "returned", "finished"}
    /\ ret \in Codes \cup {None} /\ max_keys \in 0 .. PageSize
    /\ ksizes \in Seq(Nat) /\ vsizes \in Seq(Nat)
    /\ Len(kgiven) <= PageSize /\ Len(ksizes) = Len(kgiven) /\ Len(vsizes) = Len(vgiven)
    /\ Len(kmem) \in {0, Total(kgiven)} /\ Len(vmem) = Total(vgiven)

HandlerTypes ==
    /\ \A n \in DOMAIN page : page[n] \in [key : Wanted, value : Sizes]
    /\ i \in 0 .. PageSize + 1 /\ remote_offset \in 0 .. Total(kgiven) + Total(vgiven)
    /\ nkeys \in 0 .. PageSize /\ size_error \in BOOLEAN

LEMMA TypeParts == TypeOK <=> ScanTypes /\ CallTypes /\ HandlerTypes
  BY Zenon DEF TypeOK, ScanTypes, CallTypes, HandlerTypes

LEMMA TypePartsNext == TypeOK' <=> ScanTypes' /\ CallTypes' /\ HandlerTypes'
  BY Zenon DEF TypeOK, ScanTypes, CallTypes, HandlerTypes

LEMMA InitInv == Init => IInv
  <1> SUFFICES ASSUME Init PROVE IInv
    OBVIOUS
  <1>0. /\ <<>> \in Seq(Nat) /\ <<>> \in Seq(Keys) /\ Len(<<>>) = 0 /\ DOMAIN <<>> = {}
        /\ IsSequence(<<>>) /\ Total(<<>>) = 0
    <2>1. <<>> \in Seq(Nat)
      OBVIOUS
    <2>2. Total(<<>>) = 0
      BY <2>1, TotalIsNat
    <2> QED  BY <2>2 DEF IsSequence
  <1>1. TypeOK
    <2>1. /\ db \in [Keys -> Sizes \cup {None}] /\ fn \in Functions /\ ret = None
          /\ always = Present /\ ever = Present /\ Present \subseteq Keys
      BY DEF Init, Present
    <2>2. ksizes = <<>> /\ vsizes = <<>> /\ kmem = <<>> /\ vmem = <<>> /\ page = <<>>
          /\ kgiven = <<>> /\ vgiven = <<>> /\ got = <<>>
      BY DEF Init
    <2>3. /\ pc = "idle" /\ start = 0 /\ max_keys = 0 /\ nkeys = 0 /\ i = 0
          /\ remote_offset = 0 /\ size_error = FALSE /\ overrun = FALSE
          /\ writes = MaxWrites /\ fails = MaxFailures
      BY DEF Init
    <2>4. remote_offset \in 0 .. Total(kgiven) + Total(vgiven)
      BY <1>0, <2>2, <2>3
    <2>8. size_error \in BOOLEAN /\ overrun \in BOOLEAN
      BY <2>3, Zenon
    <2>9. /\ i \in 0 .. PageSize + 1 /\ max_keys \in 0 .. PageSize /\ nkeys \in 0 .. PageSize
          /\ writes \in 0 .. MaxWrites /\ fails \in 0 .. MaxFailures
      BY <2>3
    <2>10. start \in Keys \cup {0}
      BY <2>3, Zenon
    <2>11. got \in Seq(Keys)
      BY <1>0, <2>2, Zenon
    <2>5. ScanTypes
      BY <2>1, <2>8, <2>9, <2>10, <2>11, Zenon DEF ScanTypes
    <2>6. CallTypes
      BY <1>0, <2>1, <2>2, <2>3 DEF CallTypes
    <2>7. HandlerTypes
      <3>1. \A n \in DOMAIN page : page[n] \in [key : Wanted, value : Sizes]
        BY <1>0, <2>2
      <3> QED  BY <3>1, <2>4, <2>8, <2>9, Zenon DEF HandlerTypes
    <2> QED  BY <2>5, <2>6, <2>7, TypeParts
  <1>2. RequestInv
    BY <1>0 DEF Init, RequestInv
  <1>4. PageInv /\ HandlerInv /\ SizesInv
    BY <1>0 DEF Init, PageInv, HandlerInv, SizesInv, Listed
  <1>5. AnswerInv
    <2>1. ret # "SIZE" /\ ret # "SUCCESS" /\ pc = "idle"
      BY DEF Init
    <2> QED  BY <2>1 DEF AnswerInv
  <1>3. ScanInv
    <2>1. got = <<>> /\ start = 0 /\ pc = "idle" /\ Range(got) = {}
      BY <1>0 DEF Init, Range
    <2>2. \A k \in Wanted : ~(k <= 0)
      OBVIOUS
    <2>3. always = Present /\ ever = Present
      BY DEF Init
    <2> QED  BY <1>0, <2>1, <2>2, <2>3 DEF ScanInv, Ascending
  <1> QED  BY <1>1, <1>2, <1>3, <1>4, <1>5 DEF IInv

\* The scan knows nothing new as long as the caller takes no page.
LEMMA ScanKept ==
  ASSUME ScanInv, UNCHANGED <<db, got, start, always, ever>>, pc' # "finished"
  PROVE  ScanInv'
  BY DEF ScanInv, Ascending, Range, Present

\* A new call: nothing is listed or pushed.
LEMMA ForwardInv ==
  ASSUME IInv, pc = "idle", NEW n \in 1 .. PageSize, NEW ks \in Seq(Nat), NEW vs \in Seq(Nat),
         Forward(n, ks, vs), Len(ks) = n, Len(vs) = IF fn = "list_keys" THEN 0 ELSE n
  PROVE  IInv'
  <1>0. <<>> \in Seq(Nat) /\ Len(<<>>) = 0 /\ DOMAIN <<>> = {} /\ IsSequence(<<>>)
    BY DEF IsSequence
  <1>1. /\ Len(Exposed(ks)) \in {0, Total(ks)} /\ IsSequence(Exposed(ks))
        /\ Len(Fresh(vs)) = Total(vs) /\ IsSequence(Fresh(vs))
        /\ Total(ks) \in Nat /\ Total(vs) \in Nat
    BY ExposedLength, FreshLength, TotalIsNat
  <1>2. /\ kmem' = Exposed(ks) /\ vmem' = Fresh(vs) /\ ksizes' = ks /\ vsizes' = vs
        /\ kgiven' = ks /\ vgiven' = vs /\ max_keys' = n /\ pc' = "sent" /\ ret' = None
        /\ page' = <<>> /\ i' = 0 /\ remote_offset' = 0 /\ size_error' = FALSE /\ nkeys' = 0
        /\ UNCHANGED <<db, fn, start, got, writes, fails, always, ever, overrun>>
    BY DEF Forward
  <1>3. Exposed(kgiven)' = Exposed(ks)
    BY <1>2 DEF Exposed
  <1> HIDE DEF Exposed
  <1>4. TypeOK'
    <2>1. /\ db' = db /\ fn' = fn /\ start' = start /\ got' = got /\ writes' = writes
          /\ fails' = fails /\ always' = always /\ ever' = ever /\ overrun' = overrun
      BY <1>2
    <2>2. remote_offset' \in 0 .. Total(kgiven)' + Total(vgiven)'
      BY <1>1, <1>2
    <2>3. Len(kmem)' \in {0, Total(kgiven)'} /\ Len(vmem)' = Total(vgiven)'
      BY <1>1, <1>2
    <2>4. i' \in 0 .. PageSize + 1 /\ max_keys' \in 0 .. PageSize /\ nkeys' \in 0 .. PageSize
      BY <1>2
    <2>5. ScanTypes'
      BY <2>1, TypeParts DEF IInv, ScanTypes
    <2>6. CallTypes'
      BY <1>2, <2>3, <2>4 DEF CallTypes
    <2>7. HandlerTypes'
      BY <1>0, <1>2, <2>2, <2>4 DEF HandlerTypes
    <2> QED  BY <2>5, <2>6, <2>7, TypePartsNext
  <1>5. RequestInv'
    BY <1>1, <1>2, <1>3 DEF RequestInv
  <1>6. PageInv'
    BY <1>0, <1>2 DEF PageInv, Listed
  <1>7. HandlerInv' /\ SizesInv'
    BY <1>2 DEF HandlerInv, SizesInv, Listed
  <1>8. AnswerInv'
    <2>1. ret' # "SIZE" /\ ret' # "SUCCESS"
      BY <1>2
    <2> QED  BY <1>2, <2>1 DEF AnswerInv
  <1>9. ScanInv'
    BY <1>2, ScanKept DEF IInv
  <1> QED  BY <1>4, <1>5, <1>6, <1>7, <1>8, <1>9 DEF IInv

LEMMA NewPageInv == IInv /\ NewPage => IInv'
  <1> SUFFICES ASSUME IInv, NewPage PROVE IInv'
    OBVIOUS
  <1>1. PICK s \in BufferSizes, t \in BufferSizes :
            Forward(PageSize, [n \in 1 .. PageSize |-> s],
                    IF fn = "list_keys" THEN <<>> ELSE [n \in 1 .. PageSize |-> t])
    BY DEF NewPage
  <1> DEFINE ks == [n \in 1 .. PageSize |-> s]
             ts == [n \in 1 .. PageSize |-> t]
             ns == <<>>
  <1>2. /\ PageSize \in 1 .. PageSize /\ ks \in Seq(Nat) /\ Len(ks) = PageSize
        /\ ts \in Seq(Nat) /\ Len(ts) = PageSize /\ ns \in Seq(Nat) /\ Len(ns) = 0
    OBVIOUS
  <1>3. pc = "idle"
    BY DEF NewPage
  <1> HIDE DEF ks, ts, ns
  <1>4. CASE fn = "list_keys"
    <2>1. Forward(PageSize, ks, ns)
      BY <1>1, <1>4 DEF ks, ns
    <2> QED  BY <1>2, <1>3, <1>4, <2>1, ForwardInv
  <1>5. CASE fn # "list_keys"
    <2>1. Forward(PageSize, ks, ts)
      BY <1>1, <1>5 DEF ks, ts
    <2> QED  BY <1>2, <1>3, <1>5, <2>1, ForwardInv
  <1> QED  BY <1>4, <1>5

\* The sizes that SDSKV_ERR_SIZE comes with are those of a call of list_keys.
LEMMA RetryInv == IInv /\ Retry => IInv'
  <1> SUFFICES ASSUME IInv, Retry PROVE IInv'
    OBVIOUS
  <1>1. pc = "idle" /\ ret = "SIZE" /\ Forward(max_keys, SubSeq(ksizes, 1, max_keys), vsizes)
    BY DEF Retry
  <1>2. fn = "list_keys" /\ max_keys = nkeys /\ \E n \in 1 .. nkeys : ksizes[n] > kgiven[n]
    BY <1>1 DEF IInv, AnswerInv
  <1>3. max_keys \in 1 .. PageSize
    BY <1>2 DEF IInv, TypeOK
  <1>4. PICK n \in 1 .. PageSize, ss \in Seq(Nat), vs \in Seq(Nat) :
            max_keys = n /\ ksizes = ss /\ vsizes = vs
    BY <1>3 DEF IInv, TypeOK
  <1>5. n <= Len(ss) /\ Len(vs) = 0
    BY <1>2, <1>4 DEF IInv, TypeOK, PageInv, RequestInv
  <1>6. SubSeq(ss, 1, n) \in Seq(Nat) /\ Len(SubSeq(ss, 1, n)) = n
    BY <1>5
  <1> DEFINE ks == SubSeq(ss, 1, n)
  <1>7. Forward(n, ks, vs)
    BY <1>1, <1>4
  <1> HIDE DEF ks
  <1>8. ks \in Seq(Nat) /\ Len(ks) = n
    BY <1>6 DEF ks
  <1> QED  BY <1>1, <1>2, <1>5, <1>7, <1>8, ForwardInv

\* What is said of the buffers, as long as they and the page stay as they are.
LEMMA BuffersKept ==
  ASSUME UNCHANGED <<fn, sizes, buffers, request, page>>
  PROVE  /\ Exposed(kgiven)' = Exposed(kgiven)
         /\ TooSmall(page, kgiven, vgiven)' <=> TooSmall(page, kgiven, vgiven)
         /\ TrueSizes(kgiven, true_ksizes)' = TrueSizes(kgiven, true_ksizes)
         /\ TrueSizes(vgiven, true_vsizes)' = TrueSizes(vgiven, true_vsizes)
         /\ \A m : KeysIn(m)' <=> KeysIn(m)
         /\ \A m : ValuesIn(m)' <=> ValuesIn(m)
         /\ IsSequence(kmem)' <=> IsSequence(kmem)
         /\ IsSequence(vmem)' <=> IsSequence(vmem)
         /\ IsSequence(page)' <=> IsSequence(page)
  BY Zenon DEF Exposed, TooSmall, TrueSizes, true_ksizes, true_vsizes, KeysIn, ValuesIn

\* A step that takes the call further without touching sizes, buffers, page or scan.
LEMMA CallMoves ==
  ASSUME IInv, UNCHANGED <<db, caller, sizes, buffers, request, page, size_error, nkeys, writes,
                           history, overrun>>,
         pc' \in {"idle", "values", "answered", "returned", "finished"},
         ret' \in Codes \cup {None}, pc' = "values" => ret' = None,
         fails' \in 0 .. MaxFailures, max_keys' \in 0 .. PageSize, i' \in 0 .. PageSize + 1,
         remote_offset' \in 0 .. Total(kgiven) + Total(vgiven),
         pc' \in {"values", "answered"} => max_keys' = Len(kgiven),
         pc' \in {"values", "answered", "returned"} => Len(kgiven) > 0
  PROVE  /\ TypeOK' /\ RequestInv'
         /\ pc' # "finished" => ScanInv'
         /\ (Listed' => Listed) => PageInv'
  <1>1. /\ UNCHANGED <<db, fn, start, got, ksizes, vsizes, kmem, vmem, kgiven, vgiven, page,
                       size_error, nkeys, writes, always, ever, overrun>>
        /\ UNCHANGED <<fn, sizes, buffers, request, page>>
    OBVIOUS
  <1>2. TypeOK'
    <2>1. ScanTypes /\ CallTypes /\ HandlerTypes
      BY TypeParts DEF IInv
    <2>2. ScanTypes' /\ HandlerTypes'
      BY <1>1, <2>1 DEF ScanTypes, HandlerTypes
    <2>3. CallTypes'
      BY <1>1, <2>1 DEF CallTypes
    <2> QED  BY <2>2, <2>3, TypePartsNext
  <1>3. RequestInv'
    <2>1. RequestInv
      BY DEF IInv
    <2> QED  BY <1>1, <2>1, BuffersKept DEF RequestInv
  <1>4. pc' # "finished" => ScanInv'
    BY <1>1, ScanKept DEF IInv
  <1>6. ASSUME Listed' => Listed PROVE PageInv'
    <2>1. PageInv
      BY DEF IInv
    <2>2. IsSequence(page)'
      BY <1>1, <2>1, BuffersKept DEF PageInv
    <2>3. \A k : Accounted(k) => Accounted(k)'
      BY <1>1 DEF Accounted
    <2> QED  BY <1>1, <1>6, <2>1, <2>2, <2>3 DEF PageInv
  <1> QED  BY <1>2, <1>3, <1>4, <1>6

\* The handler's place is within the buffers.
LEMMA PlaceTypes ==
  ASSUME IInv
  PROVE  /\ i \in 0 .. PageSize + 1 /\ remote_offset \in 0 .. Total(kgiven) + Total(vgiven)
         /\ max_keys \in 0 .. PageSize /\ nkeys \in 0 .. PageSize
         /\ fails \in 0 .. MaxFailures /\ ret \in Codes \cup {None}
  BY DEF IInv, TypeOK

\* Nothing is claimed of a call that has failed.
LEMMA FailedInv ==
  ASSUME IInv, UNCHANGED <<db, caller, max_keys, sizes, buffers, request, handler, writes,
                           history, overrun>>,
         pc \in {"sent", "sizes", "keys", "values", "answered"},
         pc' \in {"answered", "returned"}, ret' = "HG", fails' \in 0 .. MaxFailures
  PROVE  IInv'
  <1>1. ~Listed'
    BY DEF Listed
  <1>2. max_keys' = Len(kgiven) /\ Len(kgiven) > 0
    BY DEF IInv, RequestInv
  <1>3. TypeOK' /\ RequestInv' /\ ScanInv' /\ PageInv'
    BY <1>1, <1>2, PlaceTypes, CallMoves
  <1>4. HandlerInv' /\ SizesInv' /\ AnswerInv'
    BY <1>1 DEF HandlerInv, SizesInv, AnswerInv
  <1> QED  BY <1>3, <1>4 DEF IInv

LEMMA TransportFailsInv == IInv /\ TransportFails => IInv'
  <1> SUFFICES ASSUME IInv, TransportFails PROVE IInv'
    OBVIOUS
  <1>1. fails' \in 0 .. MaxFailures
    BY DEF TransportFails, IInv, TypeOK
  <1> QED  BY <1>1, FailedInv DEF TransportFails

LEMMA HandlerFailsInv == IInv /\ HandlerFails => IInv'
  <1> SUFFICES ASSUME IInv, HandlerFails PROVE IInv'
    OBVIOUS
  <1>1. fails' \in 0 .. MaxFailures
    BY DEF HandlerFails, IInv, TypeOK
  <1> QED  BY <1>1, FailedInv DEF HandlerFails, Answer

LEMMA ReturnInv == IInv /\ Return => IInv'
  <1> SUFFICES ASSUME IInv, Return PROVE IInv'
    OBVIOUS
  <1>1. /\ pc = "answered" /\ pc' = "returned" /\ max_keys' = nkeys /\ ret' = ret
        /\ UNCHANGED <<db, caller, sizes, buffers, request, handler, fails, writes, history,
                       overrun>>
        /\ UNCHANGED <<fn, sizes, buffers, request, page>>
    BY DEF Return
  <1>2. Len(kgiven) > 0
    BY <1>1 DEF IInv, RequestInv
  <1>3. Listed' <=> Listed
    BY <1>1 DEF Listed
  <1>4. TypeOK' /\ RequestInv' /\ ScanInv' /\ PageInv'
    BY <1>1, <1>2, <1>3, PlaceTypes, CallMoves
  <1>7. HandlerInv'
    BY <1>1 DEF HandlerInv
  <1>5. SizesInv'
    BY <1>1, <1>3, BuffersKept DEF IInv, SizesInv
  <1>6. AnswerInv'
    BY <1>1, BuffersKept DEF IInv, AnswerInv
  <1> QED  BY <1>4, <1>5, <1>6, <1>7 DEF IInv

LEMMA CallFailedInv == IInv /\ CallFailed => IInv'
  <1> SUFFICES ASSUME IInv, CallFailed PROVE IInv'
    OBVIOUS
  <1>1. /\ pc = "returned" /\ pc' = "idle" /\ ret' = ret /\ max_keys' = max_keys
        /\ UNCHANGED <<db, caller, sizes, buffers, request, handler, fails, writes, history,
                       overrun>>
        /\ UNCHANGED <<fn, sizes, buffers, request, page>>
    BY DEF CallFailed
  <1>3. ~Listed'
    BY <1>1 DEF Listed
  <1>4. TypeOK' /\ RequestInv' /\ ScanInv' /\ PageInv'
    BY <1>1, <1>3, PlaceTypes, CallMoves
  <1>7. HandlerInv'
    BY <1>1 DEF HandlerInv
  <1>5. SizesInv'
    BY <1>3 DEF SizesInv
  <1>6. AnswerInv'
    BY <1>1, BuffersKept DEF IInv, AnswerInv
  <1> QED  BY <1>4, <1>5, <1>6, <1>7 DEF IInv

\* A page without a key ends the scan: every key is accounted for.
LEMMA FinishInv == IInv /\ Finish => IInv'
  <1> SUFFICES ASSUME IInv, Finish PROVE IInv'
    OBVIOUS
  <1>1. /\ pc = "returned" /\ pc' = "finished" /\ ret' = ret /\ max_keys' = max_keys
        /\ UNCHANGED <<db, caller, sizes, buffers, request, handler, fails, writes, history,
                       overrun>>
        /\ UNCHANGED <<fn, sizes, buffers, request, page>>
        /\ overrun \/ (ret = "SUCCESS" /\ max_keys = 0)
    BY DEF Finish
  <1>2. ~Listed'
    BY <1>1 DEF Listed
  <1>3. TypeOK' /\ RequestInv' /\ PageInv'
    BY <1>1, <1>2, PlaceTypes, CallMoves
  <1>4. HandlerInv' /\ SizesInv'
    BY <1>1, <1>2 DEF HandlerInv, SizesInv
  <1>5. AnswerInv'
    BY <1>1, BuffersKept DEF IInv, AnswerInv
  <1>6. ASSUME ~overrun, NEW k \in Wanted \cap always PROVE k <= start
    <2>1. Listed /\ Len(page) = 0 /\ Len(kgiven) > 0
      BY <1>1, <1>6 DEF IInv, AnswerInv, PageInv, RequestInv, Listed
    <2>2. DOMAIN page = {}
      BY <2>1, SequenceDomain DEF IInv, PageInv
    <2>3. Accounted(k)
      BY <2>1 DEF IInv, PageInv
    <2> QED  BY <2>1, <2>2, <2>3 DEF Accounted
  <1>7. ScanInv'
    <2>1. ScanInv
      BY DEF IInv
    <2> QED  BY <1>1, <1>6, <2>1 DEF ScanInv, Ascending, Range, Present
  <1> QED  BY <1>3, <1>4, <1>5, <1>7 DEF IInv

\* Every value is pushed.
LEMMA ValuesPushedInv == IInv /\ ValuesPushed => IInv'
  <1> SUFFICES ASSUME IInv, ValuesPushed PROVE IInv'
    OBVIOUS
  <1>1. /\ pc = "values" /\ pc' = "answered" /\ ret' = "SUCCESS" /\ max_keys' = max_keys
        /\ UNCHANGED <<db, caller, sizes, buffers, request, handler, fails, writes, history,
                       overrun>>
        /\ UNCHANGED <<fn, sizes, buffers, request, page>> /\ i > Len(page)
    BY DEF ValuesPushed, Answer
  <1>2. Listed /\ max_keys' = Len(kgiven) /\ Len(kgiven) > 0
    BY <1>1 DEF IInv, RequestInv, Listed
  <1>3. TypeOK' /\ RequestInv' /\ PageInv' /\ ScanInv'
    BY <1>1, <1>2, PlaceTypes, CallMoves
  <1>4. HandlerInv'
    BY <1>1 DEF HandlerInv
  <1>5. SizesInv'
    <2>1. SizesInv /\ ret # "SIZE"
      BY <1>1 DEF IInv, RequestInv
    <2> QED  BY <1>1, <1>2, <2>1, BuffersKept DEF SizesInv
  <1>6. AnswerInv'
    <2>1. Len(page) \in Nat
      BY PlaceTypes DEF IInv, PageInv
    <2>2. i - 1 = Len(page)
      BY <1>1, <2>1 DEF IInv, HandlerInv
    <2>3. ~overrun => KeysIn(Len(page)) /\ ValuesIn(Len(page))
      BY <1>1, <2>2 DEF IInv, HandlerInv
    <2> QED  BY <1>1, <2>3, BuffersKept DEF AnswerInv
  <1> QED  BY <1>3, <1>4, <1>5, <1>6 DEF IInv

\* Every key is pushed.
LEMMA KeysPushedInv == IInv /\ KeysPushed => IInv'
  <1> SUFFICES ASSUME IInv, KeysPushed PROVE IInv'
    OBVIOUS
  <1>1. /\ pc = "keys" /\ i > Len(page) /\ i' = 1 /\ remote_offset' = 0 /\ max_keys' = max_keys
        /\ UNCHANGED <<db, caller, sizes, buffers, request, page, size_error, nkeys, fails,
                       writes,
                       history, overrun>>
        /\ UNCHANGED <<fn, sizes, buffers, request, page>>
        /\ \/ fn = "list_keys" /\ pc' = "answered" /\ ret' = "SUCCESS"
           \/ fn = "list_keyvals" /\ pc' = "values" /\ ret' = ret
    BY DEF KeysPushed, Answer, IInv, TypeOK
  <1>2. Listed /\ max_keys' = Len(kgiven) /\ Len(kgiven) > 0 /\ ret = None
    BY <1>1 DEF IInv, RequestInv, Listed
  <1>3. TypeOK' /\ RequestInv' /\ PageInv' /\ ScanInv'
    <2>1. i' \in 0 .. PageSize + 1 /\ remote_offset' \in 0 .. Total(kgiven) + Total(vgiven)
      BY <1>1, PlaceTypes, TotalIsNat DEF IInv, RequestInv
    <2> QED  BY <1>1, <1>2, <2>1, PlaceTypes, CallMoves
  <1>4. Len(page) \in Nat
    BY PlaceTypes DEF IInv, PageInv
  <1>5. ~overrun => KeysIn(Len(page))
    <2>1. i - 1 = Len(page)
      BY <1>1, <1>4 DEF IInv, HandlerInv
    <2> QED  BY <1>1, <2>1 DEF IInv, HandlerInv
  <1>6. HandlerInv'
    <2>1. remote_offset' = Offset(vgiven, 1)
      BY <1>1, OffsetSteps DEF IInv, RequestInv
    <2>2. remote_offset' = Offset(vgiven, i)' /\ i' \in 1 .. Len(page)' + 1
      BY <1>1, <1>4, <2>1
    <2>3. ValuesIn(i - 1)'
      BY <1>1 DEF ValuesIn
    <2> QED  BY <1>1, <1>5, <2>2, <2>3, BuffersKept DEF HandlerInv
  <1>7. SizesInv'
    BY <1>1, <1>2, BuffersKept DEF IInv, SizesInv
  <1>8. AnswerInv'
    BY <1>1, <1>2, <1>5, BuffersKept DEF AnswerInv
  <1> QED  BY <1>3, <1>6, <1>7, <1>8 DEF IInv

\* Sizes that are pushed take the place of those given.
LEMMA TrueSizesSeq ==
  ASSUME NEW g \in Seq(Nat), NEW t, \A n \in DOMAIN t : t[n] \in Nat
  PROVE  /\ TrueSizes(g, t) \in Seq(Nat) /\ Len(TrueSizes(g, t)) = Len(g)
         /\ \A n \in DOMAIN t : n \in 1 .. Len(g) => TrueSizes(g, t)[n] = t[n]
  <1>1. DOMAIN g = 1 .. Len(g) /\ Len(g) \in Nat
    OBVIOUS
  <1>2. TrueSizes(g, t) \in [1 .. Len(g) -> Nat]
    BY <1>1 DEF TrueSizes
  <1>3. \A n \in DOMAIN t : n \in 1 .. Len(g) => TrueSizes(g, t)[n] = t[n]
    BY <1>1 DEF TrueSizes
  <1> HIDE DEF TrueSizes
  <1> QED  BY <1>1, <1>2, <1>3

\* The page is a sequence of keys and values.
LEMMA PageTypes ==
  ASSUME IInv
  PROVE  /\ DOMAIN page = 1 .. Len(page) /\ Len(page) \in Nat /\ Len(page) <= Len(kgiven)
         /\ \A n \in 1 .. Len(page) :
                /\ page[n].key \in Keys /\ page[n].key \in Wanted /\ page[n].value \in Sizes
                /\ KeySize[page[n].key] \in Nat /\ page[n].value \in Nat
         /\ kgiven \in Seq(Nat) /\ vgiven \in Seq(Nat)
         /\ Len(kgiven) \in Nat /\ Len(kgiven) <= PageSize
  <1>1. IsSequence(page) /\ Len(page) \in Nat /\ Len(page) <= Len(kgiven)
    BY PlaceTypes DEF IInv, PageInv
  <1>2. DOMAIN page = 1 .. Len(page)
    BY <1>1, SequenceDomain
  <1>3. \A n \in 1 .. Len(page) : page[n] \in [key : Wanted, value : Sizes]
    BY <1>2 DEF IInv, TypeOK
  <1>4. kgiven \in Seq(Nat) /\ vgiven \in Seq(Nat) /\ Len(kgiven) <= PageSize
    BY DEF IInv, RequestInv, TypeOK
  <1>5. Len(kgiven) \in Nat
    BY <1>4
  <1> QED  BY <1>1, <1>2, <1>3, <1>4, <1>5

\* The true sizes reach the caller, whether or not list_keys then stops.
LEMMA PushSizesInv == IInv /\ PushSizes => IInv'
  <1> SUFFICES ASSUME IInv, PushSizes PROVE IInv'
    OBVIOUS
  <1>1. /\ pc = "sizes"
        /\ ksizes' = TrueSizes(kgiven, true_ksizes) /\ vsizes' = TrueSizes(vgiven, true_vsizes)
        /\ overrun' = (overrun \/ (size_error /\ fn = "list_keyvals"))
        /\ \/ size_error /\ fn = "list_keys" /\ pc' = "answered" /\ ret' = "SIZE"
           \/ ~(size_error /\ fn = "list_keys") /\ pc' = "keys" /\ ret' = ret
        /\ UNCHANGED <<db, fn, start, got, max_keys, kmem, vmem, kgiven, vgiven, page, i,
                       remote_offset, size_error, nkeys, writes, fails, always, ever>>
    BY DEF PushSizes, Answer
  <1>2. /\ ret = None /\ ksizes = kgiven /\ vsizes = vgiven /\ kmem = Exposed(kgiven)
        /\ max_keys = Len(kgiven) /\ Len(kgiven) > 0 /\ Listed
        /\ i = 1 /\ remote_offset = 0 /\ (size_error <=> TooSmall(page, kgiven, vgiven))
    BY <1>1 DEF IInv, RequestInv, HandlerInv, Listed
  <1>3. /\ ksizes' \in Seq(Nat) /\ Len(ksizes') = Len(kgiven)
        /\ vsizes' \in Seq(Nat) /\ Len(vsizes') = Len(vgiven)
        /\ \A n \in 1 .. Len(page) : ksizes'[n] = KeySize[page[n].key]
    <2>1. /\ \A n \in DOMAIN true_ksizes : true_ksizes[n] \in Nat
          /\ \A n \in DOMAIN true_vsizes : true_vsizes[n] \in Nat
      BY PageTypes DEF true_ksizes, true_vsizes
    <2>2. PICK g, h, t, u :
              /\ g \in Seq(Nat) /\ h \in Seq(Nat)
              /\ kgiven = g /\ vgiven = h /\ true_ksizes = t /\ true_vsizes = u
      BY PageTypes
    <2>3. \A n \in 1 .. Len(page) : n \in DOMAIN true_ksizes /\ n \in 1 .. Len(kgiven)
                                    /\ true_ksizes[n] = KeySize[page[n].key]
      BY PageTypes DEF true_ksizes
    <2>4. /\ TrueSizes(g, t) \in Seq(Nat) /\ Len(TrueSizes(g, t)) = Len(g)
          /\ \A n \in DOMAIN t : n \in 1 .. Len(g) => TrueSizes(g, t)[n] = t[n]
      BY <2>1, <2>2, TrueSizesSeq
    <2>5. TrueSizes(h, u) \in Seq(Nat) /\ Len(TrueSizes(h, u)) = Len(h)
      BY <2>1, <2>2, TrueSizesSeq
    <2>6. ksizes' = TrueSizes(g, t) /\ vsizes' = TrueSizes(h, u)
      BY <1>1, <2>2
    <2>7. \A n \in 1 .. Len(page) : ksizes'[n] = KeySize[page[n].key]
      BY <2>2, <2>3, <2>4, <2>6
    <2> QED  BY <2>2, <2>4, <2>5, <2>6, <2>7
  <1>4. TypeOK'
    <2>1. ScanTypes /\ CallTypes /\ HandlerTypes
      BY TypeParts DEF IInv
    <2>2. overrun' \in BOOLEAN
      BY <1>1, Zenon
    <2>3. ScanTypes'
      BY <1>1, <2>1, <2>2 DEF ScanTypes
    <2>4. CallTypes'
      BY <1>1, <1>3, <2>1 DEF CallTypes
    <2>5. HandlerTypes'
      BY <1>1, <2>1 DEF HandlerTypes
    <2> QED  BY <2>3, <2>4, <2>5, TypePartsNext
  <1>5. RequestInv'
    <2>1. RequestInv
      BY DEF IInv
    <2> QED  BY <1>1, <1>2, <2>1 DEF RequestInv, IsSequence
  <1>6. PageInv'
    <2>1. PageInv
      BY DEF IInv
    <2>2. \A k : Accounted(k) => Accounted(k)'
      BY <1>1 DEF Accounted
    <2> QED  BY <1>1, <1>2, <2>1, <2>2 DEF PageInv, IsSequence
  <1>7. HandlerInv'
    <2>1. Offset(kgiven, 1) = 0
      BY PageTypes, OffsetSteps
    <2>2. remote_offset' = Offset(kgiven, i)' /\ i' \in 1 .. Len(page)' + 1
      BY <1>1, <1>2, <2>1, PageTypes
    <2>3. KeysIn(i - 1)'
      BY <1>1, <1>2 DEF KeysIn
    <2> QED  BY <1>1, <2>2, <2>3 DEF HandlerInv
  <1>8. SizesInv'
    <2>1. ksizes' = TrueSizes(kgiven, true_ksizes)' /\ vsizes' = TrueSizes(vgiven, true_vsizes)'
      BY <1>1 DEF TrueSizes, true_ksizes, true_vsizes
    <2>2. TooSmall(page, kgiven, vgiven)' <=> TooSmall(page, kgiven, vgiven)
      BY <1>1 DEF TooSmall
    <2>3. fn \in Functions
      BY DEF IInv, TypeOK
    <2> QED  BY <1>1, <1>2, <2>1, <2>2, <2>3 DEF SizesInv
  <1>9. AnswerInv'
    <2>1. Exposed(kgiven)' = Exposed(kgiven)
      BY <1>1 DEF Exposed
    <2>2. ASSUME size_error, fn = "list_keys" PROVE \E n \in 1 .. nkeys : ksizes'[n] > kgiven[n]
      <3>1. PICK n \in DOMAIN page : KeySize[page[n].key] > kgiven[n]
        BY <1>2, <2>2 DEF TooSmall
      <3>2. n \in 1 .. nkeys /\ ksizes'[n] = KeySize[page[n].key]
        BY <1>3, PageTypes DEF IInv, PageInv
      <3> QED  BY <3>1, <3>2
    <2>3. ret # "SIZE" /\ ret # "SUCCESS"
      BY <1>2
    <2> QED  BY <1>1, <1>2, <2>1, <2>2, <2>3 DEF AnswerInv
  <1>10. ScanInv'
    BY <1>1, ScanKept DEF IInv
  <1> QED  BY <1>4, <1>5, <1>6, <1>7, <1>8, <1>9, <1>10 DEF IInv

-----------------------------------------------------------------------------
(* The database.                                                           *)

\* A write of another client may take a key away from those that were there throughout,
\* and adds one to those that were there at some time.
LEMMA WriteInv ==
  ASSUME IInv, NEW k \in Keys, NEW v \in Sizes \cup {None}, Write(k, v)
  PROVE  IInv'
  <1>1. /\ UNCHANGED <<pc, fn, start, got, max_keys, ksizes, vsizes, kmem, vmem, kgiven, vgiven,
                       page, i, remote_offset, size_error, nkeys, ret, fails, overrun>>
        /\ UNCHANGED <<fn, sizes, buffers, request, page>>
        /\ db' = [db EXCEPT ![k] = v] /\ writes > 0 /\ writes' = writes - 1
    BY DEF Write
  <1>2. always' \subseteq always /\ ever \subseteq ever' /\ always' \subseteq ever'
        /\ ever' \subseteq Keys
    BY DEF Write, IInv, TypeOK
  <1>3. always' \subseteq Present' /\ Present' \subseteq ever'
    <2>1. always \subseteq Present /\ Present \subseteq ever /\ db \in [Keys -> Sizes \cup {None}]
      BY DEF IInv, ScanInv, TypeOK
    <2>2. \A j \in Keys : db'[j] = IF j = k THEN v ELSE db[j]
      BY <1>1, <2>1
    <2>3. CASE v = None
      <3>1. always' = always \ {k} /\ ever' = ever
        BY <2>3 DEF Write
      <3> QED  BY <2>1, <2>2, <2>3, <3>1 DEF Present
    <2>4. CASE v # None
      <3>1. always' = always /\ ever' = ever \cup {k}
        BY <2>4 DEF Write
      <3> QED  BY <2>1, <2>2, <2>4, <3>1 DEF Present
    <2> QED  BY <2>3, <2>4
  <1>4. TypeOK'
    <2>1. ScanTypes /\ CallTypes /\ HandlerTypes
      BY TypeParts DEF IInv
    <2>2. ScanTypes'
      BY <1>1, <1>2, <2>1 DEF ScanTypes
    <2>3. CallTypes' /\ HandlerTypes'
      BY <1>1, <2>1 DEF CallTypes, HandlerTypes
    <2> QED  BY <2>2, <2>3, TypePartsNext
  <1>5. Listed' <=> Listed
    BY <1>1 DEF Listed
  <1>6. RequestInv'
    <2>1. RequestInv
      BY DEF IInv
    <2> QED  BY <1>1, <2>1, BuffersKept DEF RequestInv
  <1>7. PageInv'
    <2>1. PageInv
      BY DEF IInv
    <2>2. \A j : Accounted(j) => Accounted(j)'
      BY <1>1 DEF Accounted
    <2> QED  BY <1>1, <1>2, <1>5, <2>1, <2>2, BuffersKept DEF PageInv
  <1>8. HandlerInv'
    <2>1. HandlerInv
      BY DEF IInv
    <2> QED  BY <1>1, <2>1, BuffersKept DEF HandlerInv
  <1>9. SizesInv'
    BY <1>1, <1>5, BuffersKept DEF IInv, SizesInv
  <1>10. AnswerInv'
    BY <1>1, BuffersKept DEF IInv, AnswerInv
  <1>11. ScanInv'
    <2>1. ScanInv
      BY DEF IInv
    <2> QED  BY <1>1, <1>2, <1>3, <2>1 DEF ScanInv, Ascending, Range
  <1> QED  BY <1>4, <1>6, <1>7, <1>8, <1>9, <1>10, <1>11 DEF IInv

LEMMA WritesInv == IInv /\ (Put \/ Erase) => IInv'
  <1>1. ASSUME IInv, Put PROVE IInv'
    <2>1. PICK k \in Keys, v \in Sizes : Write(k, v)
      BY <1>1 DEF Put
    <2>2. v \in Sizes \cup {None}
      OBVIOUS
    <2> QED  BY <1>1, <2>1, <2>2, WriteInv
  <1>2. ASSUME IInv, Erase PROVE IInv'
    <2>1. PICK k \in Keys : Write(k, None)
      BY <1>2 DEF Erase, Present
    <2>2. None \in Sizes \cup {None}
      OBVIOUS
    <2> QED  BY <1>2, <2>1, <2>2, WriteInv
  <1> QED  BY <1>1, <1>2

\* What a listing is, in terms of the state that it is made in.
LEMMA ListingFacts ==
  ASSUME IInv, NEW ks \in Listings(max_keys)
  PROVE  /\ DOMAIN ks = 1 .. Len(ks) /\ Len(ks) \in 0 .. max_keys /\ max_keys \in Nat
         /\ \A n \in 1 .. Len(ks) : /\ ks[n] \in Wanted /\ ks[n] \in ever /\ ks[n] > start
                                    /\ db[ks[n]] \in Sizes
         /\ \A m, n \in 1 .. Len(ks) : m < n => ks[m] < ks[n]
         /\ \A k \in Wanted \cap always :
                \/ k <= start \/ \E n \in 1 .. Len(ks) : ks[n] = k
                \/ Len(ks) = max_keys /\ \A n \in 1 .. Len(ks) : ks[n] < k
  <1>0. max_keys \in Nat /\ start \in Nat
    <2>1. start \in Keys \/ start = 0
      BY DEF IInv, TypeOK
    <2>2. start \in Nat
      <3>1. Keys \subseteq Nat /\ 0 \in Nat
        OBVIOUS
      <3> QED  BY <2>1, <3>1, Zenon
    <2>3. max_keys \in Nat
      BY PlaceTypes
    <2> QED  BY <2>2, <2>3
  <1>1. PICK m \in 0 .. max_keys : ks \in [1 .. m -> Candidates]
    BY DEF Listings
  <1>2. ks = [x \in 1 .. m |-> ks[x]] /\ m \in Nat
    BY <1>0, <1>1
  <1>3. DOMAIN ks = 1 .. Len(ks) /\ Len(ks) = m
    BY <1>2, FunctionIsSequence
  <1>4. \A k \in Candidates : k \in Wanted /\ k \in ever /\ k > start /\ db[k] \in Sizes
    <2>1. Present \subseteq ever /\ db \in [Keys -> Sizes \cup {None}]
      BY DEF IInv, ScanInv, TypeOK
    <2> QED  BY <2>1 DEF Candidates, Present
  <1>5. \A n \in 1 .. Len(ks) : ks[n] \in Candidates
    BY <1>1, <1>3
  <1>6. ASSUME NEW k \in Wanted \cap always, ~(k <= start)
        PROVE  \/ \E n \in 1 .. Len(ks) : ks[n] = k
               \/ Len(ks) = max_keys /\ \A n \in 1 .. Len(ks) : ks[n] < k
    <2>1. k \in Nat /\ k > start
      BY <1>0, <1>6
    <2>2. k \in Candidates
      BY <2>1 DEF Candidates, IInv, ScanInv
    <2>3. k \in Range(ks) \/ (Len(ks) = max_keys /\ \A j \in Range(ks) : j < k)
      BY <2>2 DEF Listings
    <2> QED  BY <1>3, <2>3 DEF Range
  <1>7. \A a, b \in 1 .. Len(ks) : a < b => ks[a] < ks[b]
    BY <1>3 DEF Listings, Ascending
  <1> QED  BY <1>0, <1>1, <1>3, <1>4, <1>5, <1>6, <1>7

\* The page that the handler makes of a listing.
LEMMA ListInv == IInv /\ List => IInv'
  <1> SUFFICES ASSUME IInv, List PROVE IInv'
    OBVIOUS
  <1> DEFINE P(ks) == [n \in 1 .. Len(ks) |-> [key |-> ks[n], value |-> db[ks[n]]]]
  <1>1. PICK ks \in Listings(max_keys) :
            /\ page' = P(ks) /\ (size_error' = TooSmall(P(ks), ksizes, vsizes))
            /\ IF P(ks) = <<>> THEN Answer("SUCCESS") ELSE pc' = "sizes" /\ UNCHANGED ret
    BY DEF List
  <1>2. /\ pc = "sent" /\ i' = 1 /\ remote_offset' = 0 /\ nkeys' = Len(page')
        /\ UNCHANGED <<db, fn, start, got, max_keys, ksizes, vsizes, kmem, vmem, kgiven, vgiven,
                       writes, fails, always, ever, overrun>>
    BY DEF List
  <1>3. /\ ret = None /\ ksizes = kgiven /\ vsizes = vgiven /\ kmem = Exposed(kgiven)
        /\ max_keys = Len(kgiven) /\ Len(kgiven) > 0
    BY <1>2 DEF IInv, RequestInv
  <1>4. /\ DOMAIN ks = 1 .. Len(ks) /\ Len(ks) \in 0 .. max_keys /\ max_keys \in Nat
        /\ \A n \in 1 .. Len(ks) : /\ ks[n] \in Wanted /\ ks[n] \in ever /\ ks[n] > start
                                   /\ db[ks[n]] \in Sizes
        /\ \A m, n \in 1 .. Len(ks) : m < n => ks[m] < ks[n]
        /\ \A k \in Wanted \cap always :
               \/ k <= start \/ \E n \in 1 .. Len(ks) : ks[n] = k
               \/ Len(ks) = max_keys /\ \A n \in 1 .. Len(ks) : ks[n] < k
    BY ListingFacts
  <1>0. Len(ks) \in Nat
    <2>1. Len(ks) \in 0 .. max_keys /\ max_keys \in Nat
      BY <1>4, Zenon
    <2> QED  BY <2>1
  <1>5. page' = [n \in 1 .. Len(ks) |-> page'[n]]
    BY <1>1
  <1>6. Len(page') = Len(ks) /\ DOMAIN page' = 1 .. Len(ks) /\ IsSequence(page')
    <2>1. PICK f : f = page'
      OBVIOUS
    <2> QED  BY <1>0, <1>5, <2>1, FunctionIsSequence
  <1>7. \A n \in 1 .. Len(ks) : page'[n] = [key |-> ks[n], value |-> db[ks[n]]]
    BY <1>1
  <1> HIDE DEF P
  <1>8. page' = <<>> <=> Len(ks) = 0
    <2>1. page' = <<>> => Len(ks) = 0
      BY <1>6
    <2>2. Len(ks) = 0 => page' = <<>>
      BY <1>5
    <2> QED  BY <2>1, <2>2
  <1>9. \/ pc' = "answered" /\ ret' = "SUCCESS" /\ Len(ks) = 0
        \/ pc' = "sizes" /\ ret' = ret /\ Len(ks) > 0
    BY <1>0, <1>1, <1>8 DEF Answer
  <1>10. TooSmall(P(ks), ksizes, vsizes) <=> TooSmall(page, kgiven, vgiven)'
    BY <1>1, <1>2, <1>3 DEF TooSmall
  <1>11. size_error' \in BOOLEAN /\ (size_error' <=> TooSmall(page, kgiven, vgiven)')
    <2>1. TooSmall(P(ks), ksizes, vsizes) \in BOOLEAN
      BY DEF TooSmall
    <2> QED  BY <1>1, <1>10, <2>1, Zenon
  <1>12. TypeOK'
    <2>1. ScanTypes /\ CallTypes /\ HandlerTypes
      BY TypeParts DEF IInv
    <2>2. ScanTypes'
      BY <1>2, <2>1 DEF ScanTypes
    <2>3. CallTypes'
      BY <1>2, <1>3, <1>9, <2>1 DEF CallTypes
    <2>4. HandlerTypes'
      <3>1. \A n \in DOMAIN page' : page'[n] \in [key : Wanted, value : Sizes]
        <4>1. \A n \in 1 .. Len(ks) : ks[n] \in Wanted /\ db[ks[n]] \in Sizes
          BY <1>4
        <4> QED  BY <1>6, <1>7, <4>1
      <3>2. i' \in 0 .. PageSize + 1 /\ nkeys' \in 0 .. PageSize
        BY <1>2, <1>4, <1>6, PlaceTypes
      <3>3. remote_offset' \in 0 .. Total(kgiven)' + Total(vgiven)'
        BY <1>2, PageTypes, TotalIsNat
      <3> QED  BY <1>11, <3>1, <3>2, <3>3 DEF HandlerTypes
    <2> QED  BY <2>2, <2>3, <2>4, TypePartsNext
  <1>13. RequestInv'
    <2>1. RequestInv
      BY DEF IInv
    <2>2. Exposed(kgiven)' = Exposed(kgiven)
      BY <1>2 DEF Exposed
    <2> QED  BY <1>2, <1>3, <1>9, <2>1, <2>2 DEF RequestInv, IsSequence
  <1>14. PageInv'
    <2>1. IsSequence(page)' /\ nkeys' = Len(page)' /\ Len(page)' <= Len(kgiven)'
      BY <1>2, <1>3, <1>4, <1>6
    <2>2. \A n \in DOMAIN page' : page'[n].key = ks[n] /\ n \in 1 .. Len(ks)
      BY <1>6, <1>7
    <2>3. \A m, n \in DOMAIN page' : m < n => page'[m].key < page'[n].key
      BY <1>4, <2>2
    <2>4. \A n \in DOMAIN page' : page'[n].key \in ever' /\ page'[n].key > start'
      BY <1>2, <1>4, <2>2
    <2>5. \A k \in Wanted \cap always' : Accounted(k)'
      BY <1>2, <1>3, <1>4, <1>6, <2>2 DEF Accounted
    <2> QED  BY <2>1, <2>3, <2>4, <2>5 DEF PageInv
  <1>15. HandlerInv'
    BY <1>2, <1>8, <1>9, <1>11 DEF HandlerInv
  <1>16. SizesInv'
    <2>1. Len(ks) = 0 => page' = <<>> /\ ~TooSmall(page, kgiven, vgiven)'
      BY <1>6, <1>8 DEF TooSmall
    <2> QED  BY <1>9, <2>1 DEF SizesInv, Listed
  <1>17. AnswerInv'
    <2>1. Len(ks) = 0 => KeysIn(Len(page))' /\ ValuesIn(Len(page))'
      BY <1>6 DEF KeysIn, ValuesIn
    <2>2. ret' # "SIZE" /\ pc' # "returned" /\ pc' # "idle"
      BY <1>3, <1>9
    <2> QED  BY <1>3, <1>9, <2>1, <2>2 DEF AnswerInv
  <1>18. ScanInv'
    BY <1>2, <1>9, ScanKept DEF IInv
  <1> QED  BY <1>12, <1>13, <1>14, <1>15, <1>16, <1>17, <1>18 DEF IInv

-----------------------------------------------------------------------------
(* The transfers.                                                          *)

\* An item that fits into its own buffer is pushed before the next one begins.
LEMMA ItemApart ==
  ASSUME NEW s \in Seq(Nat), NEW m \in 1 .. Len(s), NEW n \in m + 1 .. Len(s) + 1,
         NEW b \in Nat, b <= s[m]
  PROVE  /\ Offset(s, m) \in Nat /\ Offset(s, n) \in Nat
         /\ Offset(s, m) + b <= Offset(s, n)
  <1>1. Offset(s, m) + s[m] <= Offset(s, n)
    BY BuffersApart
  <1>2. m \in 1 .. Len(s) + 1 /\ n \in 1 .. Len(s) + 1 /\ s[m] \in Nat
    OBVIOUS
  <1>3. Offset(s, m) \in Nat /\ Offset(s, n) \in Nat
    BY <1>2, OffsetSteps
  <1> QED  BY <1>1, <1>2, <1>3

\* The offset of the next item.
LEMMA NextOffset ==
  ASSUME NEW s \in Seq(Nat), NEW n \in 1 .. Len(s)
  PROVE  /\ Offset(s, n) \in Nat /\ Offset(s, n + 1) = Offset(s, n) + s[n]
         /\ Offset(s, n + 1) \in 0 .. Total(s)
  <1>1. /\ n \in 1 .. Len(s) + 1 /\ n + 1 \in 1 .. Len(s) + 1 /\ n + 1 \in n + 1 .. Len(s) + 1
        /\ Len(s) + 1 \in 1 .. Len(s) + 1
    OBVIOUS
  <1>2. Offset(s, n) \in Nat /\ Offset(s, n + 1) \in Nat /\ Total(s) \in Nat
        /\ Offset(s, n + 1) = Offset(s, n) + s[n]
    BY <1>1, OffsetSteps
  <1>3. Offset(s, n + 1) <= Total(s)
    BY <1>1, BuffersApart
  <1> QED  BY <1>2, <1>3

\* An item that is pushed to the offset of its buffer leaves those before it in place.
LEMMA ItemPushed ==
  ASSUME NEW g \in Seq(Nat), NEW B, NEW mem, IsSequence(mem), Len(mem) \in Nat,
         NEW a \in 1 .. Len(g), Fits(mem, Offset(g, a), B[a]),
         \A n \in 1 .. a : Len(B[n]) \in Nat /\ DOMAIN B[n] = 1 .. Len(B[n]) /\ Len(B[n]) <= g[n],
         \A n \in 1 .. a - 1 : Holds(mem, Offset(g, n), B[n])
  PROVE  \A n \in 1 .. a : Holds(Transfer(mem, Offset(g, a), B[a]), Offset(g, n), B[n])
  <1>1. Offset(g, a) \in Nat /\ Len(B[a]) \in Nat /\ DOMAIN B[a] = 1 .. Len(B[a])
    BY NextOffset
  <1>2. Holds(Transfer(mem, Offset(g, a), B[a]), Offset(g, a), B[a])
    BY <1>1, TransferHolds
  <1>3. ASSUME NEW n \in 1 .. a - 1
        PROVE  Holds(Transfer(mem, Offset(g, a), B[a]), Offset(g, n), B[n])
    <2>1. n \in 1 .. Len(g) /\ n \in 1 .. a /\ a \in n + 1 .. Len(g) + 1
      OBVIOUS
    <2>2. Len(B[n]) \in Nat /\ DOMAIN B[n] = 1 .. Len(B[n]) /\ Len(B[n]) <= g[n]
      BY <2>1
    <2>3. Offset(g, n) \in Nat /\ Offset(g, n) + Len(B[n]) <= Offset(g, a)
      BY <2>1, <2>2, ItemApart
    <2>4. Holds(mem, Offset(g, n), B[n])
      OBVIOUS
    <2> QED  BY <1>1, <2>2, <2>3, <2>4, TransferKeeps
  <1>4. \A n \in 1 .. a : n = a \/ n \in 1 .. a - 1
    OBVIOUS
  <1> QED  BY <1>2, <1>3, <1>4

\* The next key is pushed, and those before it stay in place.
LEMMA KeyPushed ==
  ASSUME IInv, pc = "keys", i <= Len(page), ~overrun,
         Fits(kmem, remote_offset, KeyBytes(page[i].key)),
         kmem' = Transfer(kmem, remote_offset, KeyBytes(page[i].key)),
         UNCHANGED <<kgiven, page>>
  PROVE  \A n \in 1 .. i : Holds(kmem', Offset(kgiven, n), KeyBytes(page[n].key))
  <1> DEFINE b == [n \in 1 .. Len(page) |-> KeyBytes(page[n].key)]
  <1>1. PICK g, mem, a, B : /\ g \in Seq(Nat) /\ g = kgiven
                           /\ mem = kmem /\ a = i /\ B = b
    BY PageTypes
  <1>2. /\ i \in 1 .. Len(page) /\ remote_offset = Offset(kgiven, i) /\ KeysIn(i - 1)
        /\ Len(page) \in Nat /\ Len(page) <= Len(kgiven)
    <2>1. i \in 1 .. Len(page) + 1 /\ remote_offset = Offset(kgiven, i) /\ KeysIn(i - 1)
      BY DEF IInv, HandlerInv
    <2>2. Len(page) \in Nat /\ Len(page) <= Len(kgiven)
      BY PageTypes
    <2> QED  BY <2>1, <2>2
  <1>3. IsSequence(kmem) /\ Len(kmem) \in Nat
    <2>1. IsSequence(kmem) /\ Len(kmem) \in {0, Total(kgiven)} /\ Total(kgiven) \in Nat
      BY PageTypes, TotalIsNat DEF IInv, RequestInv, TypeOK
    <2> QED  BY <2>1
  <1>4. ASSUME NEW n \in 1 .. Len(page)
        PROVE  /\ b[n] = KeyBytes(page[n].key) /\ Len(b[n]) \in Nat /\ DOMAIN b[n] = 1 .. Len(b[n])
               /\ Len(b[n]) <= kgiven[n]
    <2>1. b[n] = KeyBytes(page[n].key)
      OBVIOUS
    <2>2. n \in DOMAIN page /\ page[n].key \in Keys /\ KeySize[page[n].key] \in Nat
      BY PageTypes
    <2>3. ~TooSmall(page, kgiven, vgiven)
      BY DEF IInv, SizesInv, Listed, RequestInv
    <2>4. ~(KeySize[page[n].key] > kgiven[n])
      BY <2>2, <2>3, Zenon DEF TooSmall
    <2>5. kgiven[n] \in Nat
      BY <1>2, PageTypes
    <2>6. Len(KeyBytes(page[n].key)) = KeySize[page[n].key] /\ KeySize[page[n].key] \in Nat
          /\ DOMAIN KeyBytes(page[n].key) = 1 .. KeySize[page[n].key]
      BY <2>2, KeyBytesLength
    <2> HIDE DEF b
    <2> QED  BY <2>1, <2>4, <2>5, <2>6
  <1> HIDE DEF b
  <1>5. /\ a \in 1 .. Len(g) /\ IsSequence(mem) /\ Len(mem) \in Nat
        /\ Fits(mem, Offset(g, a), B[a]) /\ kmem' = Transfer(mem, Offset(g, a), B[a])
    BY <1>1, <1>2, <1>3, <1>4
  <1>6. \A n \in 1 .. i : n \in 1 .. Len(page)
    BY <1>2
  <1>7. \A n \in 1 .. a : Len(B[n]) \in Nat /\ DOMAIN B[n] = 1 .. Len(B[n]) /\ Len(B[n]) <= g[n]
    BY <1>1, <1>4, <1>6
  <1>8. \A n \in 1 .. a - 1 : Holds(mem, Offset(g, n), B[n])
    <2>1. \A n \in 1 .. i - 1 : n \in 1 .. Len(page)
      BY <1>2
    <2>2. \A n \in 1 .. i - 1 : Holds(kmem, Offset(kgiven, n), b[n])
      BY <1>2, <1>4, <2>1 DEF KeysIn
    <2> QED  BY <1>1, <2>2
  <1>9. \A n \in 1 .. a : Holds(kmem', Offset(g, n), B[n])
    <2>1. g \in Seq(Nat)
      BY <1>1
    <2>2. \A n \in 1 .. a : Holds(Transfer(mem, Offset(g, a), B[a]), Offset(g, n), B[n])
      BY <1>5, <1>7, <1>8, <2>1, ItemPushed
    <2> QED  BY <1>5, <2>2
  <1>10. \A n \in 1 .. i : Holds(kmem', Offset(kgiven, n), KeyBytes(page[n].key))
    BY <1>1, <1>4, <1>6, <1>9
  <1> QED  BY <1>10

\* The next value is pushed, and those before it stay in place.
LEMMA ValuePushed ==
  ASSUME IInv, pc = "values", i <= Len(page), ~overrun,
         Fits(vmem, remote_offset, ValueBytes(page[i].key, page[i].value)),
         vmem' = Transfer(vmem, remote_offset, ValueBytes(page[i].key, page[i].value)),
         UNCHANGED <<vgiven, page>>
  PROVE  \A n \in 1 .. i : Holds(vmem', Offset(vgiven, n), ValueBytes(page[n].key, page[n].value))
  <1> DEFINE b == [n \in 1 .. Len(page) |-> ValueBytes(page[n].key, page[n].value)]
  <1>1. PICK g, mem, a, B : /\ g \in Seq(Nat) /\ g = vgiven
                           /\ mem = vmem /\ a = i /\ B = b
    BY PageTypes
  <1>2. /\ i \in 1 .. Len(page) /\ remote_offset = Offset(vgiven, i) /\ ValuesIn(i - 1)
        /\ Len(page) \in Nat /\ Len(page) <= Len(vgiven)
    <2>1. i \in 1 .. Len(page) + 1 /\ remote_offset = Offset(vgiven, i) /\ ValuesIn(i - 1)
      BY DEF IInv, HandlerInv
    <2>2. Len(page) \in Nat /\ Len(page) <= Len(vgiven)
      BY PageTypes DEF IInv, RequestInv, HandlerInv
    <2> QED  BY <2>1, <2>2
  <1>3. IsSequence(vmem) /\ Len(vmem) \in Nat
    <2>1. IsSequence(vmem) /\ Len(vmem) \in {0, Total(vgiven)} /\ Total(vgiven) \in Nat
      BY PageTypes, TotalIsNat DEF IInv, RequestInv, TypeOK
    <2> QED  BY <2>1
  <1>4. ASSUME NEW n \in 1 .. Len(page)
        PROVE  /\ b[n] = ValueBytes(page[n].key, page[n].value)
               /\ Len(b[n]) \in Nat /\ DOMAIN b[n] = 1 .. Len(b[n])
               /\ Len(b[n]) <= vgiven[n]
    <2>1. b[n] = ValueBytes(page[n].key, page[n].value)
      OBVIOUS
    <2>2. n \in DOMAIN page /\ page[n].key \in Keys /\ page[n].value \in Sizes
      BY PageTypes
    <2>3. ~TooSmall(page, kgiven, vgiven)
      BY DEF IInv, SizesInv, Listed, RequestInv
    <2>4. ~(page[n].value > vgiven[n])
      BY <2>2, <2>3 DEF TooSmall, IInv, HandlerInv
    <2>5. vgiven[n] \in Nat
      BY <1>2, PageTypes
    <2>6. Len(ValueBytes(page[n].key, page[n].value)) = page[n].value /\ page[n].value \in Nat
          /\ DOMAIN ValueBytes(page[n].key, page[n].value) = 1 .. page[n].value
      BY <2>2, ValueBytesLength
    <2> HIDE DEF b
    <2> QED  BY <2>1, <2>4, <2>5, <2>6
  <1> HIDE DEF b
  <1>5. /\ a \in 1 .. Len(g) /\ IsSequence(mem) /\ Len(mem) \in Nat
        /\ Fits(mem, Offset(g, a), B[a]) /\ vmem' = Transfer(mem, Offset(g, a), B[a])
    BY <1>1, <1>2, <1>3, <1>4
  <1>6. \A n \in 1 .. i : n \in 1 .. Len(page)
    BY <1>2
  <1>7. \A n \in 1 .. a : Len(B[n]) \in Nat /\ DOMAIN B[n] = 1 .. Len(B[n]) /\ Len(B[n]) <= g[n]
    BY <1>1, <1>4, <1>6
  <1>8. \A n \in 1 .. a - 1 : Holds(mem, Offset(g, n), B[n])
    <2>1. \A n \in 1 .. i - 1 : n \in 1 .. Len(page)
      BY <1>2
    <2>2. \A n \in 1 .. i - 1 : Holds(vmem, Offset(vgiven, n), b[n])
      BY <1>2, <1>4, <2>1 DEF ValuesIn
    <2> QED  BY <1>1, <2>2
  <1>9. \A n \in 1 .. a : Holds(vmem', Offset(g, n), B[n])
    <2>1. g \in Seq(Nat)
      BY <1>1
    <2>2. \A n \in 1 .. a : Holds(Transfer(mem, Offset(g, a), B[a]), Offset(g, n), B[n])
      BY <1>5, <1>7, <1>8, <2>1, ItemPushed
    <2> QED  BY <1>5, <2>2
  <1>10. \A n \in 1 .. i : Holds(vmem', Offset(vgiven, n), ValueBytes(page[n].key, page[n].value))
    BY <1>1, <1>4, <1>6, <1>9
  <1> QED  BY <1>10

\* The handler pushes a key to its buffer, or stops where the memory of the caller ends.
LEMMA PushKeyInv == IInv /\ PushKey => IInv'
  <1> SUFFICES ASSUME IInv, PushKey PROVE IInv'
    OBVIOUS
  <1> DEFINE bytes == KeyBytes(page[i].key)
  <1>1. CASE ~Fits(kmem, remote_offset, bytes)
    <2>1. pc = "keys" /\ pc' = "answered" /\ ret' = "HG"
          /\ UNCHANGED <<db, caller, max_keys, sizes, buffers, request, handler, writes, history,
                         overrun>>
          /\ fails' = fails
      BY <1>1 DEF PushKey, Answer
    <2> QED  BY <2>1, PlaceTypes, FailedInv
  <1>2. CASE Fits(kmem, remote_offset, bytes)
    <2>0. /\ pc = "keys" /\ i <= Len(page) /\ kmem' = Transfer(kmem, remote_offset, bytes)
          /\ i' = i + 1 /\ remote_offset' = remote_offset + kgiven[i]
          /\ UNCHANGED <<pc, ret, db, fn, start, got, max_keys, ksizes, vsizes, vmem, kgiven,
                         vgiven, page, size_error, nkeys, writes, fails, always, ever, overrun>>
      BY <1>2 DEF PushKey
    <2>1. /\ i \in 1 .. Len(page) /\ i \in 1 .. Len(kgiven) /\ remote_offset = Offset(kgiven, i)
      <3>1. i \in 1 .. Len(page) + 1 /\ remote_offset = Offset(kgiven, i)
        BY <2>0 DEF IInv, HandlerInv
      <3>2. Len(page) \in Nat /\ Len(page) <= Len(kgiven)
        BY <2>0, PageTypes
      <3> QED  BY <2>0, <3>1, <3>2
    <2>2. /\ remote_offset' = Offset(kgiven, i + 1)
          /\ remote_offset' \in 0 .. Total(kgiven) /\ Total(kgiven) \in Nat /\ Total(vgiven) \in Nat
      <3>1. PICK g, a : g \in Seq(Nat) /\ g = kgiven /\ a = i
        BY PageTypes
      <3>2. a \in 1 .. Len(g)
        BY <2>1, <3>1
      <3>3. Offset(g, a + 1) = Offset(g, a) + g[a] /\ Offset(g, a + 1) \in 0 .. Total(g)
        BY <3>1, <3>2, NextOffset
      <3> QED  BY <2>0, <2>1, <3>1, <3>3, PageTypes, TotalIsNat
    <2>3. Len(kmem') = Len(kmem) /\ IsSequence(kmem)'
      <3>1. PICK mem, o, b : mem = kmem /\ o = remote_offset /\ b = bytes
        OBVIOUS
      <3>2. IsSequence(kmem) /\ Len(kmem) \in {0, Total(kgiven)}
        BY DEF IInv, RequestInv, TypeOK
      <3>3. IsSequence(mem) /\ Len(mem) \in Nat
        BY <2>2, <3>1, <3>2
      <3> HIDE DEF bytes
      <3>4. Len(Transfer(mem, o, b)) = Len(mem) /\ IsSequence(Transfer(mem, o, b))
        BY <3>3, TransferLength
      <3> QED  BY <2>0, <3>1, <3>4
    <2>4. TypeOK'
      <3>1. ScanTypes /\ CallTypes /\ HandlerTypes
        BY TypeParts DEF IInv
      <3>2. ScanTypes'
        BY <2>0, <3>1 DEF ScanTypes
      <3>3. CallTypes'
        BY <2>0, <2>3, <3>1 DEF CallTypes
      <3>4. i' \in 0 .. PageSize + 1 /\ remote_offset' \in 0 .. Total(kgiven)' + Total(vgiven)'
        BY <2>0, <2>1, <2>2, PageTypes
      <3>5. HandlerTypes'
        BY <2>0, <3>1, <3>4 DEF HandlerTypes
      <3> QED  BY <3>2, <3>3, <3>5, TypePartsNext
    <2>5. RequestInv'
      <3>1. RequestInv
        BY DEF IInv
      <3> QED  BY <2>0, <2>3, <3>1 DEF RequestInv, IsSequence
    <2>6. PageInv'
      <3>1. PageInv
        BY DEF IInv
      <3>2. \A k : Accounted(k) => Accounted(k)'
        BY <2>0 DEF Accounted
      <3> QED  BY <2>0, <3>1, <3>2 DEF PageInv, IsSequence, Listed
    <2>7. HandlerInv'
      <3>1. i' \in 1 .. Len(page)' + 1 /\ remote_offset' = Offset(kgiven, i)' /\ i' - 1 = i
        BY <2>0, <2>1, <2>2, PageTypes
      <3>2. ~overrun => KeysIn(i - 1)'
        BY <1>2, <2>0, <3>1, KeyPushed DEF KeysIn
      <3> QED  BY <2>0, <3>1, <3>2 DEF HandlerInv
    <2>8. SizesInv'
      <3>1. SizesInv
        BY DEF IInv
      <3> QED  BY <2>0, <3>1 DEF SizesInv, Listed, TrueSizes, true_ksizes, true_vsizes, TooSmall
    <2>9. AnswerInv'
      <3>1. ret' # "SIZE" /\ pc' = "keys"
        BY <2>0 DEF IInv, RequestInv
      <3> QED  BY <3>1 DEF AnswerInv
    <2>10. ScanInv'
      BY <2>0, ScanKept DEF IInv
    <2> QED  BY <2>4, <2>5, <2>6, <2>7, <2>8, <2>9, <2>10 DEF IInv
  <1> QED  BY <1>1, <1>2

\* The handler pushes a value to its buffer, or stops where the memory of the caller ends.
LEMMA PushValueInv == IInv /\ PushValue => IInv'
  <1> SUFFICES ASSUME IInv, PushValue PROVE IInv'
    OBVIOUS
  <1> DEFINE bytes == ValueBytes(page[i].key, page[i].value)
  <1>1. CASE ~Fits(vmem, remote_offset, bytes)
    <2>1. pc = "values" /\ pc' = "answered" /\ ret' = "HG"
          /\ UNCHANGED <<db, caller, max_keys, sizes, buffers, request, handler, writes, history,
                         overrun>>
          /\ fails' = fails
      BY <1>1 DEF PushValue, Answer
    <2> QED  BY <2>1, PlaceTypes, FailedInv
  <1>2. CASE Fits(vmem, remote_offset, bytes)
    <2>0. /\ pc = "values" /\ i <= Len(page) /\ vmem' = Transfer(vmem, remote_offset, bytes)
          /\ i' = i + 1 /\ remote_offset' = remote_offset + vgiven[i]
          /\ UNCHANGED <<pc, ret, db, fn, start, got, max_keys, ksizes, vsizes, kmem, kgiven,
                         vgiven, page, size_error, nkeys, writes, fails, always, ever, overrun>>
      BY <1>2 DEF PushValue
    <2>1. /\ i \in 1 .. Len(page) /\ i \in 1 .. Len(vgiven) /\ remote_offset = Offset(vgiven, i)
      <3>1. i \in 1 .. Len(page) + 1 /\ remote_offset = Offset(vgiven, i)
        BY <2>0 DEF IInv, HandlerInv
      <3>2. Len(page) \in Nat /\ Len(page) <= Len(vgiven)
        BY <2>0, PageTypes DEF IInv, RequestInv, HandlerInv
      <3> QED  BY <2>0, <3>1, <3>2
    <2>2. /\ remote_offset' = Offset(vgiven, i + 1)
          /\ remote_offset' \in 0 .. Total(vgiven) /\ Total(kgiven) \in Nat /\ Total(vgiven) \in Nat
      <3>1. PICK g, a : g \in Seq(Nat) /\ g = vgiven /\ a = i
        BY PageTypes
      <3>2. a \in 1 .. Len(g)
        BY <2>1, <3>1
      <3>3. Offset(g, a + 1) = Offset(g, a) + g[a] /\ Offset(g, a + 1) \in 0 .. Total(g)
        BY <3>1, <3>2, NextOffset
      <3> QED  BY <2>0, <2>1, <3>1, <3>3, PageTypes, TotalIsNat
    <2>3. Len(vmem') = Len(vmem) /\ IsSequence(vmem)'
      <3>1. PICK mem, o, b : mem = vmem /\ o = remote_offset /\ b = bytes
        OBVIOUS
      <3>2. IsSequence(vmem) /\ Len(vmem) \in {0, Total(vgiven)}
        BY DEF IInv, RequestInv, TypeOK
      <3>3. IsSequence(mem) /\ Len(mem) \in Nat
        BY <2>2, <3>1, <3>2
      <3> HIDE DEF bytes
      <3>4. Len(Transfer(mem, o, b)) = Len(mem) /\ IsSequence(Transfer(mem, o, b))
        BY <3>3, TransferLength
      <3> QED  BY <2>0, <3>1, <3>4
    <2>4. TypeOK'
      <3>1. ScanTypes /\ CallTypes /\ HandlerTypes
        BY TypeParts DEF IInv
      <3>2. ScanTypes'
        BY <2>0, <3>1 DEF ScanTypes
      <3>3. CallTypes'
        BY <2>0, <2>3, <3>1 DEF CallTypes
      <3>4. i' \in 0 .. PageSize + 1 /\ remote_offset' \in 0 .. Total(kgiven)' + Total(vgiven)'
        BY <2>0, <2>1, <2>2, PageTypes
      <3>5. HandlerTypes'
        BY <2>0, <3>1, <3>4 DEF HandlerTypes
      <3> QED  BY <3>2, <3>3, <3>5, TypePartsNext
    <2>5. RequestInv'
      <3>1. RequestInv
        BY DEF IInv
      <3> QED  BY <2>0, <2>3, <3>1 DEF RequestInv, IsSequence
    <2>6. PageInv'
      <3>1. PageInv
        BY DEF IInv
      <3>2. \A k : Accounted(k) => Accounted(k)'
        BY <2>0 DEF Accounted
      <3> QED  BY <2>0, <3>1, <3>2 DEF PageInv, IsSequence, Listed
    <2>7. HandlerInv'
      <3>1. i' \in 1 .. Len(page)' + 1 /\ remote_offset' = Offset(vgiven, i)' /\ i' - 1 = i
        BY <2>0, <2>1, <2>2, PageTypes
      <3>2. ~overrun => ValuesIn(i - 1)'
        BY <1>2, <2>0, <3>1, ValuePushed DEF ValuesIn
      <3>3. fn' = "list_keyvals" /\ (~overrun => KeysIn(Len(page))')
        BY <2>0 DEF IInv, HandlerInv, KeysIn
      <3> QED  BY <2>0, <3>1, <3>2, <3>3 DEF HandlerInv
    <2>8. SizesInv'
      <3>1. SizesInv
        BY DEF IInv
      <3> QED  BY <2>0, <3>1 DEF SizesInv, Listed, TrueSizes, true_ksizes, true_vsizes, TooSmall
    <2>9. AnswerInv'
      <3>1. ret' # "SIZE" /\ pc' = "values"
        BY <2>0 DEF IInv, RequestInv
      <3> QED  BY <3>1 DEF AnswerInv
    <2>10. ScanInv'
      BY <2>0, ScanKept DEF IInv
    <2> QED  BY <2>4, <2>5, <2>6, <2>7, <2>8, <2>9, <2>10 DEF IInv
  <1> QED  BY <1>1, <1>2

-----------------------------------------------------------------------------
(* What the caller receives.                                               *)

\* The sizes that a call returns are those of the page.
LEMMA SizesReturned ==
  ASSUME IInv, pc = "returned", ret = "SUCCESS", NEW n \in 1 .. Len(page)
  PROVE  /\ ksizes[n] = KeySize[page[n].key]
         /\ fn = "list_keyvals" => vsizes[n] = page[n].value
  <1>1. page # <<>> /\ n \in DOMAIN page /\ n \in 1 .. Len(kgiven)
    BY PageTypes
  <1>2. n \in DOMAIN kgiven /\ (fn = "list_keyvals" => n \in DOMAIN vgiven)
    <2>1. fn = "list_keyvals" => n \in 1 .. Len(vgiven)
      BY <1>1 DEF IInv, RequestInv
    <2> QED  BY <1>1, <2>1, PageTypes
  <1>3. ksizes = TrueSizes(kgiven, true_ksizes) /\ vsizes = TrueSizes(vgiven, true_vsizes)
    BY <1>1 DEF IInv, SizesInv, Listed
  <1> QED  BY <1>1, <1>2, <1>3 DEF TrueSizes, true_ksizes, true_vsizes

\* The keys that the caller reads from its buffers are those of the page.
LEMMA KeysReceived ==
  ASSUME IInv, pc = "returned", ret = "SUCCESS", ~overrun
  PROVE  /\ max_keys = Len(page) /\ Len(Received) = max_keys /\ DOMAIN Received = 1 .. max_keys
         /\ \A n \in 1 .. max_keys : Received[n] = page[n].key
  <1>1. max_keys = Len(page) /\ max_keys \in Nat
    BY PageTypes DEF IInv, AnswerInv, PageInv
  <1>2. ASSUME NEW n \in 1 .. max_keys PROVE ReadKey(n) = page[n].key
    <2> DEFINE S == {k \in Keys : /\ KeySize[k] = ksizes[n]
                                  /\ Holds(kmem, Offset(kgiven, n), KeyBytes(k))}
    <2>1. PICK a, o, mem : a \in Keys /\ a = page[n].key /\ o = Offset(kgiven, n) /\ mem = kmem
      BY <1>1, PageTypes
    <2>2. Holds(kmem, Offset(kgiven, n), KeyBytes(page[n].key))
      BY <1>1 DEF IInv, AnswerInv, KeysIn
    <2>3. a \in Keys /\ Holds(mem, o, KeyBytes(a))
      BY <2>1, <2>2
    <2>4. KeySize[a] = ksizes[n]
      BY <1>1, <2>1, SizesReturned
    <2>5. a \in S
      BY <2>1, <2>3, <2>4
    <2>6. \A k \in S : k = a
      <3> SUFFICES ASSUME NEW k \in S PROVE k = a
        OBVIOUS
      <3>1. k \in Keys /\ Holds(mem, o, KeyBytes(k))
        BY <2>1
      <3> QED  BY <2>3, <3>1, OneKeyHeld
    <2>7. ReadKey(n) = IF S = {} THEN None ELSE CHOOSE k \in S : TRUE
      BY DEF ReadKey
    <2> HIDE DEF S
    <2>8. (CHOOSE k \in S : TRUE) \in S
      BY <2>5
    <2> QED  BY <2>1, <2>5, <2>6, <2>7, <2>8
  <1>3. Received = [n \in 1 .. max_keys |-> Received[n]]
    BY DEF Received
  <1>4. Len(Received) = max_keys /\ DOMAIN Received = 1 .. max_keys
    <2>1. PICK m \in Nat : m = max_keys
      BY <1>1
    <2>2. PICK f : f = Received
      OBVIOUS
    <2>3. f = [n \in 1 .. m |-> f[n]]
      BY <1>3, <2>1, <2>2
    <2>4. Len(f) = m /\ DOMAIN f = 1 .. m
      BY <2>3, FunctionIsSequence
    <2> QED  BY <2>1, <2>2, <2>4
  <1>5. \A n \in 1 .. max_keys : Received[n] = page[n].key
    BY <1>2 DEF Received
  <1> QED  BY <1>1, <1>4, <1>5

\* The caller goes on after the last key of the page, and has all before it.
LEMMA TakePageInv == IInv /\ TakePage => IInv'
  <1> SUFFICES ASSUME IInv, TakePage PROVE IInv'
    OBVIOUS
  <1>1. /\ ret = "SUCCESS" /\ max_keys > 0 /\ ~overrun /\ pc = "returned" /\ pc' = "idle"
        /\ got' = got \o Received /\ start' = Last(Received)
        /\ UNCHANGED <<db, fn, max_keys, ksizes, vsizes, kmem, vmem, kgiven, vgiven, page, i,
                       remote_offset, size_error, nkeys, ret, writes, fails, always, ever, overrun>>
        /\ UNCHANGED <<fn, sizes, buffers, request, page>>
    BY DEF TakePage
  <1>2. /\ max_keys = Len(page) /\ Len(Received) = max_keys /\ DOMAIN Received = 1 .. max_keys
        /\ \A n \in 1 .. max_keys : Received[n] = page[n].key
    BY <1>1, KeysReceived
  <1>3. Listed
    BY <1>1 DEF Listed
  <1>a. PICK m \in Nat : m = max_keys
    BY <1>2, PageTypes
  <1>b. PICK g \in Seq(Keys) : g = got
    BY DEF IInv, TypeOK
  <1>c. PICK r : r = Received
    OBVIOUS
  <1>4. m = max_keys /\ r = Received /\ g = got /\ m \in Nat /\ g \in Seq(Keys)
    BY <1>a, <1>b, <1>c
  <1>5. /\ m > 0 /\ r \in Seq(Keys) /\ Len(r) = m /\ DOMAIN r = 1 .. m
        /\ \A n \in 1 .. m : r[n] \in Wanted /\ r[n] \in ever /\ r[n] > start
        /\ \A x, y \in 1 .. m : x < y => r[x] < r[y]
        /\ \A k \in Wanted \cap always : k <= start \/ (\E n \in 1 .. m : r[n] = k) \/ r[m] < k
    <2>1. m > 0 /\ Len(r) = m /\ DOMAIN r = 1 .. m /\ \A n \in 1 .. m : r[n] = page[n].key
      BY <1>1, <1>2, <1>4
    <2>2. \A n \in 1 .. m : n \in DOMAIN page /\ page[n].key \in Wanted /\ page[n].key \in Keys
      BY <1>2, <1>4, PageTypes
    <2>3. \A n \in 1 .. m : r[n] \in Wanted /\ r[n] \in ever /\ r[n] > start /\ r[n] \in Keys
      BY <1>3, <2>1, <2>2 DEF IInv, PageInv
    <2>4. \A x, y \in 1 .. m : x < y => r[x] < r[y]
      BY <2>1, <2>2 DEF IInv, PageInv
    <2>5. ASSUME NEW k \in Wanted \cap always
          PROVE  k <= start \/ (\E n \in 1 .. m : r[n] = k) \/ r[m] < k
      <3>1. Accounted(k)
        BY <1>3 DEF IInv, PageInv
      <3>2. DOMAIN page = 1 .. m /\ m \in 1 .. m
        BY <1>2, <1>4, <2>1, PageTypes
      <3> QED  BY <2>1, <3>1, <3>2 DEF Accounted
    <2>6. r \in Seq(Keys)
      <3>1. r = [n \in 1 .. m |-> r[n]]
        BY <1>2, <1>4 DEF Received
      <3>2. r \in [1 .. m -> Keys]
        BY <2>3, <3>1
      <3> QED  BY <3>2
    <2> QED  BY <2>1, <2>3, <2>4, <2>5, <2>6
  <1>6. /\ got' = g \o r /\ got' \in Seq(Keys) /\ Len(got') = Len(g) + m /\ start' = r[m]
        /\ Len(g) \in Nat /\ DOMAIN got' = 1 .. Len(g) + m
        /\ \A n \in 1 .. Len(g) : got'[n] = g[n]
        /\ \A n \in 1 .. m : got'[Len(g) + n] = r[n]
    <2>1. got' = g \o r /\ start' = r[m]
      BY <1>1, <1>4, <1>5 DEF Last
    <2>2. g \in Seq(Keys) /\ r \in Seq(Keys) /\ Len(r) = m
      BY <1>4, <1>5
    <2>3. /\ g \o r \in Seq(Keys) /\ Len(g \o r) = Len(g) + m /\ Len(g) \in Nat
          /\ \A n \in 1 .. Len(g) : (g \o r)[n] = g[n]
          /\ \A n \in 1 .. m : (g \o r)[Len(g) + n] = r[n]
      <3>1. Len(g) \in Nat /\ Len(g \o r) = Len(g) + Len(r) /\ g \o r \in Seq(Keys)
        BY <2>2
      <3>2. \A n \in 1 .. Len(g) : (g \o r)[n] = g[n]
        BY <2>2
      <3>3. ASSUME NEW n \in 1 .. m PROVE (g \o r)[Len(g) + n] = r[n]
        <4>1. Len(g) + n \in 1 .. Len(g) + Len(r) /\ ~(Len(g) + n <= Len(g))
              /\ (Len(g) + n) - Len(g) = n
          BY <2>2, <3>1
        <4> QED  BY <2>2, <4>1
      <3> QED  BY <2>2, <3>1, <3>2, <3>3
    <2>4. DOMAIN (g \o r) = 1 .. Len(g \o r)
      BY <2>3
    <2> QED  BY <2>1, <2>3, <2>4
  <1>7. \A n \in 1 .. Len(g) + m : n \in 1 .. Len(g) \/ \E x \in 1 .. m : n = Len(g) + x
    <2> SUFFICES ASSUME NEW n \in 1 .. Len(g) + m, n \notin 1 .. Len(g)
                 PROVE  \E x \in 1 .. m : n = Len(g) + x
      OBVIOUS
    <2>1. n - Len(g) \in 1 .. m /\ n = Len(g) + (n - Len(g))
      BY <1>4, <1>6
    <2> QED  BY <2>1
  <1>8. /\ start \in Nat /\ \A n \in 1 .. Len(g) : g[n] \in Nat /\ g[n] <= start
        /\ \A n \in 1 .. m : r[n] \in Nat
    <2>1. start \in Nat
      <3>1. Keys \subseteq Nat /\ 0 \in Nat /\ start \in Keys \cup {0}
        BY DEF IInv, TypeOK
      <3> QED  BY <3>1, Zenon
    <2>2. DOMAIN g = 1 .. Len(g) /\ \A n \in 1 .. Len(g) : g[n] \in Keys
      BY <1>4
    <2>3. \A n \in 1 .. Len(g) : g[n] <= start
      BY <1>4, <2>2 DEF IInv, ScanInv
    <2> QED  BY <1>5, <2>1, <2>2, <2>3
  <1>9. m \in 1 .. m /\ \A n \in 1 .. m : r[n] <= r[m]
    <2>1. m \in 1 .. m
      BY <1>4, <1>5
    <2>2. ASSUME NEW n \in 1 .. m PROVE r[n] <= r[m]
      <3>1. n = m \/ n < m
        BY <1>4
      <3> QED  BY <1>5, <1>8, <2>1, <3>1
    <2> QED  BY <2>1, <2>2
  <1>10. TypeOK'
    <2>1. ScanTypes /\ CallTypes /\ HandlerTypes
      BY TypeParts DEF IInv
    <2>2. start' \in Keys
      BY <1>5, <1>6, <1>9
    <2>3. ScanTypes'
      BY <1>1, <1>6, <2>1, <2>2 DEF ScanTypes
    <2>4. CallTypes' /\ HandlerTypes'
      BY <1>1, <2>1 DEF CallTypes, HandlerTypes
    <2> QED  BY <2>3, <2>4, TypePartsNext
  <1>11. RequestInv'
    <2>1. RequestInv
      BY DEF IInv
    <2> QED  BY <1>1, <2>1, BuffersKept DEF RequestInv
  <1>12. ~Listed'
    BY <1>1 DEF Listed
  <1>13. PageInv' /\ HandlerInv' /\ SizesInv'
    <2>1. PageInv
      BY DEF IInv
    <2> QED  BY <1>1, <1>12, <2>1, BuffersKept DEF PageInv, HandlerInv, SizesInv
  <1>14. AnswerInv'
    BY <1>1, BuffersKept DEF IInv, AnswerInv
  <1>15. ScanInv'
    <2>1. ScanInv
      BY DEF IInv
    <2>2. Present' = Present
      BY <1>1 DEF Present
    <2>3. \A n \in DOMAIN got' : got'[n] <= start' /\ got'[n] \in Wanted /\ got'[n] \in ever
      <3>1. \A n \in 1 .. Len(g) : got'[n] <= start' /\ got'[n] \in Wanted /\ got'[n] \in ever
        <4>1. \A n \in 1 .. Len(g) : g[n] \in Wanted /\ g[n] \in ever
          BY <1>4, <2>1 DEF ScanInv, Range
        <4>2. \A n \in 1 .. Len(g) : g[n] <= r[m]
          BY <1>5, <1>8, <1>9
        <4> QED  BY <1>6, <4>1, <4>2
      <3>2. \A n \in 1 .. m :
                /\ got'[Len(g) + n] <= start'
                /\ got'[Len(g) + n] \in Wanted /\ got'[Len(g) + n] \in ever
        BY <1>5, <1>6, <1>9
      <3> QED  BY <1>6, <1>7, <3>1, <3>2
    <2>4. Ascending(got)'
      <3> SUFFICES ASSUME NEW x \in 1 .. Len(g) + m, NEW y \in 1 .. Len(g) + m, x < y
                   PROVE  got'[x] < got'[y]
        BY <1>6 DEF Ascending
      <3>1. CASE y \in 1 .. Len(g)
        <4>1. x \in 1 .. Len(g)
          BY <1>4, <1>6, <3>1
        <4> QED  BY <1>4, <1>6, <2>1, <3>1, <4>1 DEF ScanInv, Ascending
      <3>2. CASE x \in 1 .. Len(g) /\ y \notin 1 .. Len(g)
        <4>1. PICK z \in 1 .. m : y = Len(g) + z
          BY <1>7, <3>2
        <4>2. got'[x] = g[x] /\ got'[y] = r[z] /\ g[x] <= start /\ r[z] > start
          BY <1>5, <1>6, <1>8, <3>2, <4>1
        <4>3. g[x] \in Nat /\ r[z] \in Nat /\ start \in Nat
          BY <1>8, <3>2
        <4> QED  BY <4>2, <4>3
      <3>3. CASE x \notin 1 .. Len(g) /\ y \notin 1 .. Len(g)
        <4>1. PICK z \in 1 .. m : y = Len(g) + z
          BY <1>7, <3>3
        <4>2. PICK w \in 1 .. m : x = Len(g) + w
          BY <1>7, <3>3
        <4>3. w < z
          BY <1>6, <4>1, <4>2
        <4> QED  BY <1>5, <1>6, <4>1, <4>2, <4>3
      <3> QED  BY <3>1, <3>2, <3>3
    <2>5. ASSUME NEW k \in Wanted \cap always', k <= start' PROVE k \in Range(got')
      <3>1. CASE k <= start
        <4>1. k \in Range(got)
          BY <1>1, <2>1, <3>1 DEF ScanInv
        <4>2. PICK n \in 1 .. Len(g) : g[n] = k
          BY <1>4, <4>1 DEF Range
        <4>3. n \in DOMAIN got' /\ got'[n] = k
          BY <1>4, <1>6, <4>2
        <4> QED  BY <4>3 DEF Range
      <3>2. CASE ~(k <= start)
        <4>0. k \in Nat /\ r[m] \in Nat
          BY <1>8, <1>9
        <4>1. PICK n \in 1 .. m : r[n] = k
          BY <1>1, <1>5, <1>6, <2>5, <3>2, <4>0
        <4>2. Len(g) + n \in DOMAIN got' /\ got'[Len(g) + n] = k
          BY <1>4, <1>6, <4>1
        <4> QED  BY <4>2 DEF Range
      <3> QED  BY <3>1, <3>2
    <2> QED  BY <1>1, <2>1, <2>2, <2>3, <2>4, <2>5 DEF ScanInv, Range
  <1> QED  BY <1>10, <1>11, <1>13, <1>14, <1>15 DEF IInv

-----------------------------------------------------------------------------
(* The theorems.                                                           *)

LEMMA NextInv == IInv /\ [Next]_vars => IInv'
  <1> SUFFICES ASSUME IInv, [Next]_vars PROVE IInv'
    OBVIOUS
  <1>1. CASE Scan
    BY <1>1, NewPageInv, RetryInv, ReturnInv, ListInv, PushSizesInv, PushKeyInv, KeysPushedInv,
       PushValueInv, ValuesPushedInv, TakePageInv, CallFailedInv, FinishInv DEF Scan
  <1>2. CASE TransportFails \/ HandlerFails
    BY <1>2, TransportFailsInv, HandlerFailsInv
  <1>3. CASE Put \/ Erase
    BY <1>3, WritesInv
  <1>4. CASE UNCHANGED vars
    <2>1. /\ UNCHANGED <<db, pc, fn, start, max_keys, ksizes, vsizes, kmem, vmem, kgiven,
                         vgiven, page, i, remote_offset, size_error, nkeys, ret, got, writes,
                         fails,
                         always, ever, overrun>>
          /\ UNCHANGED <<fn, sizes, buffers, request, page>>
      BY <1>4 DEF vars
    <2>2. TypeOK'
      <3>1. ScanTypes /\ CallTypes /\ HandlerTypes
        BY TypeParts DEF IInv
      <3>2. ScanTypes' /\ CallTypes' /\ HandlerTypes'
        BY <2>1, <3>1 DEF ScanTypes, CallTypes, HandlerTypes
      <3> QED  BY <3>2, TypePartsNext
    <2>3. Listed' <=> Listed
      BY <2>1 DEF Listed
    <2>4. RequestInv'
      BY <2>1, BuffersKept DEF IInv, RequestInv
    <2>5. PageInv'
      <3>1. \A k : Accounted(k) => Accounted(k)'
        BY <2>1 DEF Accounted
      <3> QED  BY <2>1, <2>3, <3>1, BuffersKept DEF IInv, PageInv
    <2>6. HandlerInv'
      BY <2>1, BuffersKept DEF IInv, HandlerInv
    <2>7. SizesInv'
      BY <2>1, <2>3, BuffersKept DEF IInv, SizesInv
    <2>8. AnswerInv'
      BY <2>1, BuffersKept DEF IInv, AnswerInv
    <2>9. ScanInv'
      BY <2>1 DEF IInv, ScanInv, Ascending, Range, Present
    <2> QED  BY <2>2, <2>4, <2>5, <2>6, <2>7, <2>8, <2>9 DEF IInv
  <1> QED  BY <1>1, <1>2, <1>3, <1>4 DEF Next, Finished

\* The inductive invariant holds throughout.
THEOREM Invariance == Spec => []IInv
  BY InitInv, NextInv, PTL DEF Spec

\* The caller, the handlers of sdskv_list_keys and sdskv_list_keyvals and the memory that
\* the bulk handles show keep their types: no offset leaves the buffers of the caller.
THEOREM TypeCorrect == Spec => []TypeOK
  <1>1. IInv => TypeOK
    BY DEF IInv
  <1> QED  BY <1>1, Invariance, PTL

LEMMA PageRight == IInv => PageIsRight
  <1> SUFFICES ASSUME IInv, pc = "returned", ~overrun
               PROVE  /\ ret = "SUCCESS" =>
                             /\ \A n \in 1 .. max_keys :
                                    /\ Received[n] \in {k \in Wanted \cap ever : k > start}
                                    /\ fn = "list_keyvals" =>
                                           Holds(vmem, Offset(vgiven, n),
                                                 ValueBytes(Received[n], vsizes[n]))
                             /\ Ascending(Received)
                             /\ \A k \in Wanted \cap always :
                                    \/ k <= start \/ k \in Range(Received)
                                    \/ max_keys = Len(kgiven) /\ k > Last(Received)
                      /\ ret = "SIZE" => /\ kmem = Exposed(kgiven)
                                         /\ \E n \in 1 .. max_keys : ksizes[n] > kgiven[n]
    BY DEF PageIsRight
  <1>1. ASSUME ret = "SUCCESS", NEW n \in 1 .. max_keys
        PROVE  /\ Received[n] \in {k \in Wanted \cap ever : k > start}
               /\ fn = "list_keyvals" =>
                      Holds(vmem, Offset(vgiven, n), ValueBytes(Received[n], vsizes[n]))
    <2>1. max_keys = Len(page) /\ Received[n] = page[n].key /\ n \in DOMAIN page
      BY <1>1, KeysReceived, PageTypes
    <2>2. page[n].key \in Wanted /\ page[n].key \in ever /\ page[n].key > start
      BY <1>1, <2>1, PageTypes DEF IInv, PageInv, Listed
    <2>3. ASSUME fn = "list_keyvals"
          PROVE  Holds(vmem, Offset(vgiven, n), ValueBytes(Received[n], vsizes[n]))
      <3>1. Holds(vmem, Offset(vgiven, n), ValueBytes(page[n].key, page[n].value))
        BY <1>1, <2>1, <2>3 DEF IInv, AnswerInv, ValuesIn
      <3>2. vsizes[n] = page[n].value
        BY <1>1, <2>1, <2>3, SizesReturned
      <3> QED  BY <2>1, <3>1, <3>2
    <2> QED  BY <2>1, <2>2, <2>3
  <1>2. ASSUME ret = "SUCCESS" PROVE Ascending(Received)
    <2>1. /\ max_keys = Len(page) /\ DOMAIN Received = 1 .. max_keys
          /\ \A n \in 1 .. max_keys : Received[n] = page[n].key
      BY <1>2, KeysReceived
    <2>2. \A a, b \in 1 .. max_keys : a < b => page[a].key < page[b].key
      BY <2>1, PageTypes DEF IInv, PageInv
    <2> QED  BY <2>1, <2>2 DEF Ascending
  <1>3. ASSUME ret = "SUCCESS", NEW k \in Wanted \cap always
        PROVE  \/ k <= start \/ k \in Range(Received)
               \/ max_keys = Len(kgiven) /\ k > Last(Received)
    <2>1. /\ max_keys = Len(page) /\ DOMAIN Received = 1 .. max_keys /\ Len(Received) = max_keys
          /\ \A n \in 1 .. max_keys : Received[n] = page[n].key
      BY <1>3, KeysReceived
    <2>2. Accounted(k) /\ DOMAIN page = 1 .. max_keys
      BY <1>3, <2>1, PageTypes DEF IInv, PageInv, Listed
    <2>3. CASE \E n \in DOMAIN page : page[n].key = k
      BY <2>1, <2>2, <2>3 DEF Range
    <2>4. CASE Len(page) = Len(kgiven) /\ \A n \in DOMAIN page : page[n].key < k
      <3>1. max_keys \in 1 .. max_keys
        BY <2>1, <2>4, PageTypes DEF IInv, RequestInv
      <3>2. page[max_keys].key < k /\ Last(Received) = page[max_keys].key
        BY <2>1, <2>2, <2>4, <3>1 DEF Last
      <3> QED  BY <2>1, <2>4, <3>2
    <2> QED  BY <2>2, <2>3, <2>4 DEF Accounted
  <1>4. ASSUME ret = "SIZE"
        PROVE  kmem = Exposed(kgiven) /\ \E n \in 1 .. max_keys : ksizes[n] > kgiven[n]
    BY <1>4 DEF IInv, AnswerInv
  <1> QED  BY <1>1, <1>2, <1>3, <1>4

\* Every page is right: a call that succeeds has brought every key and value to its own
\* buffer, in order and with none missing, and one that fails with SDSKV_ERR_SIZE has
\* touched no buffer and says which is too small; for keys, values and buffers of any
\* size, any page size, and writes of other clients and failures at any time.
THEOREM PagesAreRight == Spec => []PageIsRight
  BY PageRight, Invariance, PTL

\* A scan that ends has every key that was there throughout, each once and in order, and
\* none that was never there.
THEOREM ScansAreComplete == Spec => []ScanIsComplete
  <1>1. IInv => ScanIsComplete
    <2> SUFFICES ASSUME IInv, pc = "finished", ~overrun
                 PROVE  /\ Ascending(got) /\ Wanted \cap always \subseteq Range(got)
                        /\ Range(got) \subseteq Wanted \cap ever
      BY DEF ScanIsComplete
    <2> QED  BY DEF IInv, ScanInv
  <1> QED  BY <1>1, Invariance, PTL
=============================================================================
