---------------------------- MODULE LayoutProofs ----------------------------
(***************************************************************************)
(* What adding up sizes in a loop computes, for sequences of any length.   *)
(* Each fact is proved by looking at the least index it fails at.          *)
(***************************************************************************)
EXTENDS Layout, WellFoundedInduction, TLAPS

\* A set of natural numbers that is not empty has a least element.
LEMMA LeastNat ==
  ASSUME NEW T \in SUBSET Nat, T # {}
  PROVE  \E n \in T : \A m \in T : n <= m
  <1> DEFINE R == OpToRel(<, Nat)
  <1>1. IsWellFoundedOn(R, Nat)
    BY NatLessThanWellFounded, Zenon
  <1> HIDE DEF R
  <1>2. PICK n \in T : \A m \in T : ~(<<m, n>> \in R)
    BY <1>1, WFMin
  <1>3. \A m \in T : ~(m < n)
    BY <1>2, Zenon DEF R, OpToRel
  <1> QED  BY <1>3

\* A set of natural numbers that holds 0 and, with each of its elements that is less
\* than b, the next number holds all up to b.
LEMMA UpTo ==
  ASSUME NEW b \in Nat, NEW S, 0 \in S, \A n \in 0 .. b - 1 : n \in S => n + 1 \in S
  PROVE  \A n \in 0 .. b : n \in S
  <1> DEFINE T == (0 .. b) \ S
  <1> SUFFICES ASSUME T # {} PROVE FALSE
    OBVIOUS
  <1>0. T \in SUBSET Nat
    OBVIOUS
  <1> HIDE DEF T
  <1>1. PICK n \in T : \A m \in T : n <= m
    BY <1>0, LeastNat
  <1>2. n \in 1 .. b /\ n - 1 \in 0 .. b - 1 /\ n \notin S
    BY DEF T
  <1>3. n - 1 \in S
    BY <1>1, <1>2 DEF T
  <1> QED  BY <1>2, <1>3

\* g is a table of the ends of the first n buffers.
IsTable(g, s, n) ==
    /\ g \in [0 .. n -> Nat] /\ g[0] = 0
    /\ \A j \in 1 .. n : g[j] = g[j - 1] + s[j]

\* There is a table of the ends of the first n buffers, for every n.
LEMMA TableExists ==
  ASSUME NEW s \in Seq(Nat)
  PROVE  \E g : IsTable(g, s, Len(s))
  <1> DEFINE S == {n \in Nat : \E g : IsTable(g, s, n)}
  <1>1. 0 \in S
    <2>1. IsTable([j \in 0 .. 0 |-> 0], s, 0)
      BY DEF IsTable
    <2> QED  BY <2>1
  <1>2. ASSUME NEW n \in 0 .. Len(s) - 1, n \in S PROVE n + 1 \in S
    <2>1. PICK g : IsTable(g, s, n)
      BY <1>2
    <2> DEFINE h == [j \in 0 .. n + 1 |-> IF j = n + 1 THEN g[n] + s[n + 1] ELSE g[j]]
    <2>2. g[n] \in Nat /\ s[n + 1] \in Nat /\ n + 1 \in Nat
      BY <2>1 DEF IsTable
    <2>3. h \in [0 .. n + 1 -> Nat] /\ h[0] = 0
      BY <2>1, <2>2 DEF IsTable
    <2>4. ASSUME NEW j \in 1 .. n + 1 PROVE h[j] = h[j - 1] + s[j]
      <3>1. CASE j = n + 1
        BY <2>2, <3>1
      <3>2. CASE j \in 1 .. n
        BY <2>1, <2>2, <3>2 DEF IsTable
      <3> QED  BY <3>1, <3>2
    <2>5. IsTable(h, s, n + 1)
      BY <2>3, <2>4 DEF IsTable
    <2> HIDE DEF h
    <2> QED  BY <2>2, <2>5
  <1> HIDE DEF S
  <1>3. Len(s) \in Nat
    OBVIOUS
  <1>4. \A n \in 0 .. Len(s) : n \in S
    BY <1>1, <1>2, <1>3, UpTo
  <1>5. Len(s) \in S
    BY <1>3, <1>4
  <1> QED  BY <1>5 DEF S

\* The loop that adds up sizes computes the ends.
LEMMA EndsTable ==
  ASSUME NEW s \in Seq(Nat)
  PROVE  IsTable(Ends(s), s, Len(s))
  <1> DEFINE Sum(g) == [j \in 0 .. Len(s) |-> IF j = 0 THEN 0 ELSE g[j - 1] + s[j]]
             E == Ends(s)
  <1>1. PICK g : IsTable(g, s, Len(s))
    BY TableExists
  <1>2. g = Sum(g)
    BY <1>1 DEF IsTable
  <1>3. E = Sum(E)
    BY <1>2, Zenon DEF Ends
  <1> HIDE DEF E
  <1>4. E[0] = 0 /\ \A j \in 1 .. Len(s) : E[j] = E[j - 1] + s[j]
    BY <1>3
  <1> DEFINE S == {n \in Nat : E[n] \in Nat}
  <1>5. 0 \in S
    BY <1>4
  <1>6. \A n \in 0 .. Len(s) - 1 : n \in S => n + 1 \in S
    BY <1>4
  <1> HIDE DEF S
  <1>7. \A n \in 0 .. Len(s) : n \in S
    <2>1. Len(s) \in Nat
      OBVIOUS
    <2> QED  BY <1>5, <1>6, <2>1, UpTo
  <1>8. E \in [0 .. Len(s) -> Nat]
    <2>1. E = [j \in 0 .. Len(s) |-> E[j]]
      BY <1>3
    <2>2. \A n \in 0 .. Len(s) : E[n] \in Nat
      BY <1>7 DEF S
    <2> QED  BY <2>1, <2>2
  <1> QED  BY <1>4, <1>8 DEF IsTable, E

-----------------------------------------------------------------------------
\* The first buffer begins at 0, the next one where it ends, and the last one ends at
\* the end of all.
LEMMA OffsetSteps ==
  ASSUME NEW s \in Seq(Nat)
  PROVE  /\ Offset(s, 1) = 0 /\ Total(s) = Offset(s, Len(s) + 1)
         /\ \A n \in 1 .. Len(s) + 1 : Offset(s, n) \in Nat
         /\ \A n \in 1 .. Len(s) : Offset(s, n + 1) = Offset(s, n) + s[n]
  <1>1. IsTable(Ends(s), s, Len(s)) /\ Len(s) \in Nat
    BY EndsTable
  <1>2. \A n \in 1 .. Len(s) + 1 : n - 1 \in 0 .. Len(s)
    BY <1>1
  <1>3. \A n \in 1 .. Len(s) : (n + 1) - 1 = n /\ s[n] \in Nat
    OBVIOUS
  <1>4. (Len(s) + 1) - 1 = Len(s) /\ 1 - 1 = 0
    BY <1>1
  <1> QED  BY <1>1, <1>2, <1>3, <1>4 DEF IsTable, Offset, Total

\* Buffers do not overlap: each one ends before any later one begins, and lies within
\* the whole.
LEMMA BuffersApart ==
  ASSUME NEW s \in Seq(Nat), NEW m \in 1 .. Len(s), NEW n \in m + 1 .. Len(s) + 1
  PROVE  Offset(s, m) + s[m] <= Offset(s, n) /\ Offset(s, n) <= Total(s)
  <1> DEFINE O(k) == Offset(s, k)
             S == {d \in Nat : \A k \in 1 .. Len(s) + 1 :
                       k + d \in 1 .. Len(s) + 1 => O(k) <= O(k + d)}
  <1>0. Len(s) \in Nat
    OBVIOUS
  <1>1. /\ \A k \in 1 .. Len(s) + 1 : O(k) \in Nat
        /\ \A k \in 1 .. Len(s) : O(k + 1) = O(k) + s[k] /\ s[k] \in Nat
        /\ Total(s) = O(Len(s) + 1)
    BY OffsetSteps
  <1> HIDE DEF O
  <1>2. 0 \in S
    BY <1>0, <1>1
  <1>3. ASSUME NEW d \in 0 .. Len(s) - 1, d \in S PROVE d + 1 \in S
    <2> SUFFICES ASSUME NEW k \in 1 .. Len(s) + 1, k + (d + 1) \in 1 .. Len(s) + 1
                 PROVE  O(k) <= O(k + (d + 1))
      BY <1>3
    <2>1. k + d \in 1 .. Len(s) /\ k + (d + 1) = (k + d) + 1
      BY <1>0, <1>3
    <2>2. O(k) <= O(k + d)
      BY <1>0, <1>3, <2>1
    <2>3. O((k + d) + 1) = O(k + d) + s[k + d] /\ s[k + d] \in Nat
      BY <1>1, <2>1
    <2>4. O(k) \in Nat /\ O(k + d) \in Nat
      BY <1>0, <1>1, <2>1
    <2> QED  BY <2>1, <2>2, <2>3, <2>4
  <1> HIDE DEF S
  <1>4. \A d \in 0 .. Len(s) : d \in S
    BY <1>0, <1>2, <1>3, UpTo
  <1>5. \A j, k \in 1 .. Len(s) + 1 : j <= k => O(j) <= O(k)
    <2> SUFFICES ASSUME NEW j \in 1 .. Len(s) + 1, NEW k \in 1 .. Len(s) + 1, j <= k
                 PROVE  O(j) <= O(k)
      OBVIOUS
    <2>1. k - j \in 0 .. Len(s) /\ j + (k - j) = k
      BY <1>0
    <2>2. k - j \in S
      BY <1>4, <2>1
    <2> QED  BY <2>1, <2>2 DEF S
  <1>6. m + 1 \in 1 .. Len(s) + 1 /\ n \in 1 .. Len(s) + 1 /\ m + 1 <= n
        /\ Len(s) + 1 \in 1 .. Len(s) + 1 /\ n <= Len(s) + 1
    BY <1>0
  <1>7. O(m + 1) <= O(n) /\ O(n) <= O(Len(s) + 1) /\ O(m + 1) = O(m) + s[m]
    BY <1>1, <1>5, <1>6
  <1> QED  BY <1>1, <1>7 DEF O

\* Where a buffer begins depends on those before it only.
LEMMA OffsetsAgree ==
  ASSUME NEW s \in Seq(Nat), NEW r \in Seq(Nat), NEW n \in 1 .. Len(s) + 1, n <= Len(r) + 1,
         \A j \in 1 .. n - 1 : s[j] = r[j]
  PROVE  Offset(s, n) = Offset(r, n)
  <1> DEFINE S == {j \in Nat : Offset(s, j + 1) = Offset(r, j + 1)}
  <1>0. Len(s) \in Nat /\ Len(r) \in Nat /\ n - 1 \in Nat
    OBVIOUS
  <1>1. 0 \in S
    BY OffsetSteps
  <1>2. ASSUME NEW j \in 0 .. (n - 1) - 1, j \in S PROVE j + 1 \in S
    <2>1. j + 1 \in 1 .. Len(s) /\ j + 1 \in 1 .. Len(r) /\ j + 1 \in 1 .. n - 1
      BY <1>0
    <2>2. /\ Offset(s, (j + 1) + 1) = Offset(s, j + 1) + s[j + 1]
          /\ Offset(r, (j + 1) + 1) = Offset(r, j + 1) + r[j + 1]
      BY <2>1, OffsetSteps
    <2>3. s[j + 1] = r[j + 1]
      BY <2>1
    <2> QED  BY <1>2, <2>2, <2>3
  <1> HIDE DEF S
  <1>3. \A j \in 0 .. n - 1 : j \in S
    BY <1>0, <1>1, <1>2, UpTo
  <1>4. n - 1 \in S /\ (n - 1) + 1 = n
    BY <1>0, <1>3
  <1> QED  BY <1>4 DEF S

\* A buffer more begins where the others end, and leaves them where they are.
LEMMA OffsetsAppend ==
  ASSUME NEW s \in Seq(Nat), NEW x \in Nat
  PROVE  /\ \A n \in 1 .. Len(s) + 1 : Offset(Append(s, x), n) = Offset(s, n)
         /\ Total(Append(s, x)) = Total(s) + x
  <1> DEFINE r == Append(s, x)
  <1>1. /\ r \in Seq(Nat) /\ Len(r) = Len(s) + 1 /\ Len(s) \in Nat
        /\ r[Len(s) + 1] = x /\ \A j \in 1 .. Len(s) : r[j] = s[j]
    OBVIOUS
  <1> HIDE DEF r
  <1>2. ASSUME NEW n \in 1 .. Len(s) + 1 PROVE Offset(r, n) = Offset(s, n)
    <2>1. n \in 1 .. Len(r) + 1 /\ \A j \in 1 .. n - 1 : r[j] = s[j]
      BY <1>1
    <2> QED  BY <1>1, <2>1, OffsetsAgree
  <1>3. Len(s) + 1 \in 1 .. Len(r)
    BY <1>1
  <1>4. /\ Total(r) = Offset(r, Len(r) + 1) /\ Total(s) = Offset(s, Len(s) + 1)
        /\ Offset(r, (Len(s) + 1) + 1) = Offset(r, Len(s) + 1) + r[Len(s) + 1]
    BY <1>1, <1>3, OffsetSteps
  <1>5. Offset(r, Len(s) + 1) = Offset(s, Len(s) + 1)
    BY <1>1, <1>2, <1>3
  <1>6. Total(r) = Total(s) + x
    BY <1>1, <1>4, <1>5
  <1> QED  BY <1>2, <1>6 DEF r

=============================================================================
