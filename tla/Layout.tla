------------------------------- MODULE Layout -------------------------------
(***************************************************************************)
(* Buffers that lie back to back in memory, as a bulk handle shows those   *)
(* of a caller and as handlers pack values: the n-th begins where the      *)
(* sizes of those before it add up to.  Both sides find a buffer by adding *)
(* up sizes in a loop.                                                     *)
(***************************************************************************)
EXTENDS Integers, Sequences

\* Where the first j of the buffers whose sizes are s end.
Ends(s) ==
    LET end[j \in 0 .. Len(s)] == IF j = 0 THEN 0 ELSE end[j - 1] + s[j]
    IN  end

\* Where the n-th buffer begins.
Offset(s, n) == Ends(s)[n - 1]

\* The size of all.
Total(s) == Ends(s)[Len(s)]
=============================================================================
