----------------------------- MODULE MCListing ------------------------------
(* The instance of Listing that TLC checks.                                *)
EXTENDS Listing

\* The second key is the longest.
Lengths == [k \in Keys |-> IF k = 2 THEN 2 ELSE 1]
=============================================================================
