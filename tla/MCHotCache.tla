------------------------------ MODULE MCHotCache ------------------------------
(* Payloads of two sizes, and symmetry, for checking HotCache.             *)
EXTENDS HotCache, TLC

CONSTANTS small, touched, large

(* A touched payload has the size of the one it was. *)
SizeOf(p) == IF p = large THEN 2 ELSE 1

Symmetry == Permutations(Ends)

=============================================================================
