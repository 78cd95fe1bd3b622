---------------------------- MODULE MCCacheSnapshot ----------------------------
(* The paths and processes for checking CacheSnapshot are given in the     *)
(* configuration.  Copies, relays and the places other than the first are  *)
(* interchangeable.                                                        *)
EXTENDS CacheSnapshot, TLC

Symmetry ==
  {f @@ g @@ h : f \in Permutations(Places \ {Original}),
                 g \in Permutations(Admins), h \in Permutations(Relays)}

=============================================================================
