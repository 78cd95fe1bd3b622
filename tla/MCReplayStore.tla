---------------------------- MODULE MCReplayStore ----------------------------
(* Model values and symmetry for checking ReplayStore.                     *)
EXTENDS ReplayStore, TLC

CONSTANTS c1, s1, s2, e1, e2

OneScope == [s \in Starts |-> c1]

(* A conversation: s2 continues after e1. *)
ChainStartOf == [e \in Ends |-> IF e = e1 THEN s1 ELSE s2]

ChainHistory == [s \in Starts |-> IF s = s1 THEN {} ELSE {e1}]

WholeScopes == {Scopes}

Symmetry == Permutations(Ids) \cup Permutations(Payloads)

=============================================================================
