------------------------------- MODULE Stepwise -------------------------------
(***************************************************************************)
(* Folds of sequences, given by functions so that proofs can be made about *)
(* them in general.                                                        *)
(***************************************************************************)
EXTENDS Naturals, Sequences

(* What the elements of a sequence, in their order, make of base: step[x]  *)
(* is what the element x makes of anything.                                *)
Through(step, base, seq) ==
  LET after[i \in 0..Len(seq)] == IF i = 0 THEN base ELSE step[seq[i]][after[i - 1]]
  IN after[Len(seq)]

(* The parts, sequences over S, as one. *)
Flattened(S, parts) ==
  Through([part \in Seq(S) |-> [before \in Seq(S) |-> before \o part]], <<>>, parts)

(* The elements of a sequence over S that are not to be omitted. *)
Dropping(S, seq, omitted) ==
  Through([x \in S |-> [kept \in Seq(S) |-> IF x \in omitted THEN kept ELSE Append(kept, x)]],
          <<>>, seq)

(* The numbers up to n, one after the other. *)
UpTo(n) == [i \in 1..n |-> i]

=============================================================================
