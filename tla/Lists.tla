-------------------------------- MODULE Lists --------------------------------
(***************************************************************************)
(* What the loops over a slice or over the rows of a table compute: a list *)
(* of the entries they keep, in their order, and the sum of their sizes.   *)
(***************************************************************************)
EXTENDS Naturals, FiniteSets

(* The numbers in a finite set, in increasing order.                       *)
Places(I) == CHOOSE e \in [1..Cardinality(I) -> I] : \A j, k \in DOMAIN e : j < k => e[j] < e[k]

(* The entries of a list at the places in I.                               *)
KeptAt(seq, I) == [k \in 1..Cardinality(I) |-> seq[Places(I)[k]]]

(* The sum of amount[x] over the things x in I: each is counted unit by    *)
(* unit.                                                                   *)
Total(amount, I) == Cardinality(UNION {{x} \X (1..amount[x]) : x \in I})
=============================================================================
