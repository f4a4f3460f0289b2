---------------------------------- MODULE Sums ----------------------------------
(***************************************************************************)
(* What the program's sum() makes of a list of numbers, and an ORDER BY or *)
(* a WHERE of rows.                                                        *)
(***************************************************************************)
EXTENDS Integers, Sequences, SequencesExt

Added(values) == FoldLeft(LAMBDA sum, v : sum + v, 0, values)

\* The rows in an order, a set of pairs: each stands behind as many as are before it.
Sorted(rows, before) ==
  [k \in 1 .. Cardinality(rows) |->
     CHOOSE e \in rows : Cardinality({f \in rows : <<f, e>> \in before}) = k - 1]

\* What the list has at these places.
AtPlaces(list, places) ==
  LET order == Sorted(places, {p \in places \X places : p[1] < p[2]})
  IN  [k \in 1 .. Cardinality(places) |-> list[order[k]]]
=================================================================================
