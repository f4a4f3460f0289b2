------------------------------- MODULE TripSplit -------------------------------
(***************************************************************************)
(* split_by_trip: the trips are walked in a shuffled order, and each goes, *)
(* with all its rows, to the fold furthest below its share of the rows.    *)
(* Targets and fold sizes are in hundredths of a row.                      *)
(***************************************************************************)
EXTENDS Integers

CONSTANTS
  Ratio,     \* [Fold -> Nat]: the shares of the folds, in percent
  MaxRows,   \* bound: rows of the frame
  Longest    \* bound: rows of one trip

Fold == {"train", "validation", "test"}

ASSUME SplitAssumption ==
  /\ Ratio \in [Fold -> Nat]
  /\ Ratio["train"] + Ratio["validation"] + Ratio["test"] = 100
  /\ MaxRows \in Nat
  /\ Longest \in Nat

VARIABLES
  frameRows,      \* rows of the frame
  unassigned,      \* rows of the trips not yet assigned
  assigned,  \* [Fold -> Nat]
  trips      \* [Fold -> Nat]: trips in each bucket

splitVars == <<frameRows, unassigned, assigned, trips>>

SplitInit ==
  /\ frameRows \in 0 .. MaxRows
  /\ unassigned = frameRows
  /\ assigned = [f \in Fold |-> 0]
  /\ trips = [f \in Fold |-> 0]

Target(f) == Ratio[f] * frameRows

Deficit(f) == Target(f) - assigned[f]

Earlier(f, g) ==
  \/ f = "train"
  \/ f = "validation" /\ g = "test"
  \/ f = g

\* max() keeps the first of several equal deficits.
FurthestBelow(f) ==
  \A g \in Fold : Deficit(f) > Deficit(g) \/ (Deficit(f) = Deficit(g) /\ Earlier(f, g))

SmallestFold(f) ==   \* mutant: the share of the fold is forgotten
  \A g \in Fold : assigned[f] < assigned[g] \/ (assigned[f] = assigned[g] /\ Earlier(f, g))

AssignSmallest(f, n) ==   \* mutant of Assign
  /\ n <= unassigned
  /\ SmallestFold(f)
  /\ assigned' = [assigned EXCEPT ![f] = @ + 100 * n]
  /\ trips' = [trips EXCEPT ![f] = @ + 1]
  /\ unassigned' = unassigned - n
  /\ UNCHANGED frameRows

\* The next trip, of n rows.
Assign(f, n) ==
  /\ n <= unassigned
  /\ FurthestBelow(f)
  /\ assigned' = [assigned EXCEPT ![f] = @ + 100 * n]
  /\ trips' = [trips EXCEPT ![f] = @ + 1]
  /\ unassigned' = unassigned - n
  /\ UNCHANGED frameRows

SplitNext == \E f \in Fold, n \in 1 .. Longest : Assign(f, n)

\* The split is returned: no fold is empty.  An empty frame and one of fewer than
\* three trips leave a fold empty too.
Returned == unassigned = 0 /\ \A f \in Fold : trips[f] > 0

-----------------------------------------------------------------------------
\* The folds converge on the requested shares however unevenly long the trips are:
\* a fold is never more than one trip over its share, and a split that is returned
\* leaves none more than two short of it.  (split_by_trip: the walk by row deficits
\* and its claim that "the folds converge on the requested proportions".)
FoldsConverge ==
  \A f \in Fold :
    /\ assigned[f] <= Target(f) + 100 * Longest
    /\ Returned => assigned[f] >= Target(f) - 200 * Longest
=============================================================================
