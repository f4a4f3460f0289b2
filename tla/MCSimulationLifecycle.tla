------------------------ MODULE MCSimulationLifecycle ------------------------
EXTENDS SimulationLifecycle, TLC

\* Runs, objects and request slots are interchangeable.
Symmetry == Permutations(Run) \cup Permutations(Engine) \cup Permutations(Request)

\* Two states that differ only in objects nothing refers to any more are the same,
\* unless one of those objects ended with its sink open.
View ==
  <<row, current, requests, last, faults, SinkReleased,
    [x \in Reachable \ {None} |-> <<runners[x], engines[x]>>]>>

=============================================================================
