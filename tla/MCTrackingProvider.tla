------------------------- MODULE MCTrackingProvider -------------------------
(* TrackingProvider with interchangeable pools, threads and values.          *)
EXTENDS TrackingProvider, TLC

Symmetry == Permutations(Pools) \cup Permutations(Threads) \cup Permutations(Values)

\* Bound: once strays has an entry, after which only HandlesBalanced says
\* anything, the run goes no further than a state in which the map has a value
\* that has been freed.
NoFreedEntries == strays # {} => \A a \in Addresses : Tracked(a) => ValueAt(a) \notin spare
=============================================================================
