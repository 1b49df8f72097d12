------------------------- MODULE MCLinkedContainers -------------------------
(* Addresses are interchangeable: the allocator may return any free one.   *)
EXTENDS LinkedContainers

Symmetry == Permutations(Addr)
=============================================================================
