----------------------------- MODULE MCCritnib -----------------------------
EXTENDS Critnib, TLC

(* The value says whose it is. *)
Stored == [k \in Keys |-> {100 + k}]

Asked == {<<"get", 6>>, <<"le", 5>>, <<"ge", 2>>}
AskedKey == {<<"get", 2>>}

Addresses == Permutations(Nodes) \cup Permutations(Leaves)
=============================================================================
