-------------------------- MODULE MCCoarseProvider --------------------------
(* CoarseProvider for TLC.  Strategies that test the size of a block       *)
(* against the alignment are asked for multiples of it here.               *)
EXTENDS CoarseProvider

Asked == [s \in Strategies |->
            IF s = "FASTEST" THEN {<<1, 0>>, <<2, 0>>, <<1, 2>>, <<2, 2>>}
            ELSE {<<2, 0>>, <<2, 2>>, <<4, 2>>}]

AskedFreely == [s \in Strategies |-> {<<1, 0>>, <<2, 0>>, <<2, 2>>}]
=============================================================================
