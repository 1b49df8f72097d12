------------------------- MODULE AbstractAllocator -------------------------
(***************************************************************************)
(* What a memory provider of the unified memory framework promises to its  *)
(* callers (include/umf/memory_provider.h): the ranges they hold are in    *)
(* memory the provider owns, no byte is in two of them, and a range        *)
(* changes only by the caller's own free, split or merge.                  *)
(***************************************************************************)
EXTENDS Integers

VARIABLES
  held,   \* address -> size of the ranges handed out and not taken back
  owned   \* the bytes the provider has

vars == <<held, owned>>

Bytes(a, n)   == a .. a + n - 1
Occupied      == UNION {Bytes(a, held[a]) : a \in DOMAIN held}
Empty         == [a \in {} |-> 0]
With(f, a, n) == [x \in DOMAIN f \cup {a} |-> IF x = a THEN n ELSE f[x]]
Without(S)    == [a \in DOMAIN held \ S |-> held[a]]

Init == held = Empty /\ owned = {}

\* A provider may get more memory at any time, and hand out some of it.
Alloc(a, n) ==
  /\ n > 0
  /\ Bytes(a, n) \cap Occupied = {}
  /\ held' = With(held, a, n)
  /\ owned \subseteq owned' /\ Bytes(a, n) \subseteq owned'

Grow == owned \subseteq owned' /\ UNCHANGED held

Free(a) == held' = Without({a}) /\ UNCHANGED owned

Split(a, first) ==
  /\ first \in 1 .. held[a] - 1
  /\ held' = With(With(held, a + first, held[a] - first), a, first)
  /\ UNCHANGED owned

Merge(low, high) ==
  /\ high = low + held[low]
  /\ held' = With(Without({high}), low, held[low] + held[high])
  /\ UNCHANGED owned

\* The provider is destroyed, with everything it had given out.
Close == held' = Empty /\ owned' = {}

Next ==
  \/ Grow \/ Close
  \/ \E a \in DOMAIN held' : Alloc(a, held'[a])
  \/ \E a \in DOMAIN held : Free(a) \/ \E first \in 1 .. held[a] : Split(a, first)
  \/ \E low, high \in DOMAIN held : Merge(low, high)

Spec == Init /\ [][Next]_vars
=============================================================================
