--------------------------- MODULE AbstractIndex ---------------------------
(* What an ordered index with readers that take no lock promises: writers    *)
(* change its entries one at a time, and a reader's query is answered with   *)
(* something that held at some moment between its call and its return.       *)
(*                                                                           *)
(* A query for a key ("get") promises exactly that.  A query for the nearest *)
(* entry below or above a key ("le", "ge") promises it only while that       *)
(* nearest entry stays the same; when it changes during the call the answer  *)
(* is some entry of that side seen during the call, or none.                 *)
EXTENDS Naturals, FiniteSets

CONSTANTS
    Keys,       \* the keys an entry may have
    ValuesOf,   \* for each key, the values its entry may hold
    Queries,    \* what readers ask: pairs of "get", "le" or "ge" and a key
    NoValue     \* the value of a key that has no entry

VARIABLES
    entries,    \* the value of every key
    call        \* the query of the one reader that is followed

None == [pc |-> "idle"]

(* The keys whose entries could answer the query. *)
Side(query) ==
    CASE query[1] = "get" -> Keys \cap {query[2]}
      [] query[1] = "le"  -> {k \in Keys : k <= query[2]}
      [] query[1] = "ge"  -> {k \in Keys : k >= query[2]}

Entered(query, e) == {k \in Side(query) : e[k] # NoValue}

Nearer(query, j, k) == IF query[1] = "ge" THEN j <= k ELSE j >= k

(* The value of the nearest entry, or NoValue. *)
Exact(query, e) ==
    IF Entered(query, e) = {} THEN NoValue
    ELSE e[CHOOSE j \in Entered(query, e) :
               \A k \in Entered(query, e) : Nearer(query, j, k)]

(* The values of all entries on the query's side. *)
Loose(query, e) == {e[k] : k \in Entered(query, e)}

Answers(c) ==
    IF c.query[1] = "get" \/ Cardinality(c.exact) = 1 THEN c.exact
    ELSE c.exact \cup c.loose \cup {NoValue}

(* A query begins with what it could see at once, *)
Opened(query, e) ==
    [pc |-> "open", query |-> query,
     exact |-> {Exact(query, e)}, loose |-> Loose(query, e)]

(* and sees every change of the entries while it is under way. *)
Watch(c, e) ==
    IF c.pc # "open" THEN c
    ELSE [c EXCEPT !.exact = @ \cup {Exact(c.query, e)},
                   !.loose = @ \cup Loose(c.query, e)]

Init == entries = [k \in Keys |-> NoValue] /\ call = None

Write(k, v) ==
    /\ entries' = [entries EXCEPT ![k] = v]
    /\ call' = Watch(call, entries')

Ask(query) ==
    /\ call = None
    /\ call' = Opened(query, entries)
    /\ UNCHANGED entries

Answer ==
    /\ call.pc = "open"
    /\ \E v \in Answers(call) : call' = [pc |-> "done", answer |-> v]
    /\ UNCHANGED entries

Leave == call.pc = "done" /\ call' = None /\ UNCHANGED entries

Next ==
    \/ \E k \in Keys : \E v \in ValuesOf[k] \cup {NoValue} : Write(k, v)
    \/ \E query \in Queries : Ask(query)
    \/ Answer
    \/ Leave

Spec == Init /\ [][Next]_<<entries, call>>
=============================================================================
