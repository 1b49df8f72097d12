------------------------- MODULE AbstractContainers -------------------------
(***************************************************************************)
(* What Stack, Queue and LinkedList (Exprs/include) do for their callers:  *)
(* three sequences of values that have nothing to do with each other.  The *)
(* last call is kept, with its arguments and what it returned.  Where a    *)
(* comment of a header says otherwise, that is noted, and this is the code.*)
(***************************************************************************)
EXTENDS Integers, SequencesExt

CONSTANTS Data, MaxIndex  \* the values stored, the largest index asked for
VARIABLES stack, queue, list, last

vars == <<stack, queue, list, last>>

Empty == -1

Init == stack = <<>> /\ queue = <<>> /\ list = <<>> /\ last = <<>>

Called(c) == last' = c
-----------------------------------------------------------------------------
Push(d) == stack' = <<d>> \o stack /\ Called(<<"push", d>>)

Pop == IF stack = <<>> THEN Called(<<"pop", Empty>>) /\ UNCHANGED stack
       ELSE Called(<<"pop", Head(stack)>>) /\ stack' = Tail(stack)

StackCall == /\ Pop \/ \E d \in Data : Push(d)
             /\ UNCHANGED <<queue, list>>
-----------------------------------------------------------------------------
\* At the rear.  (Queue.hpp:48 says: "to the top", "to front".)
Add(d) == queue' = Append(queue, d) /\ Called(<<"add", d>>)

Del == IF queue = <<>> THEN Called(<<"del", Empty>>) /\ UNCHANGED queue
       ELSE Called(<<"del", Head(queue)>>) /\ queue' = Tail(queue)

QueueCall == /\ Del \/ \E d \in Data : Add(d)
             /\ UNCHANGED <<stack, list>>
-----------------------------------------------------------------------------
First(x) == CHOOSE i \in DOMAIN list : list[i] = x /\ \A j \in 1 .. i - 1 : list[j] # x

Prepend(d)    == list' = <<d>> \o list /\ Called(<<"prepend", d>>)
ListAppend(d) == list' = Append(list, d) /\ Called(<<"append", d>>)

\* Behind the first node with the value x; an empty list takes d all the same.
InsertAfter(x, d) ==
  /\ list' = IF list = <<>> THEN <<d>>
             ELSE IF x \notin ToSet(list) THEN list ELSE InsertAt(list, 1 + First(x), d)
  /\ Called(<<"insertAfter", x, d>>)

\* Before the node with this index, counted from 0, if there is one.
\* (LinkedList.hpp:113 says: after it.)
InsertAtIndex(index, d) ==
  /\ list' = IF index < Len(list) THEN InsertAt(list, index + 1, d) ELSE list
  /\ Called(<<"insertAtIndex", index, d>>)

\* The first node, whenever it was added.  (LinkedList.hpp:49 says: the one
\* least recently added, and the tail is updated too; tail is never used.)
RemoveHead ==
  IF list = <<>> THEN Called(<<"removeHead", Empty>>) /\ UNCHANGED list
  ELSE Called(<<"removeHead", Head(list)>>) /\ list' = Tail(list)

RemoveTail ==
  IF list = <<>> THEN Called(<<"removeTail", Empty>>) /\ UNCHANGED list
  ELSE Called(<<"removeTail", Last(list)>>) /\ list' = Front(list)

LookUp(d) == Called(<<"lookUp", d, d \in ToSet(list)>>) /\ UNCHANGED list

ListCall ==
  /\ \/ RemoveHead \/ RemoveTail
     \/ \E d \in Data :
          \/ Prepend(d) \/ ListAppend(d) \/ LookUp(d)
          \/ \E x \in Data : InsertAfter(x, d)
          \/ \E index \in 0 .. MaxIndex : InsertAtIndex(index, d)
  /\ UNCHANGED <<stack, queue>>
-----------------------------------------------------------------------------
\* One of the objects is deleted and another made in its place.
Replace ==
  \/ Called(<<"delete", "stack">>) /\ stack' = <<>> /\ UNCHANGED <<queue, list>>
  \/ Called(<<"delete", "queue">>) /\ queue' = <<>> /\ UNCHANGED <<stack, list>>
  \/ Called(<<"delete", "list">>) /\ list' = <<>> /\ UNCHANGED <<stack, queue>>

Next == StackCall \/ QueueCall \/ ListCall \/ Replace

Spec == Init /\ [][Next]_vars
=============================================================================
