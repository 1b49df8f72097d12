-------------------------- MODULE LinkedContainers --------------------------
(***************************************************************************)
(* Stack, Queue and LinkedList (Exprs/include) as they are: nodes with a   *)
(* value and a link, in one heap that gives a deleted node's address to    *)
(* the next new one.  Each call is one step, the test threads make it with *)
(* the object's mutex held; only the heap is shared between objects.       *)
(*                                                                         *)
(* A null pointer that is dereferenced ends the program: crashed.          *)
(***************************************************************************)
EXTENDS Integers, SequencesExt

CONSTANTS Data,   \* the values stored
          Addr,   \* the addresses the allocator hands out
          Null

ASSUME ContainerAssumption ==
  Null \notin Addr /\ IsFiniteSet(Addr) /\ Data \subseteq Nat

VARIABLES heap,          \* the nodes that exist: a partial function on Addr
          top,           \* of the Stack
          front, rear,   \* of the Queue
          head, length,  \* of the LinkedList; its tail is never used
          last,          \* the last call and what it returned
          crashed

objects == <<top, front, rear, head, length>>
vars    == <<heap, objects, last, crashed>>

Empty == -1

Init ==
  /\ heap = [a \in {} |-> Null] /\ top = Null /\ front = Null /\ rear = Null
  /\ head = Null /\ length = 0 /\ last = <<>> /\ crashed = FALSE
-----------------------------------------------------------------------------
(* Node: new, delete and setLink.                                          *)

Fresh == Addr \ DOMAIN heap

With(h, a, d, l) == [x \in DOMAIN h \cup {a} |->
                       IF x = a THEN [data |-> d, link |-> l] ELSE h[x]]

Without(h, a) == [x \in DOMAIN h \ {a} |-> h[x]]

\* A store through a pointer to a deleted node changes nothing that exists.
SetLink(h, a, l) == IF a \in DOMAIN h THEN [h EXCEPT ![a].link = l] ELSE h

\* The addresses from p on, along the links; a walk that comes to a deleted
\* node ends there, and one that runs in a circle is cut off.
Chain(p) ==
  LET at[n \in Nat] == IF n = 0 THEN p
                       ELSE IF at[n - 1] \in DOMAIN heap THEN heap[at[n - 1]].link
                       ELSE Null
      len == CHOOSE n \in 0 .. Cardinality(Addr) + 1 :
               /\ n = Cardinality(Addr) + 1 \/ at[n] = Null
               /\ \A m \in 0 .. n - 1 : at[m] # Null
  IN  [i \in 1 .. len |-> at[i - 1]]

Values(p) == [i \in DOMAIN Chain(p) |-> heap[Chain(p)[i]].data]

Called(c) == last' = c /\ UNCHANGED crashed
Crash     == crashed' = TRUE /\ UNCHANGED <<heap, objects, last>>
-----------------------------------------------------------------------------
(* Stack.                                                                  *)

Push(d) ==
  /\ \E a \in Fresh : heap' = With(heap, a, d, top) /\ top' = a
  /\ Called(<<"push", d>>) /\ UNCHANGED <<front, rear, head, length>>

Pop ==
  IF top = Null THEN Called(<<"pop", Empty>>) /\ UNCHANGED <<heap, objects>>
  ELSE /\ top' = heap[top].link /\ heap' = Without(heap, top)
       /\ Called(<<"pop", heap[top].data>>) /\ UNCHANGED <<front, rear, head, length>>

DeleteStack ==
  /\ heap' = [a \in DOMAIN heap \ ToSet(Chain(top)) |-> heap[a]] /\ top' = Null
  /\ Called(<<"delete", "stack">>) /\ UNCHANGED <<front, rear, head, length>>
-----------------------------------------------------------------------------
(* Queue.                                                                  *)

\* The first node's link is the rear of the empty queue.
Add(d) ==
  /\ \E a \in Fresh :
       /\ IF front = Null
          THEN heap' = With(heap, a, d, rear) /\ front' = a
          ELSE heap' = With(SetLink(heap, rear, a), a, d, Null) /\ UNCHANGED front
       /\ rear' = a
  /\ Called(<<"add", d>>) /\ UNCHANGED <<top, head, length>>

DelKeepingRear ==  \* faulty: rear still points to the node deleted last
  IF front = Null THEN Called(<<"del", Empty>>) /\ UNCHANGED <<heap, objects>>
  ELSE /\ front' = heap[front].link /\ heap' = Without(heap, front)
       /\ Called(<<"del", heap[front].data>>) /\ UNCHANGED <<top, rear, head, length>>

Del ==
  IF front = Null THEN Called(<<"del", Empty>>) /\ UNCHANGED <<heap, objects>>
  ELSE /\ front' = heap[front].link /\ heap' = Without(heap, front)
       /\ rear' = IF front' = Null THEN Null ELSE rear
       /\ Called(<<"del", heap[front].data>>) /\ UNCHANGED <<top, head, length>>

DeleteQueue ==
  /\ heap' = [a \in DOMAIN heap \ ToSet(Chain(front)) |-> heap[a]]
  /\ front' = Null /\ rear' = Null
  /\ Called(<<"delete", "queue">>) /\ UNCHANGED <<top, head, length>>
-----------------------------------------------------------------------------
(* LinkedList.                                                             *)

\* A new node with value d between the nodes before and after, where before
\* is Null for a node that becomes the head.
Link(d, before, after, call) ==
  /\ \E a \in Fresh :
       IF before = Null THEN heap' = With(heap, a, d, after) /\ head' = a
       ELSE heap' = With(SetLink(heap, before, a), a, d, after) /\ UNCHANGED head
  /\ length' = length + 1
  /\ Called(call) /\ UNCHANGED <<top, front, rear>>

Prepend(d) == Link(d, Null, head, <<"prepend", d>>)

ListAppend(d) ==
  Link(d, IF head = Null THEN Null ELSE Last(Chain(head)), Null, <<"append", d>>)

Holders(x) == {i \in DOMAIN Chain(head) : heap[Chain(head)[i]].data = x}

InsertAfterLast(x, d) ==  \* faulty: after the last node with the value x
  IF head = Null THEN Link(d, Null, Null, <<"insertAfter", x, d>>)
  ELSE IF Holders(x) = {} THEN Called(<<"insertAfter", x, d>>) /\ UNCHANGED <<heap, objects>>
  ELSE LET a == Chain(head)[CHOOSE i \in Holders(x) : \A j \in Holders(x) : i >= j]
       IN  Link(d, a, heap[a].link, <<"insertAfter", x, d>>)

InsertAfter(x, d) ==
  IF head = Null THEN Link(d, Null, Null, <<"insertAfter", x, d>>)
  ELSE IF Holders(x) = {} THEN Called(<<"insertAfter", x, d>>) /\ UNCHANGED <<heap, objects>>
  ELSE LET a == Chain(head)[CHOOSE i \in Holders(x) : \A j \in Holders(x) : i <= j]
       IN  Link(d, a, heap[a].link, <<"insertAfter", x, d>>)

\* The new node goes before the one with this index, through the link of its
\* predecessor: the head has none.  An empty list refuses every index.
InsertAtIndex(index, d) ==
  IF index + 1 > length THEN Called(<<"insertAtIndex", index, d>>) /\ UNCHANGED <<heap, objects>>
  ELSE IF index = 0 THEN Crash
  ELSE Link(d, Chain(head)[index], Chain(head)[index + 1], <<"insertAtIndex", index, d>>)

RemoveHead ==
  IF head = Null THEN Called(<<"removeHead", Empty>>) /\ UNCHANGED <<heap, objects>>
  ELSE /\ head' = heap[head].link /\ heap' = Without(heap, head)
       /\ length' = length - 1
       /\ Called(<<"removeHead", heap[head].data>>) /\ UNCHANGED <<top, front, rear>>

RemoveTailUnlinkedOnly ==  \* faulty: the node is not deleted
  IF head = Null THEN Called(<<"removeTail", Empty>>) /\ UNCHANGED <<heap, objects>>
  ELSE IF heap[head].link = Null THEN Crash
  ELSE LET c == Chain(head) IN
       /\ heap' = SetLink(heap, c[Len(c) - 1], Null)
       /\ length' = length - 1
       /\ Called(<<"removeTail", heap[Last(c)].data>>) /\ UNCHANGED <<top, front, rear, head>>

\* The link to the last node is cut in its predecessor: a single node has none.
RemoveTail ==
  IF head = Null THEN Called(<<"removeTail", Empty>>) /\ UNCHANGED <<heap, objects>>
  ELSE IF heap[head].link = Null THEN Crash
  ELSE LET c == Chain(head) IN
       /\ heap' = Without(SetLink(heap, c[Len(c) - 1], Null), Last(c))
       /\ length' = length - 1
       /\ Called(<<"removeTail", heap[Last(c)].data>>) /\ UNCHANGED <<top, front, rear, head>>

LookUp(d) ==
  Called(<<"lookUp", d, Holders(d) # {}>>) /\ UNCHANGED <<heap, objects>>

DeleteList ==
  /\ heap' = [a \in DOMAIN heap \ ToSet(Chain(head)) |-> heap[a]]
  /\ head' = Null /\ length' = 0
  /\ Called(<<"delete", "list">>) /\ UNCHANGED <<top, front, rear>>
-----------------------------------------------------------------------------
Call ==
  \/ Pop \/ Del \/ RemoveHead \/ RemoveTail
  \/ DeleteStack \/ DeleteQueue \/ DeleteList
  \/ \E d \in Data :
       \/ Push(d) \/ Add(d) \/ Prepend(d) \/ ListAppend(d) \/ LookUp(d)
       \/ \E x \in Data : InsertAfter(x, d)
       \/ \E index \in 0 .. Cardinality(Addr) : InsertAtIndex(index, d)

Crashed == crashed /\ UNCHANGED vars

Next == (~crashed /\ Call) \/ Crashed

Spec == Init /\ [][Next]_vars
-----------------------------------------------------------------------------
(* Properties.                                                             *)

Pointer == Addr \cup {Null}

\* Pointers point to addresses or are null, length is a natural number.
TypeOK ==
  /\ DOMAIN heap \subseteq Addr
  /\ \A a \in DOMAIN heap : heap[a].data \in Data /\ heap[a].link \in Pointer
  /\ {top, front, rear, head} \subseteq Pointer
  /\ length \in Nat /\ crashed \in BOOLEAN

Objects == <<Chain(top), Chain(front), Chain(head)>>

\* Following the links of an object never runs in a circle, never comes to a
\* deleted node or to one of another object, and together the three objects
\* lead to every node that exists: none has leaked.
HeapPartitioned ==
  /\ TypeOK
  /\ \A i \in 1 .. 3 : IsInjective(Objects[i])
  /\ \A i, j \in 1 .. 3 : i # j => ToSet(Objects[i]) \cap ToSet(Objects[j]) = {}
  /\ UNION {ToSet(Objects[i]) : i \in 1 .. 3} = DOMAIN heap

\* rear is the last node of the queue, null when there is none, so the first
\* node of an empty queue gets a null link and add can always follow rear.
\* length counts the nodes of the list, which insertAtIndex relies on.
EndsAndCounts ==
  /\ rear = IF front = Null THEN Null ELSE Last(Chain(front))
  /\ length = Len(Chain(head))

Promise == INSTANCE AbstractContainers WITH
             stack <- Values(top), queue <- Values(front), list <- Values(head),
             MaxIndex <- Cardinality(Addr)

\* As long as the program runs, every call does to its own sequence what it
\* promises, returns what it promises, and leaves the others alone.
ImplementsPromise == Promise!Spec
=============================================================================
