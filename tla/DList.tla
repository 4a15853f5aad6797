-------------------------------- MODULE DList --------------------------------
(***************************************************************************)
(* The doubly linked lists of the engine (MACRO_LD_PUSH and                 *)
(* MACRO_LD_REMOVE of ph7int.h): the memory blocks of a backend, the        *)
(* entries of a SyHash, the engines of the library, the VMs of an engine.   *)
(* A list is a record of its head and the links of every item; the macros   *)
(* rely on the caller for the links of an item that is pushed.              *)
(***************************************************************************)
EXTENDS Naturals, Sequences

CONSTANT Null       \* the null pointer

Link(l, x, link) == IF x = Null THEN l ELSE [l EXCEPT ![x] = link]

EmptyList(items) ==
    [head |-> Null, next |-> [x \in items |-> Null], prev |-> [x \in items |-> Null]]

\* An item as its owner zeroes it before a push.
Zeroed(l, x) ==
    [l EXCEPT !.next = [@ EXCEPT ![x] = Null], !.prev = [@ EXCEPT ![x] = Null]]

PushItem(l, x) ==
    [head |-> x,
     next |-> IF l.head = Null THEN l.next ELSE [l.next EXCEPT ![x] = l.head],
     prev |-> Link(l.prev, l.head, x)]

KeepHead(l, x) ==                   \* mutant: the head is not moved
    [l EXCEPT !.next = Link(@, l.prev[x], l.next[x]),
              !.prev = Link(@, l.next[x], l.prev[x])]

\* The links of the removed item itself stay as they are.
RemoveItem(l, x) ==
    [head |-> IF l.head = x THEN l.next[x] ELSE l.head,
     next |-> Link(l.next, l.prev[x], l.next[x]),
     prev |-> Link(l.prev, l.next[x], l.prev[x])]

\* The item that n steps along pNext lead to, as the loops that count do.
Steps(l, n) ==
    LET at[k \in 0 .. n] ==
            IF k = 0 THEN l.head
            ELSE IF at[k - 1] = Null THEN Null ELSE l.next[at[k - 1]]
    IN  at

(* The items `members` are linked to each other in both directions, and     *)
(* only the head has none before it.                                        *)
Linked(l, members) ==
    /\ l.head \in members \cup {Null}
    /\ \A x \in members :
         /\ l.next[x] \in members \cup {Null} /\ l.prev[x] \in members \cup {Null}
         /\ l.next[x] # Null => l.prev[l.next[x]] = x
         /\ l.prev[x] # Null => l.next[l.prev[x]] = x
         /\ l.prev[x] = Null <=> x = l.head

=============================================================================
