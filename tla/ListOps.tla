------------------------------- MODULE ListOps ------------------------------
(***************************************************************************)
(* The singly linked list of util/list.c, as operators on a record: the    *)
(* head and tail pointers, the size, and the cells malloc has returned and *)
(* free has not taken back, each with a key, a value and a next pointer.   *)
(***************************************************************************)
EXTENDS Naturals, FiniteSets

CONSTANTS
  Cell,      \* addresses
  NULL       \* the null pointer

ASSUME ListAssumption == NULL \notin Cell

EmptyList == [head |-> NULL, tail |-> NULL, size |-> 0, cells |-> <<>>]

\* The next pointer stored in a cell; nothing can be said of a freed one.
NextOf(list, p) == IF p \in DOMAIN list.cells THEN list.cells[p].next ELSE NULL

\* The pointers a traversal from the head sees, one per step.
Traversal(list) ==
  LET seen[n \in 0 .. Cardinality(DOMAIN list.cells)] ==
        IF n = 0 THEN list.head ELSE NextOf(list, seen[n - 1])
  IN  seen

Reached(list) == {Traversal(list)[n] : n \in DOMAIN Traversal(list)} \ {NULL}

\* The steps at which a traversal finds the key.
HitsOf(list, key) ==
  {n \in DOMAIN Traversal(list) :
     LET p == Traversal(list)[n]
     IN  p \in DOMAIN list.cells /\ list.cells[p].key = key}

FirstHit(list, key) ==
  CHOOSE n \in HitsOf(list, key) : \A m \in HitsOf(list, key) : n <= m

\* The value stored in the cell that a traversal sees at step n.
ValueAt(list, n) == list.cells[Traversal(list)[n]].val

\* list_find: a value, which may be NULL too.
Find(list, key) ==
  IF HitsOf(list, key) = {} THEN NULL ELSE ValueAt(list, FirstHit(list, key))

WithNext(cells, p, q) == [cells EXCEPT ![p].next = q]

\* list_add: the new cell is linked behind the tail; the tail itself is moved
\* only when it was NULL.
Add(list, p, key, val) ==
  LET elem  == [key |-> key, val |-> val, next |-> NULL]
      cells == [q \in DOMAIN list.cells \cup {p} |-> IF q = p THEN elem ELSE list.cells[q]]
  IN  IF list.tail = NULL
        THEN [head |-> p, tail |-> p, size |-> list.size + 1, cells |-> cells]
        ELSE [list EXCEPT !.cells = WithNext(cells, list.tail, p), !.size = @ + 1]

\* What list_del leaves behind when it unlinks the cell found at step n.
Unlink(list, n, tail) ==
  LET p     == Traversal(list)[n]
      after == NextOf(list, p)
      rest  == [q \in DOMAIN list.cells \ {p} |-> list.cells[q]]
  IN  [head  |-> IF n = 0 THEN after ELSE list.head,
       tail  |-> tail,
       size  |-> list.size - 1,
       cells |-> IF n = 0 THEN rest ELSE WithNext(rest, Traversal(list)[n - 1], after)]

\* Faulty variant: the tail pointer is left at a freed cell.
DelKeepingTail(list, key) ==
  IF HitsOf(list, key) = {} THEN list
  ELSE Unlink(list, FirstHit(list, key), list.tail)

\* list_del: the first cell with the key is unlinked and freed.
Del(list, key) ==
  IF HitsOf(list, key) = {} THEN list
  ELSE LET n    == FirstHit(list, key)
           prev == IF n = 0 THEN NULL ELSE Traversal(list)[n - 1]
       IN  Unlink(list, n, IF Traversal(list)[n] = list.tail THEN prev ELSE list.tail)

=============================================================================
