-------------------------- MODULE HashTableProofs ---------------------------
(***************************************************************************)
(* Theorems about the hash table and the lists of its bins, for any number *)
(* of keys, bins, cells and calls.  A list loses elements in such a way    *)
(* that it never has more than two, which is why its memory stays sound.   *)
(***************************************************************************)
EXTENDS HashTable, TLAPS, FiniteSetTheorems, WellFoundedInduction

-----------------------------------------------------------------------------
(* Induction.                                                              *)

LEMMA LeastNumber ==
  ASSUME NEW T, T \subseteq Nat, T # {}
  PROVE  \E x \in T : \A y \in T : x <= y
<1>. DEFINE R == {ss \in Nat \X Nat : ss[1] < ss[2]}
<1>1. IsWellFoundedOn(R, Nat)
  BY NatLessThanWellFounded DEF OpToRel
<1>2. \A x, y \in Nat : x < y => <<x, y>> \in R
  OBVIOUS
<1>. HIDE DEF R
<1>3. PICK x \in T : \A y \in T : ~ (<<y, x>> \in R)
  BY <1>1, WFMin
<1>4. \A y \in T : ~ (y < x)
  BY <1>2, <1>3
<1>. QED
  BY <1>4

LEMMA Induction ==
  ASSUME NEW S, 0 \in S, \A n \in Nat : n \in S => n + 1 \in S
  PROVE  Nat \subseteq S
<1>. SUFFICES ASSUME {n \in Nat : n \notin S} # {} PROVE FALSE
  OBVIOUS
<1>1. PICK x \in {n \in Nat : n \notin S} : \A y \in {n \in Nat : n \notin S} : x <= y
  BY LeastNumber
<1>2. x - 1 \in Nat
  OBVIOUS
<1>3. x - 1 \in S
  BY <1>1, <1>2
<1>. QED
  BY <1>2, <1>3

-----------------------------------------------------------------------------
(* Remainders.                                                             *)

LEMMA Division ==
  ASSUME NEW a \in Int, NEW w \in Nat \ {0}
  PROVE  /\ a % w \in 0 .. w - 1 /\ a \div w \in Int
         /\ a = w * (a \div w) + (a % w)
OBVIOUS

LEMMA Remainder ==
  ASSUME NEW q \in Int, NEW w \in Nat \ {0}, NEW r \in 0 .. w - 1
  PROVE  (w * q + r) % w = r
OBVIOUS

Rest(a, w) == a % w

Resized(r, w, old, new) == (((r + w - old) % w) + new) % w

\* A change of one term carries over, although both updates of the size wrap.
LEMMA WrapsLikeTheSum ==
  ASSUME NEW w \in Nat \ {0}, NEW sum \in Nat, NEW sum2 \in Nat,
         NEW old \in Nat, NEW new \in Nat, sum2 + old = sum + new
  PROVE  Resized(Rest(sum, w), w, old, new) = Rest(sum2, w)
<1>. DEFINE r  == sum % w
            q  == sum \div w
            r1 == (r + w - old) % w
            q1 == (r + w - old) \div w
            r2 == (r1 + new) % w
            q2 == (r1 + new) \div w
<1>1. r \in 0 .. w - 1 /\ q \in Int /\ sum = w * q + r
  BY Division
<1>2. r + w - old \in Int
  BY <1>1
<1>. HIDE DEF r, q
<1>3. r1 \in 0 .. w - 1 /\ q1 \in Int /\ r + w - old = w * q1 + r1
  BY <1>2, Division
<1>4. r1 + new \in Int
  BY <1>3
<1>. HIDE DEF r1, q1
<1>5. r2 \in 0 .. w - 1 /\ q2 \in Int /\ r1 + new = w * q2 + r2
  BY <1>4, Division
<1>. HIDE DEF r2, q2
<1>6. sum2 = w * (q + q1 + q2 - 1) + r2
  <2>1. w * (q + q1 + q2 - 1) = w * q + w * q1 + w * q2 - w
    BY <1>1, <1>3, <1>5
  <2>2. w * q \in Int /\ w * q1 \in Int /\ w * q2 \in Int
    BY <1>1, <1>3, <1>5
  <2>. HIDE DEF r, q, r1, q1, r2, q2
  <2>3. sum2 = (w * q + w * q1 + w * q2 - w) + r2
    BY <1>1, <1>3, <1>5, <2>2
  <2>. QED
    BY <2>1, <2>3
<1>7. q + q1 + q2 - 1 \in Int
  BY <1>1, <1>3, <1>5
<1>8. sum2 % w = r2
  BY <1>5, <1>6, <1>7, Remainder
<1>. QED
  BY <1>8 DEF r2, r1, r, Rest, Resized

-----------------------------------------------------------------------------
(* The shapes of a list.                                                   *)

Entry == [key : Key, val : Value, next : Cell \cup {NULL}]

Structure(list) ==
  /\ list = [head |-> list.head, tail |-> list.tail, size |-> list.size, cells |-> list.cells]
  /\ list.size \in Nat
  /\ DOMAIN list.cells \subseteq Cell /\ IsFiniteSet(DOMAIN list.cells)
  /\ list.cells \in [DOMAIN list.cells -> Entry]

\* Cells that were lost may be left, but none that is reached.
NoElement(list) == list.head = NULL /\ list.tail = NULL

\* The tail pointer is NULL after the first of two elements was deleted.
OneElement(list) ==
  /\ list.head \in DOMAIN list.cells /\ list.cells[list.head].next = NULL
  /\ list.tail \in {list.head, NULL}
  /\ list.size >= 1

\* The tail pointer stays at the first of two elements, which has the key of the second
\* only if list_find returned its NULL when the second was added.
TwoElements(list) ==
  LET p == list.head
      q == list.cells[p].next
  IN  /\ p \in DOMAIN list.cells /\ q \in DOMAIN list.cells /\ p # q
      /\ list.cells[q].next = NULL
      /\ list.tail = p
      /\ list.cells[p].key = list.cells[q].key => list.cells[p].val = NULL
      /\ list.size >= 2

ListInv(list) ==
  Structure(list) /\ (NoElement(list) \/ OneElement(list) \/ TwoElements(list))

LEMMA EmptyListInv == ListInv(EmptyList)
<1>1. DOMAIN <<>> = {} /\ <<>> \in [{} -> Entry]
  OBVIOUS
<1>2. IsFiniteSet({})
  BY FS_EmptySet
<1>. QED
  BY <1>1, <1>2 DEF EmptyList, ListInv, Structure, NoElement

\* A list with an element has a cell, one with two has two.
LEMMA CellsCounted ==
  ASSUME NEW list, ListInv(list)
  PROVE  /\ Cardinality(DOMAIN list.cells) \in Nat
         /\ OneElement(list) => Cardinality(DOMAIN list.cells) >= 1
         /\ TwoElements(list) => Cardinality(DOMAIN list.cells) >= 2
<1>. DEFINE D == DOMAIN list.cells
<1>1. IsFiniteSet(D)
  BY DEF ListInv, Structure
<1>. HIDE DEF D
<1>2. Cardinality(D) \in Nat
  BY <1>1, FS_CardinalityType
<1>3. ASSUME NEW p \in D PROVE Cardinality(D) >= 1
  <2>1. IsFiniteSet({p}) /\ Cardinality({p}) = 1 /\ {p} \subseteq D
    BY FS_Singleton
  <2>2. Cardinality({p}) <= Cardinality(D)
    BY <1>1, <2>1, FS_Subset
  <2>. QED
    BY <1>2, <2>1, <2>2
<1>4. ASSUME NEW p \in D, NEW q \in D, p # q PROVE Cardinality(D) >= 2
  <2>1. IsFiniteSet({p}) /\ Cardinality({p}) = 1
    BY FS_Singleton
  <2>2. Cardinality({p} \cup {q}) = 2
    <3>1. q \notin {p}
      BY <1>4
    <3>. QED
      BY <2>1, <3>1, FS_AddElement
  <2>3. Cardinality({p} \cup {q}) <= Cardinality(D)
    <3>1. {p} \cup {q} \subseteq D
      OBVIOUS
    <3>. QED
      BY <1>1, <3>1, FS_Subset
  <2>. QED
    BY <1>2, <2>2, <2>3
<1>. QED
  BY <1>2, <1>3, <1>4 DEF OneElement, TwoElements, D

-----------------------------------------------------------------------------
(* Traversals.                                                             *)

\* What a traversal of such a list sees.
Steps(list) ==
  [n \in 0 .. Cardinality(DOMAIN list.cells) |->
     IF n = 0 THEN list.head ELSE IF n = 1 THEN NextOf(list, list.head) ELSE NULL]

LEMMA TwoSteps ==
  ASSUME NEW list, ListInv(list)
  PROVE  NextOf(list, NextOf(list, list.head)) = NULL /\ NextOf(list, NULL) = NULL
BY ListAssumption DEF ListInv, Structure, NoElement, OneElement, TwoElements, NextOf

LEMMA TraversalIsSteps ==
  ASSUME NEW list, ListInv(list)
  PROVE  Traversal(list) = Steps(list)
<1>. DEFINE K == Cardinality(DOMAIN list.cells)
            t == Traversal(list)
            g == Steps(list)
<1>1. K \in Nat
  BY CellsCounted
<1>. HIDE DEF K
<1>2. g = [n \in 0 .. K |-> IF n = 0 THEN list.head ELSE NextOf(list, g[n - 1])]
  <2>1. ASSUME NEW n \in 0 .. K
        PROVE  g[n] = IF n = 0 THEN list.head ELSE NextOf(list, g[n - 1])
    BY <1>1, TwoSteps DEF Steps, K
  <2>. QED
    BY <2>1 DEF Steps, K
<1>. HIDE DEF g
<1>3. t = [n \in 0 .. K |-> IF n = 0 THEN list.head ELSE NextOf(list, t[n - 1])]
  BY <1>2 DEF Traversal, K
<1>. HIDE DEF t
<1>4. ASSUME NEW n \in Nat PROVE n \in 0 .. K => t[n] = g[n]
  <2>. DEFINE S == {i \in Nat : i \in 0 .. K => t[i] = g[i]}
  <2>1. 0 \in S
    BY <1>1, <1>2, <1>3
  <2>2. ASSUME NEW i \in Nat, i \in S PROVE i + 1 \in S
    <3>1. CASE i + 1 \in 0 .. K
      <4>1. i \in 0 .. K /\ i + 1 # 0 /\ (i + 1) - 1 = i
        BY <1>1, <3>1
      <4>2. t[i + 1] = NextOf(list, t[i]) /\ g[i + 1] = NextOf(list, g[i])
        BY <1>2, <1>3, <3>1, <4>1
      <4>. QED
        BY <2>2, <4>1, <4>2
    <3>2. CASE i + 1 \notin 0 .. K
      BY <3>2
    <3>. QED
      BY <3>1, <3>2
  <2>. HIDE DEF S
  <2>3. Nat \subseteq S
    BY <2>1, <2>2, Induction
  <2>. QED
    BY <2>3 DEF S
<1>5. \A n \in 0 .. K : t[n] = g[n]
  BY <1>1, <1>4
<1>6. t = g
  BY <1>2, <1>3, <1>5
<1>. QED
  BY <1>6 DEF t, g

\* The steps of a traversal, one by one.
LEMMA StepByStep ==
  ASSUME NEW list, ListInv(list)
  PROVE  /\ DOMAIN Traversal(list) = 0 .. Cardinality(DOMAIN list.cells)
         /\ 0 \in DOMAIN Traversal(list) /\ Traversal(list)[0] = list.head
         /\ \A n \in DOMAIN Traversal(list) :
              /\ n \in Nat
              /\ n = 1 => Traversal(list)[n] = NextOf(list, list.head)
              /\ n # 0 /\ n # 1 => Traversal(list)[n] = NULL
<1>1. Cardinality(DOMAIN list.cells) \in Nat /\ Traversal(list) = Steps(list)
  BY CellsCounted, TraversalIsSteps
<1>. QED
  BY <1>1 DEF Steps

\* The first hit is a hit, and one of the first two steps.
LEMMA FirstIsHit ==
  ASSUME NEW list, ListInv(list), NEW key, HitsOf(list, key) # {}
  PROVE  /\ FirstHit(list, key) \in HitsOf(list, key)
         /\ FirstHit(list, key) \in {0, 1}
         /\ \A m \in HitsOf(list, key) : FirstHit(list, key) <= m
<1>1. HitsOf(list, key) \subseteq Nat
  BY StepByStep DEF HitsOf
<1>2. \E n \in HitsOf(list, key) : \A m \in HitsOf(list, key) : n <= m
  BY <1>1, LeastNumber
<1>3. /\ FirstHit(list, key) \in HitsOf(list, key)
      /\ \A m \in HitsOf(list, key) : FirstHit(list, key) <= m
  BY <1>2 DEF FirstHit
<1>4. NULL \notin DOMAIN list.cells
  BY ListAssumption DEF ListInv, Structure
<1>5. FirstHit(list, key) \in {0, 1}
  BY <1>3, <1>4, StepByStep DEF HitsOf
<1>. QED
  BY <1>3, <1>5

\* A key for which no value is found is that of the first element only if that holds
\* NULL.
LEMMA NotFound ==
  ASSUME NEW list, ListInv(list), NEW key, Find(list, key) = NULL,
         list.head \in DOMAIN list.cells, list.cells[list.head].key = key
  PROVE  list.cells[list.head].val = NULL
<1>1. 0 \in HitsOf(list, key) /\ Traversal(list)[0] = list.head
  BY StepByStep DEF HitsOf
<1>2. FirstHit(list, key) = 0
  BY <1>1, FirstIsHit
<1>3. Find(list, key) = ValueAt(list, 0)
  BY <1>1, <1>2 DEF Find
<1>. QED
  BY <1>1, <1>3 DEF ValueAt

-----------------------------------------------------------------------------
(* list_add and list_del.                                                  *)

\* The cells with one more, which no pointer leads to yet.
NewCells(list, p, key, val) ==
  [q \in DOMAIN list.cells \cup {p} |->
     IF q = p THEN [key |-> key, val |-> val, next |-> NULL] ELSE list.cells[q]]

LEMMA AddKeeps ==
  ASSUME NEW list, ListInv(list), NEW p \in Cell, p \notin DOMAIN list.cells,
         NEW key \in Key, NEW val \in Value, Find(list, key) = NULL
  PROVE  /\ ListInv(Add(list, p, key, val))
         /\ DOMAIN Add(list, p, key, val).cells = DOMAIN list.cells \cup {p}
<1>. DEFINE cells == NewCells(list, p, key, val)
            new == Add(list, p, key, val)
<1>1. /\ list.size \in Nat /\ DOMAIN list.cells \subseteq Cell
      /\ list.cells \in [DOMAIN list.cells -> Entry]
      /\ IsFiniteSet(DOMAIN list.cells \cup {p})
  BY FS_AddElement DEF ListInv, Structure
<1>2. /\ DOMAIN cells = DOMAIN list.cells \cup {p}
      /\ cells \in [DOMAIN list.cells \cup {p} -> Entry]
      /\ cells[p] = [key |-> key, val |-> val, next |-> NULL]
      /\ \A q \in DOMAIN list.cells : cells[q] = list.cells[q]
  BY <1>1 DEF NewCells, Entry
<1>. HIDE DEF cells
<1>3. CASE list.tail = NULL
  <2>1. new = [head |-> p, tail |-> p, size |-> list.size + 1, cells |-> cells]
    BY <1>3 DEF Add, cells, NewCells
  <2>. HIDE DEF new
  <2>2. /\ new.head = p /\ new.tail = p /\ new.size = list.size + 1 /\ new.cells = cells
    BY <2>1
  <2>3. Structure(new)
    BY <1>1, <1>2, <2>1, <2>2 DEF Structure
  <2>4. OneElement(new)
    BY <1>1, <1>2, <2>2 DEF OneElement
  <2>. QED
    BY <1>2, <2>2, <2>3, <2>4 DEF ListInv, new
<1>4. CASE list.tail # NULL
  <2>1. list.head \in DOMAIN list.cells /\ list.tail = list.head /\ list.size >= 1
    <3>1. CASE OneElement(list)
      BY <1>4, <3>1 DEF OneElement
    <3>2. CASE TwoElements(list)
      BY <1>1, <3>2 DEF TwoElements
    <3>. QED
      BY <1>4, <3>1, <3>2 DEF ListInv, NoElement
  <2>. DEFINE linked == [cells EXCEPT ![list.head].next = p]
  <2>2. /\ DOMAIN linked = DOMAIN list.cells \cup {p}
        /\ linked \in [DOMAIN list.cells \cup {p} -> Entry]
        /\ linked[p] = [key |-> key, val |-> val, next |-> NULL]
        /\ linked[list.head].next = p
        /\ linked[list.head].key = list.cells[list.head].key
        /\ linked[list.head].val = list.cells[list.head].val
    BY <1>1, <1>2, <2>1 DEF Entry
  <2>3. new = [list EXCEPT !.cells = linked, !.size = list.size + 1]
    BY <1>4, <2>1 DEF Add, cells, NewCells, WithNext
  <2>. HIDE DEF linked, new
  <2>4. new = [head |-> list.head, tail |-> list.tail, size |-> list.size + 1, cells |-> linked]
    BY <2>3 DEF ListInv, Structure
  <2>5. /\ new.head = list.head /\ new.tail = list.head /\ new.size = list.size + 1
        /\ new.cells = linked
    BY <2>1, <2>4
  <2>6. Structure(new)
    BY <1>1, <2>1, <2>2, <2>4, <2>5 DEF Structure
  <2>7. TwoElements(new)
    BY <1>1, <2>1, <2>2, <2>5, NotFound DEF TwoElements
  <2>. QED
    BY <2>2, <2>5, <2>6, <2>7 DEF ListInv, new
<1>. QED
  BY <1>3, <1>4

LEMMA DelKeeps ==
  ASSUME NEW list, ListInv(list), NEW key
  PROVE  /\ ListInv(Del(list, key))
         /\ DOMAIN Del(list, key).cells \subseteq DOMAIN list.cells
<1>1. CASE HitsOf(list, key) = {}
  BY <1>1 DEF Del
<1>2. CASE HitsOf(list, key) # {}
  <2>. DEFINE n == FirstHit(list, key)
              p == Traversal(list)[n]
              rest == [q \in DOMAIN list.cells \ {p} |-> list.cells[q]]
              tail == IF p = list.tail THEN IF n = 0 THEN NULL ELSE Traversal(list)[n - 1]
                      ELSE list.tail
              new == Del(list, key)
  <2>1. n \in DOMAIN Traversal(list) /\ p \in DOMAIN list.cells /\ n \in {0, 1}
    BY <1>2, FirstIsHit DEF HitsOf
  <2>2. new = Unlink(list, n, tail)
    BY <1>2 DEF Del
  <2>3. new = [head  |-> IF n = 0 THEN NextOf(list, p) ELSE list.head,
               tail  |-> tail,
               size  |-> list.size - 1,
               cells |-> IF n = 0 THEN rest
                         ELSE WithNext(rest, Traversal(list)[n - 1], NextOf(list, p))]
    BY <2>2 DEF Unlink
  <2>4. /\ list.size \in Nat /\ DOMAIN list.cells \subseteq Cell /\ NULL \notin Cell
        /\ list.cells \in [DOMAIN list.cells -> Entry]
        /\ IsFiniteSet(DOMAIN list.cells \ {p})
    BY FS_RemoveElement, ListAssumption DEF ListInv, Structure
  <2>5. /\ Traversal(list)[0] = list.head
        /\ n = 1 => p = NextOf(list, list.head)
    BY <2>1, StepByStep
  <2>. HIDE DEF n, new
  <2>6. CASE n = 0
    <3>1. p = list.head /\ tail = IF p = list.tail THEN NULL ELSE list.tail
      BY <2>5, <2>6
    <3>. HIDE DEF p, tail
    <3>2. new = [head |-> list.cells[p].next, tail |-> tail, size |-> list.size - 1,
                 cells |-> rest]
      BY <2>1, <2>3, <2>6 DEF NextOf
    <3>3. /\ DOMAIN rest = DOMAIN list.cells \ {p}
          /\ rest \in [DOMAIN list.cells \ {p} -> Entry]
          /\ \A q \in DOMAIN list.cells \ {p} : rest[q] = list.cells[q]
      BY <2>4
    <3>. HIDE DEF rest
    <3>4. /\ new.head = list.cells[p].next /\ new.tail = tail /\ new.size = list.size - 1
          /\ new.cells = rest
      BY <3>2
    <3>5. list.size >= 1
      BY <2>1, <2>4, <3>1 DEF ListInv, NoElement, OneElement, TwoElements
    <3>6. Structure(new)
      BY <2>4, <3>2, <3>3, <3>4, <3>5 DEF Structure
    <3>7. CASE OneElement(list)
      <4>1. NoElement(new)
        BY <3>1, <3>4, <3>7 DEF OneElement, NoElement
      <4>. QED
        BY <3>3, <3>4, <3>6, <4>1 DEF ListInv, new
    <3>8. CASE TwoElements(list)
      <4>1. OneElement(new)
        BY <2>4, <3>1, <3>3, <3>4, <3>8 DEF OneElement, TwoElements
      <4>. QED
        BY <3>3, <3>4, <3>6, <4>1 DEF ListInv, new
    <3>. QED
      BY <2>1, <2>4, <3>1, <3>7, <3>8 DEF ListInv, NoElement
  <2>7. CASE n = 1
    <3>1. p = NextOf(list, list.head) /\ TwoElements(list)
      <4>1. p = NextOf(list, list.head)
        BY <2>5, <2>7
      <4>. QED
        BY <2>1, <2>4, <4>1 DEF ListInv, NoElement, OneElement, NextOf
    <3>2. /\ list.head \in DOMAIN list.cells /\ p = list.cells[list.head].next
          /\ p # list.head /\ list.tail = list.head /\ list.size >= 2
          /\ NextOf(list, p) = NULL
      BY <3>1, <2>1 DEF TwoElements, NextOf
    <3>3. tail = list.head
      BY <3>2
    <3>. HIDE DEF p, tail
    <3>4. new = [head |-> list.head, tail |-> list.head, size |-> list.size - 1,
                 cells |-> [rest EXCEPT ![list.head].next = NULL]]
      <4>1. n # 0 /\ Traversal(list)[n - 1] = list.head
        BY <2>5, <2>7
      <4>. HIDE DEF rest
      <4>2. WithNext(rest, list.head, NULL) = [rest EXCEPT ![list.head].next = NULL]
        BY DEF WithNext
      <4>3. new = [head |-> list.head, tail |-> list.head, size |-> list.size - 1,
                   cells |-> WithNext(rest, list.head, NULL)]
        BY <2>3, <3>2, <3>3, <4>1
      <4>. QED
        BY <4>2, <4>3
    <3>. DEFINE cells == [rest EXCEPT ![list.head].next = NULL]
    <3>5. /\ DOMAIN cells = DOMAIN list.cells \ {p}
          /\ cells \in [DOMAIN list.cells \ {p} -> Entry]
          /\ cells[list.head].next = NULL
      <4>1. rest \in [DOMAIN list.cells \ {p} -> Entry] /\ list.head \in DOMAIN list.cells \ {p}
        BY <2>4, <3>2
      <4>. HIDE DEF rest
      <4>2. rest[list.head] \in Entry
        BY <4>1
      <4>3. [rest[list.head] EXCEPT !.next = NULL] \in Entry
        BY <4>2 DEF Entry
      <4>4. cells = [rest EXCEPT ![list.head] = [rest[list.head] EXCEPT !.next = NULL]]
        OBVIOUS
      <4>5. [rest[list.head] EXCEPT !.next = NULL].next = NULL
        BY <4>2 DEF Entry
      <4>. HIDE DEF cells
      <4>. QED
        BY <4>1, <4>3, <4>4, <4>5
    <3>. HIDE DEF cells
    <3>6. /\ new.head = list.head /\ new.tail = list.head /\ new.size = list.size - 1
          /\ new.cells = cells
      BY <3>4 DEF cells
    <3>7. Structure(new)
      <4>1. new = [head |-> list.head, tail |-> list.head, size |-> list.size - 1,
                   cells |-> cells]
        BY <3>4 DEF cells
      <4>. QED
        BY <2>4, <3>2, <3>5, <3>6, <4>1 DEF Structure
    <3>8. OneElement(new)
      BY <2>4, <3>2, <3>5, <3>6 DEF OneElement
    <3>. QED
      BY <3>5, <3>6, <3>7, <3>8 DEF ListInv, new
  <2>. QED
    BY <2>1, <2>6, <2>7
<1>. QED
  BY <1>1, <1>2

-----------------------------------------------------------------------------
(* Sums over the bins.                                                     *)

Chosen(s) == CHOOSE bin \in s : TRUE

Few(n) == {s \in SUBSET Bin : Cardinality(s) <= n}

\* One step of the sum: the chosen bin, and what g gives for the others.
OneMore(table, g, s) ==
  IF s = {} THEN 0 ELSE table[Chosen(s)].size + g[s \ {Chosen(s)}]

SumsUp(table, g) == g = [s \in SUBSET Bin |-> OneMore(table, g, s)]

LEMMA ChosenLeavesLess ==
  ASSUME NEW s \in SUBSET Bin, s # {}
  PROVE  /\ Chosen(s) \in s /\ s \ {Chosen(s)} \in SUBSET Bin
         /\ Cardinality(s) \in Nat /\ Cardinality(s \ {Chosen(s)}) = Cardinality(s) - 1
         /\ Cardinality(s) >= 1
<1>1. IsFiniteSet(s)
  BY HashTableAssumption, FS_Subset
<1>2. Chosen(s) \in s
  BY DEF Chosen
<1>. DEFINE c == Chosen(s)
<1>. HIDE DEF c
<1>3. IsFiniteSet(s \ {c}) /\ Cardinality(s \ {c}) = Cardinality(s) - 1
  BY <1>1, <1>2, FS_RemoveElement DEF c
<1>4. Cardinality(s) \in Nat /\ Cardinality(s \ {c}) \in Nat
  BY <1>1, <1>3, FS_CardinalityType
<1>. QED
  BY <1>2, <1>3, <1>4 DEF c

LEMMA EmptySum ==
  ASSUME NEW s \in SUBSET Bin
  PROVE  Cardinality(s) \in Nat /\ (Cardinality(s) = 0 <=> s = {})
<1>1. IsFiniteSet(s)
  BY HashTableAssumption, FS_Subset
<1>. QED
  BY <1>1, FS_CardinalityType, FS_EmptySet

\* The sum is defined: step by step for all sets of up to n bins.
LEMMA SumExists == ASSUME NEW table PROVE \E g : SumsUp(table, g)
<1>. DEFINE S == {n \in Nat : \E g : g = [s \in Few(n) |-> OneMore(table, g, s)]}
<1>1. 0 \in S
  <2>1. ASSUME NEW s \in Few(0) PROVE s = {}
    BY EmptySum DEF Few
  <2>. DEFINE g == [s \in Few(0) |-> 0]
  <2>2. g = [s \in Few(0) |-> OneMore(table, g, s)]
    BY <2>1 DEF OneMore
  <2>. QED
    BY <2>2
<1>2. ASSUME NEW n \in Nat, n \in S PROVE n + 1 \in S
  <2>1. PICK g : g = [s \in Few(n) |-> OneMore(table, g, s)]
    BY <1>2
  <2>. DEFINE h == [s \in Few(n + 1) |-> OneMore(table, g, s)]
  <2>2. ASSUME NEW s \in Few(n + 1), s # {} PROVE h[s \ {Chosen(s)}] = g[s \ {Chosen(s)}]
    <3>1. s \ {Chosen(s)} \in Few(n) /\ s \ {Chosen(s)} \in Few(n + 1)
      BY <2>2, ChosenLeavesLess DEF Few
    <3>2. g[s \ {Chosen(s)}] = OneMore(table, g, s \ {Chosen(s)})
      BY <2>1, <3>1
    <3>. QED
      BY <3>1, <3>2
  <2>3. ASSUME NEW s \in Few(n + 1) PROVE OneMore(table, g, s) = OneMore(table, h, s)
    BY <2>2 DEF OneMore
  <2>4. h = [s \in Few(n + 1) |-> OneMore(table, h, s)]
    BY <2>3
  <2>. HIDE DEF h
  <2>. QED
    BY <2>4
<1>. HIDE DEF S
<1>3. Nat \subseteq S
  BY <1>1, <1>2, Induction
<1>4. Cardinality(Bin) \in Nat
  BY HashTableAssumption, FS_CardinalityType
<1>5. PICK g : g = [s \in Few(Cardinality(Bin)) |-> OneMore(table, g, s)]
  BY <1>3, <1>4 DEF S
<1>6. Few(Cardinality(Bin)) = SUBSET Bin
  BY HashTableAssumption, FS_Subset DEF Few
<1>. QED
  BY <1>5, <1>6 DEF SumsUp

LEMMA TotalIsSum ==
  ASSUME NEW table
  PROVE  \E g : SumsUp(table, g) /\ Total(table) = g[Bin]
<1>. DEFINE g == CHOOSE g : SumsUp(table, g)
<1>1. SumsUp(table, g)
  BY SumExists
<1>2. Total(table) = g[Bin]
  BY DEF Total, MapThenSumSet, MapThenFoldSet, SumsUp, OneMore, Chosen
<1>. QED
  BY <1>1, <1>2

\* When one bin changes, the sum changes by as much.
LEMMA TotalChanges ==
  ASSUME NEW table, NEW other, NEW bin \in Bin,
         \A b \in Bin : table[b].size \in Nat /\ other[b].size \in Nat,
         \A b \in Bin \ {bin} : other[b].size = table[b].size
  PROVE  /\ Total(table) \in Nat /\ Total(other) \in Nat
         /\ Total(other) + table[bin].size = Total(table) + other[bin].size
<1>1. PICK g : SumsUp(table, g) /\ Total(table) = g[Bin]
  BY TotalIsSum
<1>2. PICK h : SumsUp(other, h) /\ Total(other) = h[Bin]
  BY TotalIsSum
<1>. DEFINE Right(s) == /\ g[s] \in Nat /\ h[s] \in Nat
                        /\ bin \in s => h[s] + table[bin].size = g[s] + other[bin].size
                        /\ bin \notin s => h[s] = g[s]
            S == {n \in Nat : \A s \in SUBSET Bin : Cardinality(s) = n => Right(s)}
<1>3. ASSUME NEW s \in SUBSET Bin
      PROVE  g[s] = OneMore(table, g, s) /\ h[s] = OneMore(other, h, s)
  BY <1>1, <1>2 DEF SumsUp
<1>4. 0 \in S
  <2>1. Right({})
    <3>1. g[{}] = 0 /\ h[{}] = 0
      BY <1>3 DEF OneMore
    <3>. QED
      BY <3>1
  <2>. HIDE DEF Right
  <2>. QED
    BY <2>1, EmptySum
<1>5. ASSUME NEW n \in Nat, n \in S PROVE n + 1 \in S
  <2>1. ASSUME NEW s \in SUBSET Bin, Cardinality(s) = n + 1 PROVE Right(s)
    <3>. DEFINE c == Chosen(s)
                rest == s \ {c}
    <3>1. s # {}
      BY <2>1, EmptySum
    <3>2. c \in s /\ rest \in SUBSET Bin /\ Cardinality(rest) = n
      BY <2>1, <3>1, ChosenLeavesLess
    <3>3. g[s] = table[c].size + g[rest] /\ h[s] = other[c].size + h[rest]
      BY <1>3, <3>1 DEF OneMore
    <3>4. Right(rest)
      BY <1>5, <3>2
    <3>. HIDE DEF c
    <3>5. table[c].size \in Nat /\ other[c].size \in Nat
      BY <3>2
    <3>6. CASE c = bin
      <4>1. bin \in s /\ bin \notin rest
        BY <3>2, <3>6
      <4>. HIDE DEF rest
      <4>. QED
        BY <3>3, <3>4, <3>5, <3>6, <4>1
    <3>7. CASE c # bin
      <4>1. (bin \in s <=> bin \in rest) /\ other[c].size = table[c].size
        BY <3>2, <3>7
      <4>2. table[bin].size \in Nat /\ other[bin].size \in Nat
        OBVIOUS
      <4>. HIDE DEF rest
      <4>. QED
        BY <3>3, <3>4, <3>5, <4>1, <4>2
    <3>. QED
      BY <3>6, <3>7
  <2>. HIDE DEF Right
  <2>. QED
    BY <2>1
<1>. HIDE DEF S
<1>6. Nat \subseteq S
  BY <1>4, <1>5, Induction
<1>7. Right(Bin)
  BY <1>6, EmptySum DEF S
<1>. QED
  BY <1>1, <1>2, <1>7

LEMMA NothingAddsUp ==
  ASSUME NEW table, \A b \in Bin : table[b].size = 0
  PROVE  Total(table) = 0
<1>1. PICK g : SumsUp(table, g) /\ Total(table) = g[Bin]
  BY TotalIsSum
<1>. DEFINE S == {n \in Nat : \A s \in SUBSET Bin : Cardinality(s) = n => g[s] = 0}
<1>2. ASSUME NEW s \in SUBSET Bin PROVE g[s] = OneMore(table, g, s)
  BY <1>1 DEF SumsUp
<1>3. 0 \in S
  BY <1>2, EmptySum DEF OneMore
<1>4. ASSUME NEW n \in Nat, n \in S PROVE n + 1 \in S
  <2>1. ASSUME NEW s \in SUBSET Bin, Cardinality(s) = n + 1 PROVE g[s] = 0
    <3>1. s # {}
      BY <2>1, EmptySum
    <3>2. /\ Chosen(s) \in Bin /\ s \ {Chosen(s)} \in SUBSET Bin
          /\ Cardinality(s \ {Chosen(s)}) = n
      BY <2>1, <3>1, ChosenLeavesLess
    <3>3. g[s \ {Chosen(s)}] = 0 /\ table[Chosen(s)].size = 0
      BY <1>4, <3>2
    <3>4. g[s] = table[Chosen(s)].size + g[s \ {Chosen(s)}]
      BY <1>2, <3>1 DEF OneMore
    <3>. QED
      BY <3>3, <3>4
  <2>. QED
    BY <2>1
<1>. HIDE DEF S
<1>5. Nat \subseteq S
  BY <1>3, <1>4, Induction
<1>. QED
  BY <1>1, <1>5, EmptySum DEF S
-----------------------------------------------------------------------------
(* The table.                                                              *)

\* Every bin is such a list, of cells that malloc has returned.
Inv ==
  /\ bins \in [Bin -> {bins[bin] : bin \in Bin}]
  /\ fresh \subseteq Cell
  /\ \A bin \in Bin :
       ListInv(bins[bin]) /\ DOMAIN bins[bin].cells \cap fresh = {}

LEMMA InvStep ==
  ASSUME Inv, [Next]_vars
  PROVE  Inv'
<1>1. ASSUME NEW p \in fresh, NEW key \in Key, NEW val \in Value, HashTableAdd(p, key, val)
      PROVE  Inv'
  <2>. DEFINE b == Hash[key]
              new == Add(bins[b], p, key, val)
  <2>1. /\ b \in Bin /\ ListInv(bins[b]) /\ p \in Cell /\ p \notin DOMAIN bins[b].cells
        /\ Find(bins[b], key) = NULL
    BY <1>1, HashTableAssumption DEF Inv, HashTableAdd
  <2>2. /\ ListInv(new) /\ DOMAIN new.cells = DOMAIN bins[b].cells \cup {p}
    BY <2>1, AddKeeps
  <2>3. bins' = [bins EXCEPT ![b] = new] /\ fresh' = fresh \ {p}
    BY <1>1 DEF HashTableAdd, Replace
  <2>. HIDE DEF b, new
  <2>. QED
    BY <2>1, <2>2, <2>3 DEF Inv
<1>2. ASSUME NEW key \in Key, HashTableDel(key)
      PROVE  Inv'
  <2>. DEFINE b == Hash[key]
              new == Del(bins[b], key)
  <2>1. b \in Bin /\ ListInv(bins[b])
    BY HashTableAssumption DEF Inv
  <2>2. ListInv(new) /\ DOMAIN new.cells \subseteq DOMAIN bins[b].cells
    BY <2>1, DelKeeps
  <2>3. bins' = [bins EXCEPT ![b] = new] /\ fresh' = fresh
    BY <1>2 DEF HashTableDel, Replace
  <2>. HIDE DEF b, new
  <2>. QED
    BY <2>1, <2>2, <2>3 DEF Inv
<1>3. CASE UNCHANGED vars
  BY <1>3 DEF vars, Inv
<1>. QED
  BY <1>1, <1>2, <1>3 DEF Next

\* Replacing a bin keeps the size of the table in step with the sum.
LEMMA ReplaceAddsUp ==
  ASSUME Inv, Inv', SizesAddUp, NEW bin \in Bin, NEW list, Replace(bin, list)
  PROVE  SizesAddUp'
<1>1. bins' = [bins EXCEPT ![bin] = list] /\ size' = Resize(bins[bin].size, list.size)
  BY DEF Replace
<1>2. \A b \in Bin : bins[b].size \in Nat /\ bins'[b].size \in Nat
  BY DEF Inv, ListInv, Structure
<1>3. bins'[bin] = list /\ \A b \in Bin \ {bin} : bins'[b] = bins[b]
  BY <1>1 DEF Inv
<1>4. /\ Total(bins) \in Nat /\ Total(bins') \in Nat
      /\ Total(bins') + bins[bin].size = Total(bins) + list.size
  BY <1>2, <1>3, TotalChanges
<1>5. list.size \in Nat
  BY <1>2, <1>3
<1>6. Resized(Rest(Total(bins), Word), Word, bins[bin].size, list.size) = Rest(Total(bins'), Word)
  <2>1. PICK t0 \in Nat, t1 \in Nat, s0 \in Nat, s1 \in Nat :
          /\ t0 = Total(bins) /\ t1 = Total(bins') /\ s0 = bins[bin].size /\ s1 = list.size
          /\ t1 + s0 = t0 + s1
    BY <1>2, <1>4, <1>5
  <2>2. Word \in Nat \ {0}
    BY HashTableAssumption
  <2>3. t1 + s0 = t0 + s1
    BY <2>1
  <2>4. Resized(Rest(t0, Word), Word, s0, s1) = Rest(t1, Word)
    BY <2>2, <2>3, WrapsLikeTheSum
  <2>. QED
    BY <2>1, <2>4
<1>. QED
  BY <1>1, <1>6 DEF SizesAddUp, Resize, Rest, Resized

LEMMA SizesStep ==
  ASSUME Inv, Inv', SizesAddUp, [Next]_vars
  PROVE  SizesAddUp'
<1>1. ASSUME NEW p \in fresh, NEW key \in Key, NEW val \in Value, HashTableAdd(p, key, val)
      PROVE  SizesAddUp'
  <2>1. Hash[key] \in Bin /\ Replace(Hash[key], Add(bins[Hash[key]], p, key, val))
    BY <1>1, HashTableAssumption DEF HashTableAdd
  <2>. QED
    BY <2>1, ReplaceAddsUp
<1>2. ASSUME NEW key \in Key, HashTableDel(key)
      PROVE  SizesAddUp'
  <2>1. Hash[key] \in Bin /\ Replace(Hash[key], Del(bins[Hash[key]], key))
    BY <1>2, HashTableAssumption DEF HashTableDel
  <2>. QED
    BY <2>1, ReplaceAddsUp
<1>3. CASE UNCHANGED vars
  BY <1>3 DEF vars, SizesAddUp
<1>. QED
  BY <1>1, <1>2, <1>3 DEF Next

LEMMA InvHolds == Spec => [](Inv /\ SizesAddUp)
<1>1. Init => Inv
  BY EmptyListInv DEF Init, Inv, EmptyList
<1>2. Init => SizesAddUp
  <2>. SUFFICES ASSUME Init PROVE SizesAddUp
    OBVIOUS
  <2>1. \A b \in Bin : bins[b].size = 0
    BY DEF Init, EmptyList
  <2>2. Total(bins) = 0
    BY <2>1, NothingAddsUp
  <2>3. 0 % Word = 0
    BY HashTableAssumption
  <2>. QED
    BY <2>2, <2>3 DEF Init, SizesAddUp
<1>3. Inv /\ SizesAddUp /\ [Next]_vars => (Inv /\ SizesAddUp)'
  BY InvStep, SizesStep
<1>. QED
  BY <1>1, <1>2, <1>3, PTL DEF Spec

-----------------------------------------------------------------------------
(* What follows for the table.                                             *)

LEMMA OneValue ==
  ASSUME NEW list, ListInv(list), NEW key,
         NEW m \in HitsOf(list, key), NEW n \in HitsOf(list, key), m < n
  PROVE  ValueAt(list, m) = NULL
<1>1. NULL \notin DOMAIN list.cells
  BY ListAssumption DEF ListInv, Structure
<1>2. m = 0 /\ n = 1
  BY <1>1, StepByStep DEF HitsOf
<1>3. /\ Traversal(list)[0] = list.head
      /\ list.head \in DOMAIN list.cells /\ list.cells[list.head].key = key
      /\ NextOf(list, list.head) \in DOMAIN list.cells
      /\ list.cells[NextOf(list, list.head)].key = key
  BY <1>2, StepByStep DEF HitsOf
<1>4. list.cells[list.head].val = NULL
  BY <1>1, <1>3 DEF ListInv, NoElement, OneElement, TwoElements, NextOf
<1>. QED
  BY <1>2, <1>3, <1>4 DEF ValueAt

LEMMA MemorySound ==
  ASSUME NEW list, ListInv(list)
  PROVE  IsSound(list)
<1>. DEFINE K == Cardinality(DOMAIN list.cells)
            t == Traversal(list)
            after == NextOf(list, list.head)
<1>1. /\ K \in Nat /\ DOMAIN t = 0 .. K
      /\ OneElement(list) => K >= 1
      /\ TwoElements(list) => K >= 2
  BY CellsCounted, StepByStep
<1>2. /\ t[0] = list.head
      /\ \A n \in DOMAIN t : /\ n \in Nat
                             /\ n = 1 => t[n] = after
                             /\ n # 0 /\ n # 1 => t[n] = NULL
  BY StepByStep
<1>3. NULL \notin DOMAIN list.cells /\ list.size \in Nat /\ NextOf(list, after) = NULL
  BY TwoSteps, ListAssumption DEF ListInv, Structure
<1>4. Reached(list) = {t[n] : n \in DOMAIN t} \ {NULL}
  BY DEF Reached
<1>5. IsSound(list) <=> /\ Reached(list) \subseteq DOMAIN list.cells
                        /\ NextOf(list, t[K]) = NULL
                        /\ list.tail \in Reached(list) \cup {NULL}
                        /\ list.size >= Cardinality(Reached(list))
  BY DEF IsSound
<1>6. CASE NoElement(list)
  <2>1. list.head = NULL /\ list.tail = NULL /\ after = NULL
    BY <1>3, <1>6 DEF NoElement, NextOf
  <2>. HIDE DEF K, t, after
  <2>2. Reached(list) = {}
    BY <1>2, <1>4, <2>1
  <2>3. NextOf(list, t[K]) = NULL
    BY <1>1, <1>2, <1>3, <2>1
  <2>. QED
    BY <1>3, <1>5, <2>1, <2>2, <2>3, FS_EmptySet
<1>7. CASE OneElement(list)
  <2>1. /\ list.head \in DOMAIN list.cells /\ after = NULL
        /\ list.tail \in {list.head, NULL} /\ list.size >= 1 /\ K >= 1
    BY <1>1, <1>7 DEF OneElement, NextOf
  <2>. HIDE DEF K, t, after
  <2>2. Reached(list) = {list.head}
    <3>1. 0 \in DOMAIN t
      BY <1>1
    <3>2. ASSUME NEW n \in DOMAIN t PROVE t[n] = list.head \/ t[n] = NULL
      BY <1>2, <2>1
    <3>. QED
      BY <1>2, <1>3, <1>4, <2>1, <3>1, <3>2
  <2>3. NextOf(list, t[K]) = NULL
    <3>1. t[K] = NULL
      BY <1>1, <1>2, <2>1
    <3>. QED
      BY <1>3, <2>1, <3>1
  <2>4. Cardinality(Reached(list)) = 1
    BY <2>2, FS_Singleton
  <2>. QED
    BY <1>5, <2>1, <2>2, <2>3, <2>4
<1>8. CASE TwoElements(list)
  <2>1. /\ list.head \in DOMAIN list.cells /\ after \in DOMAIN list.cells
        /\ after # list.head /\ list.tail = list.head /\ list.size >= 2 /\ K >= 2
    BY <1>1, <1>8 DEF TwoElements, NextOf
  <2>. HIDE DEF K, t, after
  <2>2. Reached(list) = {list.head, after}
    <3>1. 0 \in DOMAIN t /\ 1 \in DOMAIN t
      BY <1>1, <2>1
    <3>2. ASSUME NEW n \in DOMAIN t
          PROVE  t[n] = list.head \/ t[n] = after \/ t[n] = NULL
      BY <1>2
    <3>3. t[0] = list.head /\ t[1] = after
      BY <1>2, <3>1
    <3>. QED
      BY <1>3, <1>4, <2>1, <3>1, <3>2, <3>3
  <2>3. NextOf(list, t[K]) = NULL
    <3>1. t[K] = NULL
      BY <1>1, <1>2, <2>1
    <3>2. NextOf(list, NULL) = NULL
      BY TwoSteps
    <3>. QED
      BY <3>1, <3>2
  <2>4. Cardinality(Reached(list)) = 2
    <3>1. IsFiniteSet({list.head}) /\ Cardinality({list.head}) = 1
      BY FS_Singleton
    <3>2. after \notin {list.head} /\ Reached(list) = {list.head} \cup {after}
      BY <2>1, <2>2
    <3>. QED
      BY <3>1, <3>2, FS_AddElement
  <2>. QED
    BY <1>5, <2>1, <2>2, <2>3, <2>4
<1>. QED
  BY <1>6, <1>7, <1>8 DEF ListInv

\* No sequence of calls puts two values of a key in the table, whatever the hash
\* function: a key is there twice only behind a NULL value of its own.
THEOREM KeysStayUnique == Spec => []KeysAreUnique
<1>1. Inv => KeysAreUnique
  BY OneValue DEF Inv, KeysAreUnique
<1>. QED
  BY <1>1, InvHolds, PTL

\* No sequence of calls makes a traversal meet a freed cell or run in a circle,
\* leaves the tail pointer at a cell that is not in its list, or makes a size
\* smaller than the number of elements; and the size of the table stays the sum of
\* those of its bins.
THEOREM ListsStayWellLinked == Spec => []WellLinked
<1>1. Inv => MemoryIsSound
  BY MemorySound DEF Inv, MemoryIsSound
<1>. QED
  BY <1>1, InvHolds, PTL DEF WellLinked

=============================================================================
