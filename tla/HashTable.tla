------------------------------ MODULE HashTable -----------------------------
(***************************************************************************)
(* The chained hash table of util/hash_table.c: bins of lists and a size   *)
(* kept up to date from the sizes of the bin that changes.  What the hash  *)
(* function computes is left open: a key goes to the bin Hash gives it.    *)
(***************************************************************************)
EXTENDS ListOps, FiniteSetsExt, TLC

CONSTANTS
  Key,
  Value,     \* data; if NULL is among it, it is stored like any other
  Bin,       \* indices below num_bins
  Hash,      \* the bin of each key
  Word       \* number of values of a uint32_t

ASSUME HashTableAssumption ==
  Hash \in [Key -> Bin] /\ IsFiniteSet(Bin) /\ Word \in Nat \ {0}

VARIABLES
  bins,      \* ht->bins
  size,      \* ht->size
  fresh,     \* the cells malloc has not returned yet
  entries    \* history: per key added and not deleted since, the data it was added with

vars == <<bins, size, fresh, entries>>

\* Both updates of the size wrap, one after the other.
Resize(old, new) == (((size + Word - old) % Word) + new) % Word

Replace(bin, list) ==
  /\ bins' = [bins EXCEPT ![bin] = list]
  /\ size' = Resize(bins[bin].size, list.size)

Believe(key, val) ==
  entries' = IF key \in DOMAIN entries THEN entries ELSE key :> val @@ entries

Forget(key) == entries' = [k \in DOMAIN entries \ {key} |-> entries[k]]

\* Faulty variant: the key is not looked for before it is added.
HashTableAddAnyway(p, key, val) ==
  /\ Replace(Hash[key], Add(bins[Hash[key]], p, key, val))
  /\ fresh' = fresh \ {p}
  /\ Believe(key, val)

\* hash_table_add: a key for which a value is found is not added again.
HashTableAdd(p, key, val) ==
  /\ Find(bins[Hash[key]], key) = NULL
  /\ Replace(Hash[key], Add(bins[Hash[key]], p, key, val))
  /\ fresh' = fresh \ {p}
  /\ Believe(key, val)

\* Faulty variant: a deletion counts whether or not the key was there.
HashTableDelCounting(key) ==
  /\ bins' = [bins EXCEPT ![Hash[key]] = Del(bins[Hash[key]], key)]
  /\ size' = (size + Word - 1) % Word
  /\ Forget(key) /\ UNCHANGED fresh

\* hash_table_del
HashTableDel(key) ==
  /\ Replace(Hash[key], Del(bins[Hash[key]], key))
  /\ Forget(key) /\ UNCHANGED fresh

Init ==
  /\ bins = [bin \in Bin |-> EmptyList]
  /\ size = 0
  /\ fresh = Cell
  /\ entries = <<>>

Next ==
  \E key \in Key :
    \/ /\ fresh # {}
       /\ \E val \in Value : HashTableAdd(CHOOSE p \in fresh : TRUE, key, val)
    \/ HashTableDel(key)

Spec == Init /\ [][Next]_vars

-----------------------------------------------------------------------------
(* Properties.                                                             *)

\* No sequence of calls puts two values of a key in the table, although the lists
\* below allow it.  hash_table.h says that there are no two entries with the same
\* key: there are when the value of the first is NULL, which hash_table_add cannot
\* tell from a key that is not there.
KeysAreUnique ==
  \A bin \in Bin, key \in Key :
    \A m, n \in HitsOf(bins[bin], key) : m < n => ValueAt(bins[bin], m) = NULL

IsSound(list) ==
  /\ Reached(list) \subseteq DOMAIN list.cells
  /\ NextOf(list, Traversal(list)[Cardinality(DOMAIN list.cells)]) = NULL
  /\ list.tail \in Reached(list) \cup {NULL}
  /\ list.size >= Cardinality(Reached(list))

\* The memory of every bin stays sound under any sequence of calls, although the
\* lists lose elements: a traversal ends, it meets only cells that have not been
\* freed, the tail pointer is NULL or one of them, and the size is never below
\* the number of cells a traversal meets, so that it cannot wrap around.
MemoryIsSound == \A bin \in Bin : IsSound(bins[bin])

Total(table) == MapThenSumSet(LAMBDA bin : table[bin].size, Bin)

\* The size of the table is the sum of those of its bins, as far as its width can
\* tell, whatever additions were refused and whatever deletions found nothing.
SizesAddUp == size = Total(bins) % Word

\* Both together.
WellLinked == MemoryIsSound /\ SizesAddUp

\* The table stores the pairs added to it (hash_table.h): a key that was added and
\* not deleted since is found, with the data it was added with.
FindsWhatWasAdded ==
  \A key \in DOMAIN entries : Find(bins[Hash[key]], key) = entries[key]

=============================================================================
