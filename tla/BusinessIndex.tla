--------------------------- MODULE BusinessIndex ---------------------------
(* The index under which the lead collection gathers businesses              *)
(* (contact_harvest.merge_by_keys): a business is known by the domain of its *)
(* website and by its name, every key of an entry leads to the same row, and *)
(* a row that shares keys with two entries makes them one.                   *)
(*                                                                           *)
(* The index is the sequence of its entries in the order of their first key, *)
(* each with all its keys: what the code keeps as a dict from keys to shared *)
(* dicts and reads back with unique_records.  A name is its normalised form, *)
(* "" is a blank field.                                                      *)
EXTENDS Lists

-----------------------------------------------------------------------------

Blank(value) == value = ""

\* The keys that are given.
Given(keys) == Selected(keys, {n \in DOMAIN keys : ~Blank(keys[n])})

\* The entries that have a key.
Hits(index, key) == {i \in DOMAIN index : key \in index[i].keys}

MergeWithFirst(index, item, keys) ==
  LET known == SelectSeq(keys, LAMBDA k : Hits(index, k) # {})
      at == IF known = <<>> THEN 0 ELSE CHOOSE i \in Hits(index, known[1]) : TRUE
  IN IF keys = <<>> THEN index
     ELSE IF at = 0 THEN Append(index, [keys |-> ToSet(keys), row |-> item])
     ELSE [index EXCEPT ![at] =
             [keys |-> @.keys \cup {k \in ToSet(keys) : Hits(index, k) = {}},
              row |-> [f \in DOMAIN item |-> IF Blank(@.row[f]) THEN item[f] ELSE @.row[f]]]]
\* Fold an item in under its keys.  At the earliest place among the entries that have
\* one of them they become one: of each field the value of the first key's entry that
\* knows it, and the item's if none does.
MergeByKeys(index, item, keys) ==
  LET Entry(n) == CHOOSE i \in Hits(index, keys[n]) : TRUE
      known == {n \in DOMAIN keys : Hits(index, keys[n]) # {}}
      hits == {Entry(n) : n \in known}
      Knows(f) == {n \in known : ~Blank(index[Entry(n)].row[f])}
      merged == [keys |-> ToSet(keys) \cup UNION {index[i].keys : i \in hits},
                 row |-> [f \in DOMAIN item |-> IF Knows(f) = {} THEN item[f]
                                              ELSE index[Entry(Min(Knows(f)))].row[f]]]
  IN IF keys = <<>> THEN index
     ELSE IF hits = {} THEN Append(index, merged)
     ELSE Selected([index EXCEPT ![Min(hits)] = merged], DOMAIN index \ (hits \ {Min(hits)}))

\* The distinct rows, in the order they came.
UniqueRecords(index) == [i \in DOMAIN index |-> index[i].row]

-----------------------------------------------------------------------------
(* What an index of some arrivals has to be, each of them an item with the   *)
(* keys it came under.                                                       *)

\* Under one key there is one entry, every arrival is in the entry of its keys, the
\* arrivals of an entry belong together, which is to say that they cannot be split in two
\* without a key that is on both sides, and no field stays blank that one of them knew.
IndexIsPartition(index, arrivals) ==
  LET keyed == {a \in arrivals : a.keys # <<>>}
      Of(i) == {a \in keyed : ToSet(a.keys) \subseteq index[i].keys}
  IN /\ \A i, j \in DOMAIN index : i # j => index[i].keys \cap index[j].keys = {}
     /\ \A a \in keyed : \E i \in DOMAIN index : a \in Of(i)
     /\ \A i \in DOMAIN index :
          /\ Of(i) # {}
          /\ \A part \in (SUBSET Of(i)) \ {{}, Of(i)} :
               \E a \in part : \E b \in Of(i) \ part : ToSet(a.keys) \cap ToSet(b.keys) # {}
          /\ \A f \in DOMAIN index[i].row :
               Blank(index[i].row[f]) <=> \A a \in Of(i) : Blank(a.item[f])
=============================================================================
