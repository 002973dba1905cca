----------------------------- MODULE IndexStore -----------------------------
(***************************************************************************)
(* The index of the library (src/src/media/index.rs): what upsert, remove, *)
(* get and load do to the list of entries and the list of their vectors.   *)
(*                                                                         *)
(* A text stands for its hash too, and a vector for the document that was  *)
(* embedded: an entry at position k has the right vector iff the same      *)
(* document stands at k in both lists.  by_id is the position of an entry, *)
(* as all operations keep it.  Kinds and names are left out.               *)
(***************************************************************************)
EXTENDS Naturals, Sequences, SequencesExt, Iterators

CONSTANTS
    Items,    \* the items of the library: numbers, in Jellyfin's order
    Texts     \* the texts that an item may have

ASSUME ItemsAssumption == Items \subseteq Nat /\ IsFiniteSet(Items)

Doc   == [id: Items, text: Texts]
Empty == [entries |-> <<>>, vectors |-> <<>>]

(* Items in ascending order. *)
Ascending ==
    [s \in SUBSET Items |->
        CHOOSE q \in [1..Cardinality(s) -> s] : \A j, k \in DOMAIN q : j < k => q[j] < q[k]]

Position(ix, id) == {k \in DOMAIN ix.entries : ix.entries[k].id = id}

(* Mutant: an entry that is there already is added again. *)
UpsertTwice(ix, d) ==
    [entries |-> Append(ix.entries, d), vectors |-> Append(ix.vectors, d)]

Put(seq, at, d) == [k \in DOMAIN seq |-> IF k \in at THEN d ELSE seq[k]]

Upsert(ix, d) ==
    LET at == Position(ix, d.id)
    IN  IF at = {}
        THEN [entries |-> Append(ix.entries, d), vectors |-> Append(ix.vectors, d)]
        ELSE [entries |-> Put(ix.entries, at, d), vectors |-> Put(ix.vectors, at, d)]

UpsertAll(ix, docs) ==
    LET upto[k \in 0..Len(docs)] == IF k = 0 THEN ix ELSE Upsert(upto[k-1], docs[k])
    IN  upto[Len(docs)]

Staying(ix, ids) == {k \in DOMAIN ix.entries : ix.entries[k].id \notin ids}

(* Mutant: the vectors stay. *)
RemoveEntries(ix, ids) ==
    [entries |-> Picked(ix.entries, Staying(ix, ids)), vectors |-> ix.vectors]

(* The positions that stay are the same in both lists. *)
RemoveIds(ix, ids) ==
    [entries |-> Picked(ix.entries, Staying(ix, ids)),
     vectors |-> Picked(ix.vectors, Staying(ix, ids))]

Removed(ix, ids) == \E e \in ToSet(ix.entries) : e.id \in ids

(* The documents whose text is new or changed. *)
Changed(ix, docs) == Picked(docs, {k \in DOMAIN docs : docs[k] \notin ToSet(ix.entries)})

(* The index of a pair of files: a wrong length is all that load can see. *)
Loaded(files) ==
    IF Len(files.vectors) = Len(files.entries) THEN files ELSE Empty

Matched(ix) == ix.vectors = ix.entries
=============================================================================
